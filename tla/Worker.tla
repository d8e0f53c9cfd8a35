------------------------------- MODULE Worker -------------------------------
(***************************************************************************)
(* The process-local restore of one EngineCore (run_local_restore in       *)
(* src/vllm_criu/enginecore/lifecycle.py) and what it does to the worker:  *)
(* the patched checkpoint_restore, the three ways to get memory back       *)
(* (enginecore/memory.py), reload_weights and the CUDA graphs              *)
(* (enginecore/graphs.py), any of which may raise.                         *)
(*                                                                         *)
(* Simplifications: one attempt at a time (module EngineCore has the race  *)
(* of two); the tensors of the allocation-only path are module Rebind; the *)
(* optional warm-up after the worker bootstrap is left out.                *)
(***************************************************************************)
EXTENDS Naturals

CONSTANT Settings  \* the VLLM_LIFECYCLE_* switches to be checked

\* native:  RESTORE_NATIVE_WAKE      rebootstrap: CUDA_REBOOTSTRAP
\* cleanup: CUDA_DIST_CLEANUP        recapture:   RESTORE_CUDAGRAPHS
\* preserve: PRESERVE_CUDAGRAPHS
Switches == [native : BOOLEAN, rebootstrap : BOOLEAN, cleanup : BOOLEAN,
             recapture : BOOLEAN, preserve : BOOLEAN]

ASSUME SettingsAssumption == Settings \subseteq Switches

VARIABLES
  set,      \* the switches of this process
  at,       \* the stage of the restore, or "idle"
  by,       \* the thread that runs it: "thread" or "main"
  started,  \* _vllm_criu_restore_thread_started
  status,   \* .vllm-criu-restore-status
  runner,   \* worker.model_runner: "old", "none", "bare" or "new"; only "old"
            \* and "new" know the KV cache configuration
  weights,  \* "absent", "mapped", "partial": being rewritten, or "loaded"
  kv,       \* "absent" or "mapped"
  dist,     \* the distributed environment exists
  graphs,   \* the CUDA graphs the runner would replay: "none", "old", "new"
  unclear,  \* (history) clear_all_graphs has raised, which is only logged
  paused    \* the scheduler is paused

memoryVars == <<runner, weights, kv, graphs, unclear>>
runVars    == <<by, started>>
workerVars == <<set, at, runVars, status, memoryVars, dist, paused>>

\* Level-2 sleep has discarded weights and KV cache and paused the scheduler;
\* checkpoint_prepare has dropped the graphs, and the process groups if asked.
\* The resume has removed the status file.
WorkerInit ==
  /\ set \in Settings
  /\ at = "idle" /\ by = "thread" /\ started = FALSE
  /\ status = "none"
  /\ runner = "old" /\ weights = "absent" /\ kv = "absent"
  /\ dist = ~set.cleanup
  /\ graphs = IF set.preserve THEN "old" ELSE "none"
  /\ unclear = FALSE
  /\ paused = TRUE

(***************************************************************************)
(* run_local_restore                                                       *)
(***************************************************************************)
\* The restore thread is started once in the life of the process; the main
\* loop's hook tries whenever no restore runs and none has completed.  The
\* status of an earlier attempt is unlinked.
Begin(t) ==
  /\ at = "idle" /\ status # "done"
  /\ t = "thread" => ~started
  /\ at' = "restore" /\ by' = t
  /\ started' = (started \/ t = "thread")
  /\ status' = "none"
  /\ UNCHANGED <<set, memoryVars, dist, paused>>

Stage(now, next) ==
  /\ at = now
  /\ at' = next
  /\ status' = "stage"
  /\ UNCHANGED <<set, runVars>>

\* except Exception: the status says failed; a retry is possible.  In the main
\* loop the exception ends the EngineCore, see module Restore.
Raise(now) ==
  /\ at = now
  /\ at' = "idle"
  /\ status' = "failed"
  /\ UNCHANGED <<set, runVars>>

\* (variant: the process groups are always left to the bootstrap)
RestoreNoDist ==
  /\ Stage("restore", "reinit")
  /\ UNCHANGED <<memoryVars, dist, paused>>

\* checkpoint_restore_for_criu: only the allocation-only path recreates what a
\* cleanup destroyed, the bootstrap does so later
RestoreDist ==
  /\ Stage("restore", "reinit")
  /\ dist' = (dist \/ (set.cleanup /\ ~set.rebootstrap))
  /\ UNCHANGED <<memoryVars, paused>>

(***************************************************************************)
(* vllm_criu_reinitialize_after_restore; its wrapper of collective_rpc     *)
(* resumes the scheduler                                                   *)
(***************************************************************************)
\* Worker.wake_up(tags=["weights"]) maps the handles again
NativeWake ==
  /\ set.native
  /\ Stage("reinit", "reload")
  /\ weights' = "mapped" /\ paused' = FALSE
  /\ UNCHANGED <<runner, kv, graphs, unclear, dist>>

\* (variant: the graphs that were captured on the old tensors stay)
KeepGraphs == UNCHANGED <<graphs, unclear>>

\* clear_all_graphs, whose failure is swallowed
DropGraphs ==
  \/ graphs' = "none" /\ UNCHANGED unclear
  \/ unclear' = TRUE /\ UNCHANGED graphs

\* _reinitialize_worker_allocations: fresh tensors
Rebound ==
  /\ ~set.native /\ ~set.rebootstrap
  /\ Stage("reinit", "reload")
  /\ DropGraphs
  /\ weights' = "mapped" /\ kv' = "mapped" /\ paused' = FALSE
  /\ UNCHANGED <<runner, dist>>

\* The walk stops half-way
ReboundRaises ==
  /\ ~set.native /\ ~set.rebootstrap
  /\ Raise("reinit")
  /\ DropGraphs
  /\ UNCHANGED <<runner, weights, kv, dist, paused>>

\* _rebootstrap_worker_after_restore up to its step n: the old runner,
\* allocator and process groups are gone and the device is reset (1),
\* init_device (2), load_model (3), initialize_from_config with the KV cache
\* configuration of the runner it found (4).  A call that raises half-way
\* leaves what the step before it left.
BootstrapTo(n) ==
  /\ runner' = (IF n < 2 THEN "none"
                ELSE IF n = 4 /\ runner \in {"old", "new"} THEN "new"
                ELSE "bare")
  /\ weights' = IF n < 3 THEN "absent" ELSE "loaded"
  /\ kv' = IF n = 4 /\ runner \in {"old", "new"} THEN "mapped" ELSE "absent"
  /\ dist' = (n >= 2)
  /\ graphs' = "none" /\ UNCHANGED unclear

Bootstrap ==
  /\ ~set.native /\ set.rebootstrap
  /\ Stage("reinit", "reload")
  /\ BootstrapTo(4)
  /\ paused' = FALSE

\* (variant: the wrapper resumes the scheduler whether or not the call raised)
BootstrapRaisesResumed ==
  /\ ~set.native /\ set.rebootstrap
  /\ Raise("reinit")
  /\ \E n \in 1..3 : BootstrapTo(n)
  /\ paused' = FALSE

BootstrapRaises ==
  /\ ~set.native /\ set.rebootstrap
  /\ Raise("reinit")
  /\ \E n \in 1..3 : BootstrapTo(n)
  /\ UNCHANGED paused

(***************************************************************************)
(* The stages after it                                                     *)
(***************************************************************************)
\* reload_weights rewrites the model in place, beside the scheduler
BeginReload ==
  /\ Stage("reload", "rewrite")
  /\ weights' = "partial"
  /\ UNCHANGED <<runner, kv, graphs, unclear, dist, paused>>

ReloadWeights ==
  /\ Stage("rewrite", IF set.native THEN "wake_kv" ELSE "graphs")
  /\ weights' = "loaded"
  /\ UNCHANGED <<runner, kv, graphs, unclear, dist, paused>>

WakeKv ==
  /\ Stage("wake_kv", "graphs")
  /\ kv' = "mapped"
  /\ UNCHANGED <<runner, weights, graphs, unclear, dist, paused>>

\* mark_restored_graphs counts the captures that came back and drops none
Retained == graphs

\* Graphs are kept, captured again (or given up when that fails), or disabled
RestoreGraphs ==
  /\ Stage("graphs", "finish")
  /\ graphs' \in (IF ~set.recapture THEN {"none"}
                  ELSE IF set.preserve THEN {Retained}
                  ELSE {"new", "none"})
  /\ UNCHANGED <<runner, weights, kv, unclear, dist, paused>>

\* resume_scheduler(), then the status says done for good
Finish ==
  /\ at = "finish"
  /\ at' = "idle"
  /\ status' = "done"
  /\ paused' = FALSE
  /\ UNCHANGED <<set, runVars, memoryVars, dist>>

\* A worker call raises before it has done its work, or the reload half-way
Fails ==
  /\ \E now \in {"restore", "reinit", "reload", "rewrite", "wake_kv",
                 "graphs"} : Raise(now)
  /\ UNCHANGED <<memoryVars, dist, paused>>

Succeeds == \/ RestoreDist \/ NativeWake \/ Rebound \/ Bootstrap
            \/ BeginReload \/ ReloadWeights \/ WakeKv \/ RestoreGraphs
Failing  == ReboundRaises \/ BootstrapRaises \/ Fails

WorkerOK ==
  /\ set \in Switches
  /\ at \in {"idle", "restore", "reinit", "reload", "rewrite", "wake_kv",
             "graphs", "finish"}
  /\ by \in {"thread", "main"} /\ started \in BOOLEAN
  /\ status \in {"none", "stage", "done", "failed"}
  /\ runner \in {"old", "none", "bare", "new"}
  /\ weights \in {"absent", "mapped", "partial", "loaded"}
  /\ kv \in {"absent", "mapped"} /\ unclear \in BOOLEAN
  /\ dist \in BOOLEAN /\ graphs \in {"none", "old", "new"}
  /\ paused \in BOOLEAN
=============================================================================
