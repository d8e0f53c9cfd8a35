------------------------------ MODULE Restore ------------------------------
(***************************************************************************)
(* One resume, from the return of criu restore to the first requests: the  *)
(* launcher (src/vllm_criu/launcher.py, restore_vllm), the channel between *)
(* API server and EngineCore (module Channel) and the worker (module       *)
(* Worker).  The request marker starts the worker's restore and makes the  *)
(* channel's generation; the end of the restore drains the output queue;   *)
(* the scheduler it resumes answers the requests.                          *)
(*                                                                         *)
(* Simplifications: VLLM_LIFECYCLE_ENGINECORE_PATCH is on and the engine   *)
(* slept at level 2; a tree that is killed takes no further step, nor does *)
(* the restore of a process whose main loop has ended; what the launcher   *)
(* does after a failed resume is module Launcher.                          *)
(***************************************************************************)
EXTENDS Channel, Worker

VARIABLE stage  \* where restore_vllm is

vars == <<stage, channelVars, workerVars>>

\* restore_pending.touch() comes before criu restore, restore_marker.touch()
\* after it; both markers go in the finally clause.
Asked  == stage \in {"asked", "reconnect", "signal", "ready", "local"}
Marked == stage = "thawed" \/ Asked
Up     == stage # "failed"

Init == stage = "thawed" /\ ChannelInit /\ WorkerInit

(***************************************************************************)
(* restore_vllm                                                            *)
(***************************************************************************)
Advance(from, to) == stage = from /\ stage' = to

MarkRequest ==
  /\ Advance("thawed", "asked")
  /\ UNCHANGED <<channelVars, workerVars>>

\* POST /lifecycle/reconnect_zmq, whose steps are the API server's
CallReconnect ==
  /\ Advance("asked", "reconnect")
  /\ StopHandler
  /\ UNCHANGED workerVars

ReconnectStep ==
  /\ stage = "reconnect"
  /\ CancelOutputTask \/ Rebind
  /\ UNCHANGED <<stage, workerVars>>

\* os.kill(engine_pid, SIGUSR1)
Signal ==
  /\ Advance("reconnect", "signal")
  /\ link = "bound"
  /\ signal' = TRUE
  /\ UNCHANGED <<apiVars, genVars, inputVars, outputVars, engineVars, call,
                 workerVars>>

CallWaitReady ==
  /\ Advance("signal", "ready")
  /\ link = "bound"
  /\ link' = "waiting"
  /\ UNCHANGED <<inbox, peer, dead, outs, handler, socketVars, engineVars,
                 call, workerVars>>

ReadyStep ==
  /\ stage = "ready"
  /\ ReadReady \/ ReadyTimesOut
  /\ UNCHANGED <<stage, workerVars>>

Handshaken ==
  /\ Advance("ready", "local")
  /\ link = "linked"
  /\ UNCHANGED <<channelVars, workerVars>>

\* _wait_for_enginecore_local_restore looks at the file four times a second
SeesDone ==
  /\ Advance("local", "running")
  /\ status = "done"
  /\ UNCHANGED <<channelVars, workerVars>>

\* A call or a wait fails or comes to its deadline: the tree is killed.  A
\* "failed" that a retry has unlinked is not seen.
GivesUp ==
  /\ \/ \E from \in {"asked", "reconnect", "ready"} : Advance(from, "failed")
     \/ Advance("local", "failed") /\ status # "done"
  /\ UNCHANGED <<channelVars, workerVars>>

(***************************************************************************)
(* The EngineCore process                                                  *)
(***************************************************************************)
\* The main loop is not inside the restore
MainFree == ~died /\ (at = "idle" \/ by = "thread")

Triggers ==
  /\ Asked /\ (MarkerSeen \/ MarkerTriggers)
  /\ UNCHANGED <<stage, workerVars>>

\* The write may come after the resume has ended
TriggersLate ==
  /\ Up /\ late /\ MarkerTriggers
  /\ UNCHANGED <<stage, workerVars>>

SignalStep ==
  /\ Up /\ HandleSignal
  /\ UNCHANGED <<stage, workerVars>>

InputStep ==
  /\ Up /\ (Build \/ Greet)
  /\ UNCHANGED <<stage, workerVars>>

OutputStep ==
  /\ Up /\ OutputLoop(Marked)
  /\ UNCHANGED <<stage, workerVars>>

RestoreBegins ==
  /\ Asked /\ ~died
  /\ \E t \in {"thread", "main"} : Begin(t)
  /\ UNCHANGED <<stage, channelVars>>

RestoreStep ==
  /\ Up /\ ~died
  /\ Succeeds
  /\ UNCHANGED <<stage, channelVars>>

\* The exception ends the thread, or the main loop and with it the EngineCore
RestoreRaises ==
  /\ Up /\ ~died /\ Failing
  /\ IF by = "main" THEN Die ELSE UNCHANGED channelVars
  /\ UNCHANGED stage

\* (variant: the output queue is left as it was)
DrainNothing == UNCHANGED outq
\* _discard_stale_engine_dead_outputs
Drain == outq' = Alive(outq)

RestoreEnds ==
  /\ Up /\ ~died /\ Finish
  /\ Drain
  /\ UNCHANGED <<stage, apiVars, socketVars, died, call>>

(***************************************************************************)
(* The service afterwards                                                  *)
(***************************************************************************)
ClientSends ==
  /\ stage = "running"
  /\ \E c \in Calls : Send(c)
  /\ UNCHANGED <<stage, workerVars>>

EngineServes ==
  /\ Up /\ MainFree /\ ~paused
  /\ \E c \in Calls : Serve(c)
  /\ UNCHANGED <<stage, workerVars>>

ApiReads ==
  /\ Up /\ Arrive
  /\ UNCHANGED <<stage, workerVars>>

ApiHandles ==
  /\ Up /\ HandleOutput
  /\ UNCHANGED <<stage, workerVars>>

\* Its main loop raises, in service or under the restore of the other thread
EngineDies ==
  /\ Up /\ MainFree
  /\ Die
  /\ UNCHANGED <<stage, workerVars>>

Monitor ==
  /\ Up /\ MonitorSees(Marked)
  /\ UNCHANGED <<stage, workerVars>>

Launcher == \/ MarkRequest \/ CallReconnect \/ Signal \/ CallWaitReady
            \/ Handshaken \/ SeesDone \/ GivesUp
ApiServer == ReconnectStep \/ ReadyStep
Engine == \/ Triggers \/ TriggersLate \/ SignalStep
          \/ InputStep \/ OutputStep
          \/ RestoreBegins \/ RestoreStep \/ RestoreRaises \/ RestoreEnds
Service == \/ ClientSends \/ EngineServes \/ ApiReads \/ ApiHandles
           \/ EngineDies \/ Monitor

Next == Launcher \/ ApiServer \/ Engine \/ Service

Spec == Init /\ [][Next]_vars

\* Of the threads and event loops that serve a request, each runs; no client
\* has to call, no restore has to raise and no engine has to die.
Fairness == /\ WF_vars(EngineServes) /\ WF_vars(OutputStep)
            /\ WF_vars(ApiReads) /\ WF_vars(ApiHandles)

FairSpec == Spec /\ Fairness

(***************************************************************************)
(* Properties                                                              *)
(***************************************************************************)
\* Every variable has its type.
TypeOK ==
  /\ stage \in {"thawed", "asked", "reconnect", "signal", "ready", "local",
                "running", "failed"}
  /\ ChannelOK /\ WorkerOK

\* Unless the signal made a second generation, beside the marker's own, the
\* API addresses the one DEALER that is open: the replacement of the dumped
\* one, which it did not know.
Repaired == stage = "running" /\ ~second => peer = 1 /\ dealer = 1

\* A resume that succeeds leaves the API talking to an EngineCore that is
\* there (sockets.py:56-59).
AdoptsLive == stage = "running" /\ ~signal /\ dealer = gen => peer = dealer

\* Neither a sentinel that the image brought back, nor the teardown of the
\* output task, makes a repaired API client declare a live engine dead.  (An
\* output handler that had already ended is not replaced: "lost".)
NotDeclaredDead ==
  stage \in {"signal", "ready", "local", "running"} /\ ~died
    => ~dead /\ handler # "ended"

\* The launcher's "running" is of a worker with weights, KV cache and process
\* groups, also when a stage raised and was tried again.  One history and one
\* setting fall short of it: a retry after a bootstrap that raised finds no KV
\* cache configuration (the runner is "bare"), and the native wake-up leaves
\* the process groups to a bootstrap that never runs.
RunningMeansUsable ==
  stage = "running"
    => /\ weights = "loaded"
       /\ kv = "mapped" \/ runner = "bare"
       /\ dist \/ (set.native /\ set.rebootstrap /\ set.cleanup)

\* A scheduler that runs beside a restore in its own thread finds a worker
\* that can step: so it is for the default bootstrap, whose reinitialization
\* resumes the scheduler early but loads the weights first.  Only the weights
\* that reload_weights then rewrites may be half of the old ones and half of
\* the new ones, also for good when it raises.
SchedulerHasModel ==
  ~paused /\ MainFree /\ ~set.native /\ set.rebootstrap
    => /\ kv = "mapped" \/ runner = "bare"
       /\ \/ weights = "loaded"
          \/ weights = "partial" /\ (at = "rewrite" \/ status = "failed")

\* Graphs captured before the dump are replayed only where the native wake-up
\* has mapped the very addresses they were captured on, or where they could
\* not be cleared, which the allocation-only path ignores.
GraphsFit ==
  stage = "running" /\ graphs = "old" => set.native \/ unclear

\* A sentinel that is still in the queue when the service runs reaches the
\* API client, unless the output loop died of a late signal.  (One of an engine
\* that died under the restore may have been dropped as stale; then only the
\* monitor is left.)
DeathReported ==
  stage = "running" /\ (\E k \in DOMAIN outq : outq[k] = Dead)
    ~> dead \/ outAt = "lost"

=============================================================================
