------------------------------- MODULE Guard -------------------------------
(***************************************************************************)
(* The guard (src/vllm-guard.js) in front of one vLLM, with                *)
(* CHECKPOINT_MODE=criu and SLEEP_LEVEL=2: it forwards requests, wakes or  *)
(* resumes the engine on demand, and has it suspended when it is idle.     *)
(* The guard is one JavaScript thread: a step is the code between two      *)
(* awaits of the wake-up, of the idle loop, or of a request.               *)
(*                                                                         *)
(* Simplifications: /is_sleeping exists; a GET is read and acted upon in   *)
(* one step, but for the is_sleeping that lets requests pass, while the    *)
(* answer to a POST may come late; the calls to the launcher have no       *)
(* timeout of their own and reach it before a restarted guard is up;       *)
(* launcherState is `state`, or anything after a request for it that       *)
(* failed; heartbeats only prolong activity and are left out.              *)
(***************************************************************************)
EXTENDS Service

CONSTANTS
  Requests,    \* client requests
  MaxRestarts  \* bound on restarts of the guard

ASSUME GuardAssumption == MaxRestarts \in Nat

VARIABLES
  checkpointed,  \* the flag of the same name
  wake,          \* where wakePromise is, "none" if it is null
  health,        \* its `health`: "null", "restoring", or "other" state
  idle,          \* where the idle loop is; sleepPromise is set at "suspend"
  long,          \* IDLE_TIMEOUT has passed since lastActive
  req,           \* where the requests are
  restarts       \* restarts of the guard so far

wakeVars  == <<wake, health>>
idleVars  == <<idle, long>>
guardVars == <<checkpointed, wakeVars, idleVars, req, restarts>>
vars == <<serviceVars, guardVars>>

\* What only the launcher changes, with the engine and without it
launcherVars == <<state, op, mine, image, frozen, watched>>
postVars     == <<launcherVars, engine>>

Final == {"new", "done", "refused", "expired", "cut"}
InFlight == {r \in Requests : req[r] \in {"waiting", "sent"}}

Init ==
  /\ ServiceInit
  /\ checkpointed = FALSE
  /\ wake = "none" /\ health = "null"
  /\ idle = "boot" /\ long = FALSE
  /\ req = [r \in Requests |-> "new"]
  /\ restarts = 0

(***************************************************************************)
(* reconcileCheckpointState                                                *)
(***************************************************************************)
\* (variant: only "checkpointed" is looked at)
ReconciledUp ==
  state = "checkpointed" \/ checkpointed

Reconciled ==
  CASE state = "checkpointed" -> TRUE
    [] state = "running"      -> FALSE
    [] OTHER                  -> checkpointed

Post(c) == inbox' = inbox \cup {c}
Take(c) == reply' = [reply EXCEPT ![c] = "none"]

(***************************************************************************)
(* fetch: a request, from inFlight++ to ensureAwake                        *)
(***************************************************************************)
\* (variant: a request starts its own wake-up)
ArriveAlone(r) ==
  /\ req[r] \in Final
  /\ req' = [req EXCEPT ![r] = "waiting"]
  /\ wake' = "health" /\ long' = FALSE
  /\ UNCHANGED <<serviceVars, checkpointed, health, idle, restarts>>

\* it joins the wake-up on its way or starts one
Arrive(r) ==
  /\ req[r] \in Final
  /\ req' = [req EXCEPT ![r] = "waiting"]
  /\ wake' = IF wake = "none" THEN "health" ELSE wake
  /\ long' = FALSE
  /\ UNCHANGED <<serviceVars, checkpointed, health, idle, restarts>>

\* vLLM accepts the request and sends headers: inFlight--
Forward(r) ==
  /\ req[r] = "sent"
  /\ engine = "awake" /\ ~frozen
  /\ req' = [req EXCEPT ![r] = "stream"]
  /\ long' = FALSE
  /\ UNCHANGED <<serviceVars, checkpointed, wakeVars, idle, restarts>>

\* no vLLM listens: 502
ForwardFails(r) ==
  /\ req[r] = "sent"
  /\ engine \notin Memory
  /\ req' = [req EXCEPT ![r] = "refused"]
  /\ long' = FALSE
  /\ UNCHANGED <<serviceVars, checkpointed, wakeVars, idle, restarts>>

\* the body passes through, or breaks off with vLLM
StreamEnds(r) ==
  /\ req[r] = "stream"
  /\ \/ engine = "awake" /\ ~frozen /\ req' = [req EXCEPT ![r] = "done"]
     \/ engine \notin Memory /\ req' = [req EXCEPT ![r] = "cut"]
  /\ UNCHANGED <<serviceVars, checkpointed, wakeVars, idleVars, restarts>>

(***************************************************************************)
(* ensureAwake                                                             *)
(***************************************************************************)
\* (variant: one request goes on)
SettleOne(p) ==
  /\ wake' = "none" /\ health' = "null"
  /\ req' = [r \in Requests |->
       IF r = CHOOSE x \in Requests : req[x] = "waiting" THEN p ELSE req[r]]
  /\ long' = (long /\ (p = "sent" \/ InFlight = {}))

\* wakePromise settles and every request that awaits it goes on
Settle(p) ==
  /\ wake' = "none" /\ health' = "null"
  /\ req' = [r \in Requests |-> IF req[r] = "waiting" THEN p ELSE req[r]]
  /\ long' = (long /\ (p = "sent" \/ InFlight = {}))

WakeGoes(w) == wake' = w /\ UNCHANGED <<req, long>>
AfterResume == IF health = "restoring" THEN "running" ELSE "probe"

WakeReadsHealth ==
  /\ wake = "health"
  /\ health' = IF state = "restoring" THEN "restoring" ELSE "other"
  /\ IF Reconciled
       THEN checkpointed' = FALSE /\ Post("resume") /\ WakeGoes("resume")
       ELSE /\ checkpointed' = FALSE
            /\ WakeGoes(IF state = "restoring" THEN "running" ELSE "probe")
            /\ UNCHANGED inbox
  /\ UNCHANGED <<postVars, reply, failures, idle, restarts>>

\* The request for it failed: the old flag decides
WakeBlind ==
  /\ wake = "health" /\ Failing
  /\ health' = "null"
  /\ checkpointed' = FALSE
  /\ IF checkpointed
       THEN Post("resume") /\ WakeGoes("resume")
       ELSE WakeGoes("probe") /\ UNCHANGED inbox
  /\ UNCHANGED <<postVars, reply, idle, restarts>>

WakeResumed ==
  /\ wake = "resume" /\ reply["resume"] # "none"
  /\ Take("resume")
  /\ IF reply["resume"] = "ok"
       THEN WakeGoes(AfterResume)
       ELSE WakeGoes("recovery")
  /\ UNCHANGED <<postVars, inbox, failures, checkpointed, health, idle,
                 restarts>>

\* waitForLauncherRecovery and waitForLauncherRunning
WakeWaits ==
  /\ wake \in {"recovery", "running"}
  /\ \/ /\ Ready
        /\ WakeGoes(IF wake = "recovery" THEN AfterResume ELSE "probe")
        /\ UNCHANGED <<health, checkpointed>>
     \/ /\ wake = "running" /\ state = "checkpointed"
        /\ checkpointed' = TRUE /\ Settle("refused")
     \/ /\ state = "failed"
        /\ Settle("refused") /\ UNCHANGED checkpointed
  /\ UNCHANGED <<serviceVars, idle, restarts>>

\* A request of theirs that fails ends them
WakeWaitFails ==
  /\ wake \in {"recovery", "running"} /\ Failing
  /\ Settle("refused")
  /\ UNCHANGED <<postVars, inbox, reply, checkpointed, idle, restarts>>

\* The deadline of the wake-up.  A call that vLLM does not answer has none.
WakeExpires ==
  /\ \/ wake \in {"recovery", "running"} /\ ~Ready
     \/ wake = "poll" /\ engine = "asleep" /\ ~frozen
  /\ Settle("expired")
  /\ UNCHANGED <<serviceVars, checkpointed, idle, restarts>>

\* isSleeping(), before and after the wake-up; a frozen engine does not answer
WakeProbes ==
  /\ wake \in {"probe", "poll"} /\ ~frozen
  /\ \/ engine = "awake" /\ WakeGoes("awake") /\ UNCHANGED health
     \/ engine = "asleep" /\ wake = "probe" /\ WakeGoes("wake")
        /\ UNCHANGED health
     \/ engine \notin Memory /\ Settle("refused")
  /\ UNCHANGED <<serviceVars, checkpointed, idle, restarts>>

\* The answer is there: whatever the engine does by then, the requests go on
WakeEnds ==
  /\ wake = "awake"
  /\ Settle("sent")
  /\ UNCHANGED <<serviceVars, checkpointed, idle, restarts>>

\* /wake_up of the weights, reload_weights, /wake_up of the KV cache
WakeWakes ==
  /\ wake = "wake" /\ ~frozen
  /\ IF engine \in Memory
       THEN engine' = "awake" /\ WakeGoes("poll") /\ UNCHANGED health
       ELSE Settle("refused") /\ UNCHANGED engine
  /\ UNCHANGED <<launcherVars, inbox, reply, failures, checkpointed, idle,
                 restarts>>

(***************************************************************************)
(* idleLoop and trySleep                                                   *)
(***************************************************************************)
Elapse == /\ ~long /\ long' = TRUE
          /\ UNCHANGED <<serviceVars, checkpointed, wakeVars, idle, req,
                         restarts>>

\* what the loop does with it, unless the vLLM is checkpointed or restoring
IdleLooks(skip) ==
  IF idle = "boot" \/ skip
    THEN idle' = "poll" /\ UNCHANGED long
    ELSE IF InFlight # {} \/ wake # "none"
           THEN idle' = "poll" /\ long' = FALSE
           ELSE idle' = "metrics" /\ UNCHANGED long

\* the reconciliation at the start and at every poll
IdleReconciles ==
  /\ idle \in {"boot", "poll"}
  /\ checkpointed' = Reconciled
  /\ IdleLooks(Reconciled \/ state = "restoring")
  /\ UNCHANGED <<serviceVars, wakeVars, req, restarts>>

\* ... or the request for the state fails, and launcherState is an old one
IdleBlind ==
  /\ idle \in {"boot", "poll"} /\ Failing
  /\ \E restoring \in BOOLEAN : IdleLooks(checkpointed \/ restoring)
  /\ UNCHANGED <<postVars, inbox, reply, checkpointed, wakeVars, req, restarts>>

\* vLLM is idle, and trySleep finds nothing in flight
IdleReadsMetrics ==
  /\ idle = "metrics" /\ ~frozen
  /\ IF engine \in Memory /\ ~(\E r \in Requests : req[r] = "stream")
       THEN /\ idle' = IF long /\ wake = "none" /\ InFlight = {}
                         THEN "probe" ELSE "poll"
            /\ UNCHANGED long
       ELSE idle' = "poll" /\ long' = (long /\ engine \notin Memory)
  /\ UNCHANGED <<serviceVars, checkpointed, wakeVars, req, restarts>>

\* isSleeping(), then sleepPromise is set without another look at inFlight
IdleProbes ==
  /\ idle = "probe" /\ ~frozen
  /\ IF engine = "awake"
       THEN idle' = "suspend" /\ Post("suspend")
       ELSE idle' = "poll" /\ UNCHANGED inbox
  /\ UNCHANGED <<postVars, reply, failures, checkpointed, wakeVars, long, req,
                 restarts>>


IdleSuspended ==
  /\ idle = "suspend" /\ reply["suspend"] # "none"
  /\ Take("suspend")
  /\ checkpointed' = (checkpointed \/ reply["suspend"] = "ok")
  /\ idle' = "poll"
  /\ UNCHANGED <<postVars, inbox, failures, wakeVars, long, req, restarts>>

(***************************************************************************)
(* The guard restarts: its clients and its flags are lost, what it asked   *)
(* of the launcher goes on                                                 *)
(***************************************************************************)
Restart ==
  /\ restarts < MaxRestarts /\ restarts' = restarts + 1
  /\ inbox = {}
  /\ mine' = FALSE /\ reply' = [c \in Calls |-> "none"]
  /\ checkpointed' = FALSE
  /\ wake' = "none" /\ health' = "null"
  /\ idle' = "boot" /\ long' = FALSE
  /\ req' = [r \in Requests |-> IF req[r] \in Final THEN req[r] ELSE "cut"]
  /\ UNCHANGED <<state, op, image, engine, frozen, watched, inbox, failures>>

WakeStep == \/ WakeReadsHealth \/ WakeBlind \/ WakeResumed \/ WakeWaits
            \/ WakeWaitFails \/ WakeExpires \/ WakeProbes \/ WakeEnds
            \/ WakeWakes
IdleStep == \/ IdleReconciles \/ IdleBlind \/ IdleReadsMetrics
            \/ IdleProbes \/ IdleSuspended
Finish(r) == Forward(r) \/ ForwardFails(r) \/ StreamEnds(r)

Next ==
  \/ ServiceNext /\ UNCHANGED guardVars
  \/ \E r \in Requests : Arrive(r) \/ Finish(r)
  \/ WakeStep \/ Elapse \/ IdleStep
  \/ Restart

Spec == Init /\ [][Next]_vars

\* The launcher works, and the guard's thread serves its promises and timers;
\* clients come and operations fail as they like.
Fairness ==
  /\ WF_vars(Suspend /\ UNCHANGED guardVars)
  /\ WF_vars(Resume /\ UNCHANGED guardVars)
  /\ \A c \in Calls : WF_vars(Busy(c) /\ UNCHANGED guardVars)
  /\ WF_vars(WakeStep) /\ WF_vars(IdleStep) /\ WF_vars(Elapse)
  /\ \A r \in Requests : WF_vars(Finish(r))

FairSpec == Spec /\ Fairness

(***************************************************************************)
(* Properties                                                              *)
(***************************************************************************)
\* Every variable has its type.
TypeOK ==
  /\ ServiceTypeOK
  /\ checkpointed \in BOOLEAN
  /\ wake \in {"none", "health", "resume", "recovery", "running", "probe",
               "wake", "poll", "awake"}
  /\ health \in {"null", "restoring", "other"}
  /\ idle \in {"boot", "poll", "metrics", "probe", "suspend"}
  /\ long \in BOOLEAN
  /\ req \in [Requests -> Final \cup {"waiting", "sent", "stream"}]
  /\ restarts \in 0..MaxRestarts

\* The launcher never gets to start a resume while a vLLM runs: neither the
\* late answer to a suspend nor a restart of the guard leaves a flag behind
\* that posts one.  Two exceptions: a guard whose request for the state fails
\* trusts its old flag (vllm-guard.js:149-151), and a launcher whose fallback
\* timed out says "checkpointed" while it still exits (launcher.py:459-462).
NoStrayResume ==
  "resume" \in inbox /\ op = "none"
    => image # "none" \/ engine \in {"gone", "stopping"} \/ health = "null"

\* No second resume is posted while one is on its way or under way for this
\* guard.  (A guard that restarts just after its resume has begun still reads
\* "checkpointed" and posts another one, which the launcher refuses.)
OneResume ==
  "resume" \in inbox /\ op \in {"resume", "restore", "recover", "fallback"}
    => ~mine

\* A failed suspend has left the engine to itself: it hangs, or it sleeps
Hung == op = "none" /\ frozen
LeftAsleep == op = "none" /\ engine = "asleep"

\* Every request is answered, unless a failed suspend left the engine frozen,
\* or asleep under a request that was forwarded by then.
RequestsAnswered ==
  \A r \in Requests :
    req[r] = "waiting" ~> \/ req[r] \in Final
                          \/ Hung
                          \/ req[r] \in {"sent", "stream"} /\ LeftAsleep


\* The checkpoint is of a vLLM in level-2 sleep: nothing wakes the engine
\* between the sleep of a suspend and its dump.
CheckpointAsleep == image # "awake"
=============================================================================
