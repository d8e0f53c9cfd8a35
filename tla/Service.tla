------------------------------ MODULE Service ------------------------------
(***************************************************************************)
(* What the launcher and its vLLM promise to the clients of the control    *)
(* server (src/vllm_criu/launcher.py, Handler, checkpoint_vllm and         *)
(* restore_vllm): two POST calls, a reported state, and one vLLM that      *)
(* answers, sleeps, or is not there.  Module Launcher has the detail of    *)
(* the same code.                                                          *)
(*                                                                         *)
(* Simplifications: one vLLM, the one vllm_process names; the container    *)
(* does not restart; the finally of a resume does not fail; a resume that  *)
(* is posted while another one is under way reaches the launcher before    *)
(* that one ends; failures (of an operation, of vLLM, of a request for the *)
(* reported state) happen at most MaxFailures times, and the fallback is   *)
(* started with the failure that calls for it.                             *)
(***************************************************************************)
EXTENDS Naturals, FiniteSets

CONSTANTS
  FallbackFresh,  \* restore_fallback_fresh
  MaxFailures     \* bound on failing operations

ASSUME ServiceAssumption == FallbackFresh \in BOOLEAN /\ MaxFailures \in Nat

VARIABLES
  state,     \* what /launcher/healthz reports
  op,        \* how far the operation that holds operation_lock is
  mine,      \* the client that asked for it still waits
  image,     \* the engine's memory in the image, "none" without an image
  engine,    \* "awake", "asleep", "loading" or "stopping" (the API does not
             \* answer, before and after its time), "gone"
  frozen,    \* the engine is locked or checkpointed by cuda-checkpoint
  watched,   \* a reap_vllm thread waits for the engine to exit
  inbox,     \* calls on their way to the launcher
  reply,     \* answers on their way back
  failures   \* failures so far

serviceVars == <<state, op, mine, image, engine, frozen, watched, inbox,
                 reply, failures>>

Calls == {"suspend", "resume"}
Ops == {"none", "suspend", "slept", "dump", "dumped", "resume", "restore",
        "recover", "fallback"}
States == {"running", "checkpointing", "checkpointed", "restoring", "failed"}
Memory == {"awake", "asleep"}

ServiceInit ==
  /\ state = "running" /\ op = "none" /\ mine = FALSE
  /\ image = "none" /\ engine = "awake" /\ frozen = FALSE /\ watched = TRUE
  /\ inbox = {} /\ reply = [c \in Calls |-> "none"]
  /\ failures = 0

\* /launcher/healthz with "ok", for a state that is "running"
Ready == state = "running" /\ engine \in Memory /\ ~frozen

\* (variant: the answer is the state)
AnswerState(c, a) ==
  /\ reply' = IF mine THEN [reply EXCEPT ![c] = state] ELSE reply
  /\ mine' = FALSE

Answer(c, a) ==
  /\ reply' = IF mine THEN [reply EXCEPT ![c] = a] ELSE reply
  /\ mine' = FALSE

Ends(c, a) == op' = "none" /\ Answer(c, a)

Failing == failures < MaxFailures /\ failures' = failures + 1

\* An operation whose vLLM does not answer any more fails of that alone
Dead == \/ op \in {"suspend", "slept", "dump", "recover"} /\ engine \notin Memory
        \/ op = "suspend" /\ frozen
        \/ op = "fallback" /\ engine # "loading"
OpFails == IF Dead THEN UNCHANGED failures ELSE Failing

\* operation_lock is taken: the call is refused and changes nothing
Busy(c) ==
  /\ c \in inbox /\ op # "none"
  /\ inbox' = inbox \ {c}
  /\ reply' = [reply EXCEPT ![c] = "error"]
  /\ UNCHANGED <<state, op, mine, image, engine, frozen, watched, failures>>

(***************************************************************************)
(* checkpoint_vllm                                                         *)
(***************************************************************************)
SuspendStarts ==
  /\ "suspend" \in inbox /\ op = "none"
  /\ engine # "gone" /\ image = "none"
  /\ inbox' = inbox \ {"suspend"}
  /\ op' = "suspend" /\ mine' = TRUE
  /\ UNCHANGED <<state, image, engine, frozen, watched, reply, failures>>

\* no vLLM, or a checkpoint already: the handler of exceptions still sets the
\* state
SuspendRejected ==
  /\ "suspend" \in inbox /\ op = "none"
  /\ engine = "gone" \/ image # "none"
  /\ inbox' = inbox \ {"suspend"}
  /\ state' = "running"
  /\ reply' = [reply EXCEPT !["suspend"] = "error"]
  /\ UNCHANGED <<op, mine, image, engine, frozen, watched, failures>>

SuspendSleeps ==
  /\ op = "suspend" /\ engine \in Memory /\ ~frozen
  /\ op' = "slept" /\ engine' = "asleep"
  /\ UNCHANGED <<state, mine, image, frozen, watched, inbox, reply, failures>>

\* checkpoint_prepare, cuda.lock, cuda.checkpoint
SuspendFreezes ==
  /\ op = "slept" /\ engine \in Memory
  /\ op' = "dump" /\ frozen' = TRUE /\ state' = "checkpointing"
  /\ UNCHANGED <<mine, image, engine, watched, inbox, reply, failures>>

\* criu.dump and the publication of the image; the reaper finds an exit that
\* it expects
SuspendDumps ==
  /\ op = "dump" /\ engine \in Memory
  /\ op' = "dumped" /\ state' = "checkpointed"
  /\ image' = engine /\ engine' = "gone" /\ frozen' = FALSE
  /\ watched' = FALSE
  /\ UNCHANGED <<mine, inbox, reply, failures>>

\* the lock is released and the answer sent
SuspendReturns ==
  /\ op = "dumped"
  /\ Ends("suspend", "ok")
  /\ UNCHANGED <<state, image, engine, frozen, watched, inbox, failures>>

\* Before cuda_checkpointed nothing is undone, a lock included.  After it the
\* engine is unlocked and woken, as far as that works; an rmtree that raises
\* leaves that undone, and the state too.
SuspendFails ==
  /\ op \in {"suspend", "slept", "dump"}
  /\ OpFails
  /\ Ends("suspend", "error")
  /\ \/ /\ op \in {"suspend", "slept"}
        /\ \/ UNCHANGED frozen
           \/ op = "slept" /\ engine \in Memory /\ frozen' = TRUE
        /\ state' \in {state, "running"} /\ UNCHANGED engine
     \/ /\ op = "dump"
        /\ \/ UNCHANGED <<state, frozen, engine>>
           \/ /\ state' = "running"
              /\ \/ UNCHANGED <<frozen, engine>>
                 \/ /\ engine \in Memory /\ frozen' = FALSE
                    /\ engine' \in {engine, "awake"}
  /\ UNCHANGED <<image, watched, inbox>>

(***************************************************************************)
(* restore_vllm                                                            *)
(***************************************************************************)
\* operation_lock is taken; the state is as it was
ResumeStarts ==
  /\ "resume" \in inbox /\ op = "none"
  /\ inbox' = inbox \ {"resume"}
  /\ op' = "resume" /\ mine' = TRUE
  /\ UNCHANGED <<state, image, engine, frozen, watched, reply, failures>>

ResumeBegins ==
  /\ op = "resume" /\ image # "none"
  /\ op' = "restore" /\ state' = "restoring"
  /\ UNCHANGED <<mine, image, engine, frozen, watched, inbox, reply, failures>>

\* start_vllm, which starts no reaper: the fallback's vLLM is not watched
StartsFallback ==
  /\ op' = "fallback" /\ state' = "running"
  /\ engine' = "loading" /\ frozen' = FALSE /\ watched' = FALSE
  /\ UNCHANGED <<mine, reply>>

\* A resume that ends has seen every other one refused
LastResume == "resume" \notin inbox

\* "no checkpoint found" is a failure like any other: with the fallback it
\* starts a vLLM
ResumeWithoutImage ==
  /\ op = "resume" /\ image = "none"
  /\ IF FallbackFresh
       THEN StartsFallback
       ELSE /\ LastResume
            /\ state' = "checkpointed"
            /\ Ends("resume", "error")
            /\ UNCHANGED <<engine, frozen, watched>>
  /\ UNCHANGED <<image, inbox, failures>>

ResumeRestores ==
  /\ op = "restore"
  /\ op' = "recover" /\ engine' = image
  /\ UNCHANGED <<state, mine, image, frozen, watched, inbox, reply, failures>>

\* The process-local restore is done, the image is removed, a reaper starts
ResumeReturns ==
  /\ op = "recover" /\ engine \in Memory
  /\ LastResume
  /\ engine' = "awake" /\ image' = "none" /\ state' = "running"
  /\ watched' = TRUE
  /\ Ends("resume", "ok")
  /\ UNCHANGED <<frozen, inbox, failures>>

\* The tree is killed; the fallback archives the image and starts a vLLM
ResumeFails ==
  /\ op \in {"restore", "recover"}
  /\ OpFails
  /\ IF FallbackFresh
       THEN StartsFallback /\ image' = "none"
       ELSE /\ LastResume
            /\ engine' = "gone" /\ state' = "checkpointed"
            /\ Ends("resume", "error")
            /\ UNCHANGED <<image, frozen, watched>>
  /\ UNCHANGED inbox

FallbackReturns ==
  /\ op = "fallback" /\ engine = "loading"
  /\ LastResume
  /\ engine' = "awake" /\ state' = "running"
  /\ Ends("resume", "ok")
  /\ UNCHANGED <<image, frozen, watched, inbox, failures>>

\* fallback_timeout has passed: SIGTERM, for whose effect nobody waits
FallbackFails ==
  /\ op = "fallback"
  /\ OpFails
  /\ LastResume
  /\ engine' = IF engine = "loading" THEN "stopping" ELSE engine
  /\ state' = "checkpointed"
  /\ Ends("resume", "error")
  /\ UNCHANGED <<image, frozen, watched, inbox>>

(***************************************************************************)
(* vLLM exits                                                              *)
(***************************************************************************)
Expected == {"checkpointing", "checkpointed", "restoring"}

\* ... on its own, also during an operation; reap_vllm notices if it runs
Exits ==
  /\ engine \in Memory \cup {"loading"}
  /\ Failing
  /\ engine' = "gone" /\ frozen' = FALSE
  /\ state' = IF watched /\ state \notin Expected THEN "failed" ELSE state
  /\ watched' = FALSE
  /\ UNCHANGED <<op, mine, image, inbox, reply>>

\* ... because it was told to
Stops ==
  /\ engine = "stopping"
  /\ engine' = "gone"
  /\ UNCHANGED <<state, op, mine, image, frozen, watched, inbox, reply,
                 failures>>

Suspend == \/ SuspendStarts \/ SuspendRejected \/ SuspendSleeps
           \/ SuspendFreezes \/ SuspendDumps \/ SuspendReturns
           \/ Dead /\ SuspendFails
Resume == \/ ResumeStarts \/ ResumeBegins \/ ResumeWithoutImage
          \/ ResumeRestores \/ ResumeReturns \/ FallbackReturns
          \/ Dead /\ (ResumeFails \/ FallbackFails)
Failure == SuspendFails \/ ResumeFails \/ FallbackFails \/ Exits \/ Stops

ServiceNext == Suspend \/ Resume \/ Failure \/ (\E c \in Calls : Busy(c))

ServiceTypeOK ==
  /\ state \in States
  /\ op \in Ops
  /\ mine \in BOOLEAN
  /\ image \in Memory \cup {"none"}
  /\ engine \in Memory \cup {"loading", "stopping", "gone"}
  /\ frozen \in BOOLEAN /\ watched \in BOOLEAN
  /\ inbox \subseteq Calls
  /\ reply \in [Calls -> {"none", "ok", "error"}]
  /\ failures \in 0..MaxFailures
=============================================================================
