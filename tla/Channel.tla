------------------------------ MODULE Channel ------------------------------
(***************************************************************************)
(* The ZMQ channel between the API server and one EngineCore across a CRIU *)
(* restore: reconnect_zmq and wait_for_enginecore_ready on the API side    *)
(* (src/vllm_criu/vllm_server.py), the reconnect generation and the socket *)
(* loops on the other (enginecore/lifecycle.py and sockets.py).            *)
(*                                                                         *)
(* A coroutine's step ends at an await.  Module Restore composes the       *)
(* channel with the launcher and the worker.                               *)
(*                                                                         *)
(* Simplifications: one engine, no coordinator; module EngineCore has the  *)
(* triggers and the replacement of the loops in detail, here the loops of  *)
(* one generation follow those of another, and of the threads that read    *)
(* generation 0 before a system call and set 1 after it there is one; the  *)
(* output loop looks at the markers as it takes a sentinel;                *)
(* VLLM_LIFECYCLE_API_CONTEXT_REHOOK is off, its default.                  *)
(***************************************************************************)
EXTENDS Integers, Sequences, FiniteSets

CONSTANT Calls  \* requests that clients make once the service is running

Closed == -1
Dead == "dead"  \* ENGINE_CORE_DEAD, and the EngineDeadError it becomes
None == "none"

ASSUME CallsAssumption == {Dead, None} \cap Calls = {}

VARIABLES
  link,     \* how far the API's sockets are repaired
  inbox,    \* the identities whose READY waits in the API's ROUTER
  peer,     \* core_engine: the identity the API addresses
  dead,     \* resources.engine_dead
  outs,     \* outputs_queue
  handler,  \* output_handler: "runs", "none", "ended", or "lost": ended and
            \* not replaced
  gen,      \* _vllm_criu_reconnect_generation
  late,     \* a thread has read generation 0 and is about to set it to 1
  second,   \* (history) the signal made a second generation
  signal,   \* SIGUSR1 is pending
  dealer,   \* the identity (a generation) of the open DEALER, or Closed
  greeting, \* its READY has not left the process
  outAt,    \* the output loop: "build", "get", "send", "ended" or "lost": it
            \* died on sockets that the signal handler had closed
  outGen,   \* its generation_seen
  push,     \* its sockets are open
  held,     \* what it has taken and not sent
  wire,     \* what it has sent and has not left the process
  outq,     \* output_queue
  died,     \* the EngineCore loop has ended with an exception
  call      \* call[c]: "none", "dropped", "queued", "served" or "answered"

apiVars    == <<link, inbox, peer, dead, outs, handler>>
genVars    == <<gen, late, second>>
inputVars  == <<dealer, greeting>>
outputVars == <<outAt, outGen, push, held, wire>>
engineVars == <<outq, died>>
socketVars == <<genVars, signal, inputVars, outputVars>>
channelVars == <<apiVars, socketVars, engineVars, call>>

\* CRIU restores a dead sentinel of the shutdown before the dump together with
\* the live EngineCore; the API may have taken the dump for the engine's death.
ChannelInit ==
  /\ link = "old" /\ inbox = <<>> /\ peer = 0
  /\ dead \in BOOLEAN /\ outs \in {<<>>, <<Dead>>} /\ handler = "runs"
  /\ gen = 0 /\ late = FALSE /\ second = FALSE /\ signal = FALSE
  /\ dealer = 0 /\ greeting = FALSE
  /\ outAt = "get" /\ outGen = 0 /\ push = TRUE /\ held = None
  /\ wire = <<>>
  /\ outq \in {<<>>, <<Dead>>} /\ died = FALSE
  /\ call = [c \in Calls |-> "none"]

\* What is left of a queue without its sentinels, in order
Alive(queue) ==
  LET live == {k \in DOMAIN queue : queue[k] # Dead}
      nth  == CHOOSE f \in [1..Cardinality(live) -> live] :
                \A i, j \in DOMAIN f : i < j => f[i] < f[j]
  IN [i \in DOMAIN nth |-> queue[nth[i]]]

(***************************************************************************)
(* The API server: /lifecycle/reconnect_zmq                                *)
(***************************************************************************)
\* AsyncLLM's consumer is cancelled; one that has already ended is left alone
StopHandler ==
  /\ link = "old"
  /\ link' = "stopped"
  /\ handler' = IF handler = "runs" THEN "none" ELSE handler
  /\ UNCHANGED <<inbox, peer, dead, outs, socketVars, engineVars, call>>

\* Cancelling the output task publishes an EngineDeadError, unless the task is
\* already done
CancelOutputTask ==
  /\ link = "stopped"
  /\ link' = "cut"
  /\ outs' \in {outs, Append(outs, Dead)}
  /\ UNCHANGED <<inbox, peer, dead, handler, socketVars, engineVars, call>>


\* No await from the close of the old sockets to the end of the endpoint.
\* _run_output_handler starts a consumer only where there is none.
Rebind ==
  /\ link = "cut"
  /\ link' = "bound"
  /\ inbox' = <<>>
  /\ dead' = FALSE
  /\ outs' = Alive(outs)
  /\ handler' = IF handler = "none" THEN "runs" ELSE "lost"
  /\ UNCHANGED <<peer, socketVars, engineVars, call>>

(***************************************************************************)
(* The API server: wait_for_enginecore_ready, and what it does in between  *)
(***************************************************************************)
\* (variant: READY is consumed and its identity forgotten)
IgnoreIdentity == UNCHANGED peer
AdoptIdentity == peer' = Head(inbox)

\* The first READY ends the wait, whoever sent it
ReadReady ==
  /\ link = "waiting" /\ inbox # <<>>
  /\ link' = "linked"
  /\ inbox' = Tail(inbox)
  /\ AdoptIdentity
  /\ UNCHANGED <<dead, outs, handler, socketVars, engineVars, call>>

\* asyncio.wait_for; the endpoint passes 120 seconds
ReadyTimesOut ==
  /\ link = "waiting"
  /\ link' = "expired"
  /\ UNCHANGED <<inbox, peer, dead, outs, handler, socketVars, engineVars,
                 call>>

\* AsyncLLM's output_handler: an EngineDeadError ends it
HandleOutput ==
  /\ handler = "runs" /\ outs # <<>>
  /\ outs' = Tail(outs)
  /\ IF Head(outs) = Dead
       THEN handler' = "ended" /\ UNCHANGED call
       ELSE /\ call' = [call EXCEPT ![Head(outs)] = "answered"]
            /\ UNCHANGED handler
  /\ UNCHANGED <<link, inbox, peer, dead, socketVars, engineVars>>

\* monitor_engine_liveness: no marker, and no /proc entry of the engine's
\* process.  The entry stays until the API server waits for its child, which
\* nothing here does: the monitor may never see a death.
MonitorSees(marked) ==
  /\ died /\ ~marked
  /\ dead' = TRUE
  /\ UNCHANGED <<link, inbox, peer, outs, handler, socketVars, engineVars,
                 call>>

(***************************************************************************)
(* The EngineCore: generations and socket loops                            *)
(***************************************************************************)
\* The supervisor or the input loop has read generation 0, and then finds the
\* request marker ...
MarkerSeen ==
  /\ gen = 0 /\ ~late
  /\ late' = TRUE
  /\ UNCHANGED <<gen, second, signal, inputVars, outputVars, apiVars,
                 engineVars, call>>

\* ... and sets the generation to 1, whatever it has become.  The watcher reads
\* the generation last, right before it sets it.
MarkerTriggers ==
  /\ \/ late /\ late' = FALSE
     \/ gen = 0 /\ UNCHANGED late
  /\ gen' = 1
  /\ UNCHANGED <<second, signal, inputVars, outputVars, apiVars, engineVars,
                 call>>

\* What the close of the sockets without linger loses: the answers that have
\* not left the process, and calls that the input loop has not taken yet
InUse == outAt \in {"get", "send"}
Cut(lost) == {c \in Calls : \/ c \in lost
                            \/ InUse /\ \E k \in DOMAIN wire : wire[k] = c}

\* (variant: the signal stays pending)
HandleSignalAgain ==
  /\ signal
  /\ gen' = gen + 1 /\ second' = (gen = 1)
  /\ dealer' = Closed /\ greeting' = FALSE
  /\ UNCHANGED <<late, signal, outputVars, apiVars, engineVars, call>>

\* request_reconnect
HandleSignal ==
  /\ signal
  /\ signal' = FALSE
  /\ gen' = gen + 1 /\ second' = (gen = 1)
  /\ dealer' = Closed /\ greeting' = FALSE
  /\ push' = FALSE /\ wire' = IF InUse THEN <<>> ELSE wire
  /\ \E lost \in SUBSET {c \in Calls : call[c] = "queued"} :
       call' = [c \in Calls |-> IF c \in Cut(lost) THEN "dropped"
                                                  ELSE call[c]]
  /\ UNCHANGED <<late, outAt, outGen, held, apiVars, engineVars>>

\* The input loop of the new generation: a DEALER with a fresh identity, whose
\* first message is READY.  It may never come: a loop that finds its sockets
\* closed outside its poll dies (module EngineCore).
Build ==
  /\ dealer # gen
  /\ dealer' = gen /\ greeting' = TRUE
  /\ UNCHANGED <<genVars, signal, outputVars, apiVars, engineVars, call>>

\* READY reaches the ROUTER that is bound: the restored one loses it
Greet ==
  /\ greeting
  /\ greeting' = FALSE
  /\ inbox' = IF link \in {"bound", "waiting", "linked"}
                THEN Append(inbox, dealer) ELSE inbox
  /\ UNCHANGED <<link, peer, dead, outs, handler, genVars, signal, dealer,
                 outputVars, engineVars, call>>

(***************************************************************************)
(* The EngineCore: _output_sockets                                         *)
(***************************************************************************)
\* The head of its loop
Again == outAt' = IF outGen = gen THEN "get" ELSE "build"

\* The loop has noticed a new generation, or notices it when a get comes to its
\* deadline; or it has ended and is replaced.  Sockets that are left linger
\* until they are empty; the new ones are published for the signal handler.
OutputRebuilds ==
  /\ \/ outAt = "build"
     \/ outAt = "get" /\ outq = <<>> /\ outGen # gen
     \/ outAt \in {"ended", "lost"} /\ outGen # gen
  /\ wire = <<>>
  /\ outAt' = "get" /\ outGen' = gen /\ push' = TRUE
  /\ UNCHANGED <<held, wire, genVars, signal, inputVars, apiVars, engineVars,
                 call>>

\* (variant: every sentinel is taken for a stale one)
StaleAlways(marked) == TRUE
\* A sentinel is stale as long as a marker exists
Stale(marked) == marked

OutputTakes(marked) ==
  /\ outAt = "get" /\ outq # <<>>
  /\ outq' = Tail(outq)
  /\ IF Head(outq) = Dead /\ Stale(marked)
       THEN Again /\ UNCHANGED held
       ELSE outAt' = "send" /\ held' = Head(outq)
  /\ UNCHANGED <<outGen, push, wire, genVars, signal, inputVars, apiVars, died,
                 call>>

\* The generation may have changed since.  The sentinel is the last thing the
\* loop sends.
OutputSends ==
  /\ outAt = "send" /\ push
  /\ wire' = Append(wire, held)
  /\ held' = None
  /\ IF held = Dead THEN outAt' = "ended" ELSE Again
  /\ UNCHANGED <<outGen, push, genVars, signal, inputVars, apiVars, engineVars,
                 call>>

\* What a closed socket raises is not caught
OutputDies ==
  /\ outAt = "send" /\ ~push
  /\ outAt' = "lost" /\ held' = None
  /\ UNCHANGED <<outGen, push, wire, genVars, signal, inputVars, apiVars,
                 engineVars, call>>

\* The API's reader takes a sentinel for the death of the engine
Arrive ==
  /\ wire # <<>>
  /\ wire' = Tail(wire)
  /\ dead' = (dead \/ Head(wire) = Dead)
  /\ outs' = Append(outs, Head(wire))
  /\ UNCHANGED <<link, inbox, peer, handler, genVars, signal, inputVars, outAt,
                 outGen, push, held, engineVars, call>>

OutputLoop(marked) ==
  OutputRebuilds \/ OutputTakes(marked) \/ OutputSends \/ OutputDies

(***************************************************************************)
(* Requests after the restore                                              *)
(***************************************************************************)
\* A ROUTER drops what is addressed to an identity that is not connected
Send(c) ==
  /\ call[c] = "none"
  /\ call' = [call EXCEPT ![c] = IF peer = dealer THEN "queued"
                                                  ELSE "dropped"]
  /\ UNCHANGED <<apiVars, socketVars, engineVars>>

\* The scheduler runs it
Serve(c) ==
  /\ call[c] = "queued" /\ ~died
  /\ call' = [call EXCEPT ![c] = "served"]
  /\ outq' = Append(outq, c)
  /\ UNCHANGED <<apiVars, socketVars, died>>

\* The EngineCore loop raises and leaves its sentinel
Die ==
  /\ ~died
  /\ died' = TRUE
  /\ outq' = Append(outq, Dead)
  /\ UNCHANGED <<apiVars, socketVars, call>>

Links == {"old", "stopped", "cut", "bound", "waiting", "linked", "expired"}
ChannelOK ==
  /\ link \in Links /\ peer \in 0..2 /\ inbox \in Seq(1..2)
  /\ dead \in BOOLEAN /\ handler \in {"runs", "none", "ended", "lost"}
  /\ outs \in Seq(Calls \cup {Dead}) /\ outq \in Seq(Calls \cup {Dead})
  /\ gen \in 0..2 /\ late \in BOOLEAN /\ second \in BOOLEAN
  /\ signal \in BOOLEAN /\ died \in BOOLEAN
  /\ dealer \in 0..2 \cup {Closed} /\ greeting \in BOOLEAN
  /\ outAt \in {"build", "get", "send", "ended", "lost"} /\ outGen \in 0..2
  /\ push \in BOOLEAN /\ held \in Calls \cup {Dead, None}
  /\ wire \in Seq(Calls \cup {Dead})
  /\ call \in [Calls -> {"none", "dropped", "queued", "served", "answered"}]
=============================================================================
