----------------------------- MODULE MemoryProofs ----------------------------
(***************************************************************************)
(* Proofs about the EngineCore memory that goes into an image and comes    *)
(* back from it: no late recovery of an earlier resume undoes a sleep, and *)
(* a resume ends when the engine has undone its preparation.  They hold    *)
(* for any number of handlers and trees, any faults and any crashes.       *)
(***************************************************************************)
EXTENDS ImageProofs

USE DEF launcherVars, stillVars, quietVars, diskVars, Threads, TreeStates

(***************************************************************************)
(* The handle after the adoption                                           *)
(***************************************************************************)
AdoptedAt == {"r_remove", "r_removed", "r_running"}

\* While a resume removes the consumed image, vllm_process is the tree it has
\* restored.
Adopted ==
  \A t \in Threads : pc[t] \in AdoptedAt => handle = opTree /\ restored

\* Only the thread that moves can break Adopted: no other is in an operation.
LEMMA AdoptedByMover ==
  ASSUME Inv, NEW t \in Threads, Moves(t),
         pc'[t] \in AdoptedAt => handle' = opTree' /\ restored'
  PROVE  Adopted'
  BY OthersOut DEF Adopted, AdoptedAt, SuspendAt, ResumeAt

\* Every step preserves it.
LEMMA NextAdopted == Inv /\ Adopted /\ [Next]_vars => Adopted'
<1> SUFFICES ASSUME Inv, Adopted, [Next]_vars PROVE Adopted'
    OBVIOUS
<1>1. pc \in [Threads -> Positions]
  BY DEF Inv, TypeOK, LauncherOK
<1>2. CASE BootStep
  <2>1. \A t \in Threads : pc'[t] \in {"idle", "r_check", "m_start", "m_reap",
                                       "serving", "exited"}
    BY <1>1, <1>2, ThreadsAssumption
       DEF Inv, ServesLast, BootStep, Boot, BootStarts, BootServes, BootFails,
           Goto
  <2>2. QED
    BY <2>1 DEF Adopted, AdoptedAt
<1>3. ASSUME NEW h \in Handlers, Request(h) \/ Reply(h) PROVE Adopted'
  BY <1>3, RequestEffect DEF Adopted, AdoptedAt
<1>4. ASSUME NEW h \in Handlers, SuspendStep(h) PROVE Adopted'
  <2>1. Moves(h) /\ pc'[h] \in SuspendAt \cup Replies
    BY <1>1, <1>4, SuspendMoves, ThreadsAssumption
       DEF Inv, SuspendStep, SuspendChecks, SuspendRefused, Sleep,
           SleepTimesOut, Prepare, TerminateTrackers, CudaLock, CudaSave,
           CriuDump, Publish, Commit, SuspendThrows, SuspendCleansUp, Rollback,
           WakeLevel2, SuspendResets, SuspendFinally, Goto, SuspendAt, Replies
  <2>2. QED
    BY <2>1, AdoptedByMover DEF AdoptedAt, SuspendAt, Replies
<1>5. ASSUME NEW t \in Threads, Ask(t) PROVE Adopted'
  <2>1. Moves(t) /\ pc'[t] \notin AdoptedAt
    BY <1>5, AskMoves DEF Inv, Ask, Answered, AdoptedAt
  <2>2. QED
    BY <2>1, AdoptedByMover
<1>6. ASSUME NEW t \in Threads, ResumeStep(t) PROVE Adopted'
  <2>1. Moves(t) /\ (pc[t] \in AdoptedAt => handle = opTree /\ restored)
    BY <1>6, ResumeMoves DEF Inv, Adopted
  <2>2. pc'[t] \in AdoptedAt => handle' = opTree' /\ restored'
    BY <1>1, <1>6, <2>1
       DEF ResumeStep, ResumeChecks, MarkPending, CriuRestore, CudaRestore,
           MarkRequest, Adopt, RemoveBegins, RemoveEnds, ResumeCommits,
           ResumeThrows, ResumeCleansUp, ArchiveFailed, FallbackStarts,
           FallbackReady, FallbackTimesOut, FallbackFails, ResumeGivesUp,
           ResumeFinally, ResumeLosesLock, Outcome, Goto, AdoptedAt, opVars,
           handleVars
  <2>3. QED
    BY <2>1, <2>2, AdoptedByMover
<1>7. CASE \/ \E r \in reapers : ReaperStep(r)
           \/ \E x \in Trees : EngineStep(x)
           \/ World /\ ~Crash
  <2>1. UNCHANGED <<pc, opTree, handleVars>>
    BY <1>7
       DEF World, ReaperStep, ReaperWaits, ReaperReads, ReaperSets, EngineStep,
           EngineRestoreBegins, EngineRestoreDone, EngineRestoreFails,
           TreeDies, TreeStops, ForwardSignal, opVars
  <2>2. QED
    BY <2>1 DEF Adopted, handleVars
<1>8. CASE Crash
  BY <1>8 DEF Crash, Adopted, AdoptedAt
<1>9. CASE UNCHANGED vars
  BY <1>9 DEF vars, Adopted, opVars, handleVars
<1>10. QED
  BY <1>2, <1>3, <1>4, <1>5, <1>6, <1>7, <1>8, <1>9 DEF Next, World

(***************************************************************************)
(* The memory of the engine                                                *)
(***************************************************************************)
\* Where a resume has told the engine nothing yet, where it waits for it, and
\* where a suspend has put it to sleep and prepared it.
UntoldAt   == {"r_tools", "r_criu", "r_find", "r_cuda", "r_marker"}
AskedAt    == {"r_ready", "r_handshake", "r_local"}
SleptAt    == {"s_prepare", "s_trackers", "s_lock", "s_save", "s_dump"}
PreparedAt == SleptAt \ {"s_prepare"}

Awake(m)    == m.local = "done" /\ ~m.asleep /\ ~m.prepared
Quiesced(m) == m.asleep /\ m.prepared /\ m.local \notin {"busy", "again"}
Recovering(x) == tree[x] = "live" /\ engine[x].local \in {"busy", "again"}

\* What the position p of a thread says about the engine of its tree.
MemoryAt(p) ==
  /\ p \in UntoldAt => status = "none" /\ ~request
  /\ p \in AskedAt /\ status = "done" => Awake(engine[opTree])
  /\ p \in AdoptedAt => Awake(engine[opTree])
  /\ p = "r_wait" => ~restored
  /\ p = "r_done" => /\ Only(handle)
                     /\ IF restored THEN Awake(engine[handle]) ELSE ~request
  /\ p \in SleptAt => engine[opTree].asleep
  /\ p \in PreparedAt => engine[opTree].prepared
  /\ p = "s_publish" => Quiesced(saved)

\* The inductive invariant behind ImageQuiesced and ResumedEngineRecovered: an
\* engine runs its restore only for a resume that waits for it, or has failed,
\* unless the lock is lost and the engine started in front of a request marker.
Memory ==
  /\ slot # NoTree => Quiesced(saved)
  /\ lock # Lost => \A x \in Trees : Recovering(x) =>
       \E t \in Threads : pc[t] \in AskedAt \cup {"r_except"} /\ opTree = x
  /\ \A t \in Threads : MemoryAt(pc[t])

\* Only a resume that waits, or has failed, has an engine in its restore.
LEMMA RecoveringIsMine ==
  ASSUME Inv, Memory, NEW t \in Threads, InOp(t), NEW x \in Trees,
         Recovering(x)
  PROVE  pc[t] \in AskedAt \cup {"r_except"} /\ opTree = x
<1>1. PICK u \in Threads : pc[u] \in AskedAt \cup {"r_except"} /\ opTree = x
  BY ThreadsAssumption DEF Memory, Inv, LockOwned
<1>2. InOp(u)
  BY <1>1 DEF AskedAt, InOp, ResumeAt
<1>3. QED
  BY <1>1, <1>2, OthersRest

\* A step of an operation has to be looked at for its own thread only.
LEMMA MemoryByMover ==
  ASSUME Inv, NEW t \in Threads, Moves(t), MemoryAt(pc[t])',
         slot' # NoTree => Quiesced(saved)',
         \A x \in Trees : Recovering(x)' =>
           pc'[t] \in AskedAt \cup {"r_except"} /\ opTree' = x
  PROVE  Memory'
<1>1. ASSUME NEW u \in Threads, u # t PROVE MemoryAt(pc[u])'
  <2>1. pc'[u] \notin SuspendAt \cup ResumeAt
    BY <1>1, OthersOut
  <2>2. QED
    BY <2>1
       DEF MemoryAt, UntoldAt, AskedAt, AdoptedAt, SleptAt, PreparedAt,
           SuspendAt, ResumeAt
<1>2. QED
  BY <1>1 DEF Memory

\* A step that starts no tree and leaves the engines alone, or only changes
\* whether they sleep or are prepared, begins no recovery.
LEMMA NoRecoveryBegins ==
  ASSUME NoneStarted, \A x \in Trees : engine'[x].local = engine[x].local
  PROVE  \A x \in Trees : Recovering(x)' => Recovering(x)
  BY DEF NoneStarted, Recovering

\* checkpoint_vllm dumps an engine that sleeps, is prepared and does not
\* recover.
LEMMA SuspendMemory ==
  ASSUME SleepBeforeDump, Inv, Service, Memory, NEW h \in Handlers,
         SuspendStep(h)
  PROVE  Memory'
<1>1. /\ Moves(h) /\ h \in Threads /\ h # Main /\ InOp(h)
      /\ pc \in [Threads -> Positions] /\ pc[h] \in SuspendAt
      /\ engine \in [Trees -> Engines]
      /\ MemoryAt(pc[h])
      /\ slot # NoTree => Quiesced(saved)
      /\ pc[h] \in EmptyAt => slot = NoTree /\ opTree \in Trees
      /\ NoneStarted
  <2>1. Moves(h) /\ lock # Lost
    BY SuspendMoves, OpOfMover DEF Inv, Moves
  <2>2. QED
    BY <2>1, SuspendFrom, SuspendStartsNone, ThreadsAssumption
       DEF Inv, TypeOK, LauncherOK, TreeOK, Memory, Service, Calm, Where,
           Moves
<1>2. \A x \in Trees : ~Recovering(x)
  BY <1>1, RecoveringIsMine DEF AskedAt, SuspendAt
<1>3. \A x \in Trees : engine'[x].local = engine[x].local
  BY <1>1
     DEF SuspendStep, SuspendChecks, SuspendRefused, Sleep, SleepEffect,
         SleepTimesOut, Prepare, PrepareEffect, TerminateTrackers, CudaLock,
         CudaSave, CriuDump, Publish, Commit, SuspendThrows, SuspendCleansUp,
         Rollback, WakeLevel2, SuspendResets, SuspendFinally, Engines, treeVars
<1>4. \A x \in Trees : ~Recovering(x)'
  BY <1>1, <1>2, <1>3, NoRecoveryBegins
<1>5. MemoryAt(pc[h])' /\ (slot' # NoTree => Quiesced(saved)')
  <2> USE DEF Goto, MemoryAt, UntoldAt, AskedAt, AdoptedAt, SleptAt,
              PreparedAt, EmptyAt
  <2>1. CASE Sleep(h)
    BY <1>1, <2>1 DEF Sleep, SleepEffect, Live, Engines, opVars, imageVars
  <2>2. CASE Prepare(h)
    BY <1>1, <2>2 DEF Prepare, PrepareEffect, Live, Engines, opVars, imageVars
  <2>3. CASE CriuDump(h)
    BY <1>1, <1>2, <2>3 DEF CriuDump, Live, Recovering, Quiesced
  <2>4. CASE Publish(h)
    BY <1>1, <2>4 DEF Publish
  <2>5. CASE ~Sleep(h) /\ ~Prepare(h) /\ ~CriuDump(h) /\ ~Publish(h)
    BY <1>1, <2>5
       DEF SuspendStep, SuspendChecks, SuspendRefused, SleepTimesOut,
           TerminateTrackers, CudaLock, CudaSave, Commit, SuspendThrows,
           SuspendCleansUp, Rollback, WakeLevel2, SuspendResets,
           SuspendFinally, opVars, imageVars, treeVars
  <2>6. QED
    BY <2>1, <2>2, <2>3, <2>4, <2>5
<1>6. QED
  BY <1>1, <1>4, <1>5, MemoryByMover

\* restore_vllm goes on when the engine has recovered.
LEMMA ResumeMemory ==
  ASSUME SleepBeforeDump, Inv, RequestHeld, Service, Adopted, Memory,
         NEW t \in Threads, ResumeStep(t)
  PROVE  Memory'
<1> DEFINE Leads ==
      /\ MemoryAt(pc[t])'
      /\ slot' # NoTree => Quiesced(saved)'
      /\ \A x \in Trees : Recovering(x)' =>
           pc'[t] \in AskedAt \cup {"r_except"} /\ opTree' = x
<1>1. /\ Moves(t) /\ pc[t] \in ResumeAt /\ InOp(t)
      /\ pc \in [Threads -> Positions]
      /\ engine \in [Trees -> Engines]
      /\ tree \in [Trees -> TreeStates]
  BY ResumeMoves, ResumeFrom
     DEF Inv, TypeOK, LauncherOK, TreeOK, Moves
<1>2. /\ MemoryAt(pc[t])
      /\ slot # NoTree => Quiesced(saved)
      /\ pc[t] \in AdoptedAt => handle = opTree /\ restored
      /\ Where(pc[t])
  BY <1>1, OpOfMover DEF Memory, Adopted, Service, Calm, Inv, Moves
<1>3. \A x \in Trees : Recovering(x) =>
         pc[t] \in AskedAt \cup {"r_except"} /\ opTree = x
  BY <1>1, RecoveringIsMine
<1> USE DEF Goto, MemoryAt, UntoldAt, AskedAt, AdoptedAt, SleptAt, PreparedAt
<1>4. ASSUME CriuRestore(t) PROVE Leads
  <2>1. /\ None /\ slot \in Trees /\ slot # NoTree
        /\ tree' = [tree EXCEPT ![slot] = "live"]
        /\ engine' = [engine EXCEPT ![slot] = saved]
    BY <1>2, <1>4, PlacedAt, TreesAssumption
       DEF CriuRestore, Inv, Where, NoneAt, ImageAt
  <2>2. \A x \in Trees : ~Recovering(x)'
    BY <1>1, <1>2, <2>1 DEF Recovering, Quiesced, None, IsUp
  <2>3. QED
    BY <1>1, <1>2, <1>4, <2>2 DEF CriuRestore, imageVars, markerVars
<1>5. ASSUME FallbackStarts(t) PROVE Leads
  <2>1. /\ None /\ NewTree \in Trees
        /\ tree' = [tree EXCEPT ![NewTree] = "live"]
        /\ engine' = [engine EXCEPT ![NewTree] = FreshEngine]
    BY <1>2, <1>5, NewTreeUnused
       DEF FallbackStarts, StartVllm, Unused, Where, NoneAt
  <2>2. \A x \in Trees : ~Recovering(x)'
    BY <1>1, <2>1 DEF Recovering, FreshEngine, None, IsUp
  <2>3. QED
    BY <1>1, <1>2, <1>5, <2>2
       DEF FallbackStarts, StartVllm, imageVars, markerVars
<1>6. ASSUME ResumeCleansUp(t) PROVE Leads
  <2>1. None'
    BY <1>1, <1>2, <1>6
       DEF ResumeCleansUp, TerminateRestored, Reaped, InProc, None, Only, IsUp,
           Where, MineAt
  <2>2. QED
    BY <1>1, <1>2, <1>6, <2>1
       DEF ResumeCleansUp, None, IsUp, Recovering, imageVars
<1>7. ASSUME FallbackTimesOut(t) PROVE Leads
  <2>1. \A x \in Trees : ~Recovering(x)'
    BY <1>1, <1>3, <1>7 DEF FallbackTimesOut, Live, Recovering
  <2>2. QED
    BY <1>1, <1>2, <1>7, <2>1 DEF FallbackTimesOut, imageVars
<1>8. ASSUME ~CriuRestore(t), ~FallbackStarts(t), ~ResumeCleansUp(t),
             ~FallbackTimesOut(t)
      PROVE  Leads
  <2>1. UNCHANGED <<tree, engine>>
    BY <1>8
       DEF ResumeStep, ResumeChecks, MarkPending, CudaRestore, MarkRequest,
           Adopt, RemoveBegins, RemoveEnds, ResumeCommits, ResumeThrows,
           ArchiveFailed, FallbackReady, FallbackFails, ResumeGivesUp,
           ResumeFinally, ResumeLosesLock, treeVars
  <2>2. \A x \in Trees : Recovering(x)' <=> Recovering(x)
    BY <2>1 DEF Recovering
  <2>3. slot' # NoTree => Quiesced(saved)'
    BY <1>2, <1>8
       DEF ResumeStep, ResumeChecks, MarkPending, CudaRestore, MarkRequest,
           Adopt, RemoveBegins, RemoveEnds, ResumeCommits, ResumeThrows,
           ArchiveFailed, FallbackReady, FallbackFails, ResumeGivesUp,
           ResumeFinally, ResumeLosesLock, imageVars
  <2>4. CASE FallbackReady(t)
    <3>1. ~request /\ request' = request
      BY <1>1, <2>4, RequestIsMine DEF FallbackReady, RequestAt, markerVars
    <3>2. Only(handle)' /\ ~restored'
      BY <1>2, <2>1, <2>4 DEF FallbackReady, Where, Only, handleVars
    <3>3. QED
      BY <1>1, <1>3, <2>2, <2>3, <2>4, <3>1, <3>2 DEF FallbackReady
  <2>5. CASE ResumeCommits(t)
    <3>1. /\ handle' = opTree /\ restored' /\ Awake(engine[opTree])
          /\ Only(handle)'
      BY <1>2, <2>1, <2>5
         DEF ResumeCommits, Where, MineAt, RestoredAt, Only, handleVars
    <3>2. QED
      BY <1>1, <1>3, <2>1, <2>2, <2>3, <2>5, <3>1 DEF ResumeCommits
  <2>6. CASE ResumeThrows(t)
    BY <1>1, <1>3, <2>2, <2>3, <2>6 DEF ResumeThrows, opVars
  <2>7. CASE Adopt(t) \/ RemoveBegins(t) \/ RemoveEnds(t)
    <3>1. \A x \in Trees : ~Recovering(x)
      <4>1. Only(opTree) /\ Awake(engine[opTree])
        BY <1>2, <2>7
           DEF Adopt, LocalRestoreSeen, RemoveBegins, RemoveEnds, Where,
               MineAt, RestoredAt
      <4>2. QED
        BY <4>1 DEF Recovering, Only, IsUp, Awake
    <3>2. QED
      BY <1>1, <1>2, <2>1, <2>2, <2>3, <2>7, <3>1
         DEF Adopt, LocalRestoreSeen, RemoveBegins, RemoveEnds, opVars
  <2>8. CASE \/ ResumeChecks(t) \/ MarkPending(t) \/ CudaRestore(t)
             \/ MarkRequest(t) \/ ArchiveFailed(t) \/ FallbackFails(t)
             \/ ResumeGivesUp(t)
    BY <1>1, <1>2, <1>3, <2>2, <2>3, <2>8
       DEF ResumeChecks, ResumeMarkers, MarkPending, CudaRestore, MarkRequest,
           ArchiveFailed, FallbackFails, ResumeGivesUp, markerVars
  <2>9. CASE ResumeFinally(t) \/ ResumeLosesLock(t)
    <3>1. /\ pc[t] \in {"r_done", "r_raise"}
          /\ pc'[t] \in {"m_reap", "m_start", "ok", "error"}
      BY <1>1, <2>9 DEF ResumeFinally, ResumeLosesLock, Outcome
    <3>2. QED
      BY <1>3, <2>2, <2>3, <3>1
  <2>10. QED
    BY <1>8, <2>4, <2>5, <2>6, <2>7, <2>8, <2>9 DEF ResumeStep
<1>9. Leads
  BY <1>4, <1>5, <1>6, <1>7, <1>8
<1>10. QED
  BY <1>1, <1>9, MemoryByMover

\* main() starts an engine that has nothing to recover.
LEMMA BootMemory ==
  ASSUME Inv, Service, Memory, BootStep
  PROVE  Memory'
<1>1. /\ pc \in [Threads -> Positions]
      /\ engine \in [Trees -> Engines]
      /\ tree \in [Trees -> TreeStates]
      /\ UNCHANGED <<slot, saved>>
      /\ slot # NoTree => Quiesced(saved)
      /\ \A t \in Threads : pc'[t] \in {"idle", "r_check", "m_start", "m_reap",
                                        "serving", "exited"}
  BY ThreadsAssumption
     DEF Inv, TypeOK, LauncherOK, TreeOK, ServesLast, Memory, BootStep, Boot,
         BootStarts, BootServes, BootFails, Goto, imageVars
<1>2. lock' # Lost => \A x \in Trees : ~Recovering(x)
  <2>1. \A t \in Threads : pc[t] \notin AskedAt \cup {"r_except"}
    BY NobodyAtBoot
       DEF BootStep, Boot, BootStarts, BootServes, BootFails, BootAt, AskedAt,
           InOp, ResumeAt
  <2>2. lock' # Lost => lock # Lost
    BY DEF Service, BootStep, Boot, BootStarts, BootServes, BootFails
  <2>3. QED
    BY <2>1, <2>2 DEF Memory
<1>3. lock' # Lost => \A x \in Trees : ~Recovering(x)'
  <2>1. CASE BootStarts
    BY <1>1, <1>2, <2>1, NewTreeUnused
       DEF BootStarts, StartVllm, Unused, Recovering, FreshEngine
  <2>2. CASE ~BootStarts
    BY <1>2, <2>2 DEF BootStep, Boot, BootServes, BootFails, Recovering,
       treeVars
  <2>3. QED
    BY <2>1, <2>2
<1>4. QED
  BY <1>1, <1>3
     DEF Memory, MemoryAt, UntoldAt, AskedAt, AdoptedAt, SleptAt, PreparedAt

\* A request or a reply leaves the engines alone.
LEMMA RequestMemory ==
  ASSUME Inv, Memory, NEW h \in Handlers, Request(h) \/ Reply(h)
  PROVE  Memory'
<1>1. /\ ~InOp(h)
      /\ UNCHANGED <<handle, restored, tree, engine, opTree, slot, saved,
                     status, request>>
      /\ \A u \in Threads : u # h => pc'[u] = pc[u]
      /\ pc'[h] \in {"idle", "busy", "s_check", "r_check"}
      /\ lock' # Lost => lock # Lost
  BY RequestEffect, ThreadsAssumption DEF imageVars, markerVars
<1>2. /\ slot' # NoTree => Quiesced(saved)'
      /\ \A x \in Trees : Recovering(x)' <=> Recovering(x)
      /\ Only(handle)' <=> Only(handle)
  BY <1>1 DEF Memory, Recovering, Only
<1>3. \A t \in Threads : MemoryAt(pc[t])'
  <2>1. MemoryAt(pc[h])'
    BY <1>1
       DEF MemoryAt, UntoldAt, AskedAt, AdoptedAt, SleptAt, PreparedAt
  <2>2. ASSUME NEW u \in Threads, u # h PROVE MemoryAt(pc[u])'
    <3>1. pc'[u] = pc[u] /\ MemoryAt(pc[u])
      BY <1>1, <2>2 DEF Memory
    <3>2. QED
      BY <1>1, <1>2, <3>1 DEF MemoryAt
  <2>3. QED
    BY <2>1, <2>2
<1>4. \A t \in Threads :
        pc[t] \in AskedAt \cup {"r_except"} => pc'[t] = pc[t]
  BY <1>1 DEF InOp, AskedAt, ResumeAt
<1>5. QED
  BY <1>1, <1>2, <1>3, <1>4 DEF Memory

\* The status poll leaves them alone.
LEMMA AskMemory ==
  ASSUME Inv, Memory, NEW t \in Threads, Ask(t)
  PROVE  Memory'
<1>1. /\ Moves(t) /\ pc'[t] = Answered[pc[t]] /\ pc[t] \in DOMAIN Answered
      /\ UNCHANGED <<handle, restored, tree, engine, opTree, slot, saved,
                     status, request>>
      /\ MemoryAt(pc[t])
  BY AskMoves
     DEF Ask, Inv, Memory, opVars, handleVars, treeVars, imageVars, markerVars
<1>2. MemoryAt(pc[t])'
  BY <1>1
     DEF Answered, MemoryAt, UntoldAt, AskedAt, AdoptedAt, SleptAt, PreparedAt
<1>3. \A x \in Trees : Recovering(x)' =>
         pc'[t] \in AskedAt \cup {"r_except"} /\ opTree' = x
  <2>1. \A x \in Trees : Recovering(x)' => Recovering(x)
    BY <1>1 DEF Recovering
  <2>2. pc[t] \in AskedAt \cup {"r_except"} => pc'[t] \in AskedAt
    BY <1>1 DEF Answered, AskedAt
  <2>3. QED
    BY <1>1, <2>1, <2>2, RecoveringIsMine DEF Moves
<1>4. QED
  BY <1>1, <1>2, <1>3, MemoryByMover DEF Memory

\* An engine that sees a request is the one of the resume that waits for it,
\* or has failed.
LEMMA RequestIsHeard ==
  ASSUME Inv, RequestHeld, Service, Adopted, Memory, request,
         NEW x \in Trees, tree[x] = "live",
         engine[x].local \in {"none", "failed"}, lock # Lost
  PROVE  \E t \in Threads : pc[t] \in AskedAt \cup {"r_except"} /\ opTree = x
<1>1. pc[Main] \notin {"m_boot", "exited"} /\ Calm
  BY DEF Service, Calm, None, IsUp
<1>2. PICK t \in Threads : lock = t /\ pc[t] \in RequestAt
  BY <1>1 DEF RequestHeld
<1>3. /\ Where(pc[t]) /\ MemoryAt(pc[t])
      /\ pc[t] \in AdoptedAt => handle = opTree
  BY <1>1 DEF Calm, Memory, Adopted
<1>4. pc[t] \notin NoneAt /\ pc[t] \notin UntoldAt
  BY <1>3 DEF Where, None, IsUp, MemoryAt
<1>5. pc[t] \notin AdoptedAt \cup {"r_done"}
  BY <1>3
     DEF Where, MineAt, RestoredAt, AdoptedAt, MemoryAt, Only, IsUp, Awake
<1>6. pc[t] \in AskedAt \cup {"r_except"}
  BY <1>2, <1>4, <1>5
     DEF RequestAt, ResumeAt, NoneAt, UntoldAt, AdoptedAt, AskedAt
<1>7. QED
  BY <1>3, <1>6 DEF Where, MineAt, RestoredAt, AskedAt, Only, IsUp

\* A step of an engine is one of its restore.
LEMMA EngineMemory ==
  ASSUME Inv, RequestHeld, Service, Adopted, Memory,
         NEW x \in Trees, EngineStep(x)
  PROVE  Memory'
<1>1. /\ UNCHANGED <<lock, pc, opTree, handle, restored, slot, saved, request>>
      /\ tree[x] = "live"
      /\ engine \in [Trees -> Engines]
      /\ tree \in [Trees -> TreeStates]
      /\ slot' # NoTree => Quiesced(saved)'
  BY DEF EngineStep, EngineRestoreBegins, EngineRestoreDone,
         EngineRestoreFails, Live, Inv, TypeOK, TreeOK, Memory, launcherVars,
         opVars, handleVars, imageVars
<1>2. CASE lock = Lost
  <2>1. \A t \in Threads : pc'[t] \notin SuspendAt \cup ResumeAt
    BY <1>1, <1>2, ThreadsAssumption DEF Inv, LockOwned, InOp
  <2>2. \A t \in Threads : MemoryAt(pc[t])'
    BY <2>1
       DEF MemoryAt, UntoldAt, AskedAt, AdoptedAt, SleptAt, PreparedAt,
           SuspendAt, ResumeAt
  <2>3. QED
    BY <1>1, <1>2, <2>2 DEF Memory
<1>3. CASE lock # Lost
  <2>1. PICK t \in Threads : pc[t] \in AskedAt \cup {"r_except"} /\ opTree = x
    <3>1. CASE EngineRestoreBegins(x)
      BY <1>1, <1>3, <3>1, RequestIsHeard DEF EngineRestoreBegins
    <3>2. CASE EngineRestoreDone(x) \/ EngineRestoreFails(x)
      BY <1>1, <1>3, <3>2
         DEF EngineRestoreDone, EngineRestoreFails, Memory, Recovering
    <3>3. QED
      BY <3>1, <3>2 DEF EngineStep
  <2>2. \A y \in Trees : Recovering(y)' => Recovering(y) \/ y = x
    BY <1>1
       DEF EngineStep, EngineRestoreBegins, EngineRestoreDone,
           EngineRestoreFails, Recovering
  <2>3. \A y \in Trees : Recovering(y)' =>
           \E u \in Threads : pc[u] \in AskedAt \cup {"r_except"} /\ opTree = y
    BY <1>3, <2>1, <2>2 DEF Memory
  <2>4. MemoryAt(pc[t])'
    <3>1. status' = "done" => Awake(engine'[x])
      BY <1>1
         DEF EngineStep, EngineRestoreBegins, EngineRestoreDone,
             EngineRestoreFails, Awake
    <3>2. QED
      BY <1>1, <2>1, <3>1
         DEF MemoryAt, UntoldAt, AskedAt, AdoptedAt, SleptAt, PreparedAt
  <2>5. ASSUME NEW u \in Threads, u # t PROVE MemoryAt(pc[u])'
    <3>1. pc'[u] \notin SuspendAt \cup ResumeAt
      BY <1>1, <2>1, <2>5, OthersRest DEF InOp, AskedAt, ResumeAt
    <3>2. QED
      BY <3>1
         DEF MemoryAt, UntoldAt, AskedAt, AdoptedAt, SleptAt, PreparedAt,
             SuspendAt, ResumeAt
  <2>6. QED
    BY <1>1, <2>3, <2>4, <2>5 DEF Memory
<1>4. QED
  BY <1>2, <1>3

\* Every step preserves the invariant.
LEMMA NextMemory ==
  ASSUME ~Stray, SleepBeforeDump
  PROVE  /\ Inv /\ RequestHeld /\ Service /\ Adopted /\ Memory
         /\ [Next]_vars
         => Memory'
<1> SUFFICES ASSUME Inv, RequestHeld, Service, Adopted, Memory, [Next]_vars
             PROVE  Memory'
    OBVIOUS
<1>1. ASSUME NoneStarted,
             UNCHANGED <<lock, pc, opTree, handle, restored, slot, saved,
                         engine, status, request>>
      PROVE  Memory'
  <2>1. \A x \in Trees : Recovering(x)' => Recovering(x)
    BY <1>1, NoRecoveryBegins
  <2>2. Only(handle) => Only(handle)'
    BY <1>1, NoneStartedKeeps
  <2>3. \A t \in Threads : MemoryAt(pc[t])'
    BY <1>1, <2>2 DEF Memory, MemoryAt
  <2>4. QED
    BY <1>1, <2>1, <2>3 DEF Memory
<1>2. CASE \/ \E r \in reapers : ReaperStep(r)
           \/ World /\ ~Crash
  <2>1. NoneStarted
    BY <1>2, OtherStepsStartNone DEF Inv
  <2>2. UNCHANGED <<lock, pc, opTree, handle, restored, slot, saved, engine,
                    status, request>>
    BY <1>2
       DEF World, ReaperStep, ReaperWaits, ReaperReads, ReaperSets, TreeDies,
           TreeStops, ForwardSignal, opVars, handleVars, treeVars, imageVars,
           markerVars
  <2>3. QED
    BY <1>1, <2>1, <2>2
<1>3. CASE Crash
  <2>1. /\ \A t \in Threads : pc'[t] \in {"m_boot", "idle"}
        /\ \A x \in Trees : ~Recovering(x)'
        /\ UNCHANGED <<slot, saved>>
    BY <1>3 DEF Crash, Recovering
  <2>2. QED
    BY <2>1
       DEF Memory, MemoryAt, UntoldAt, AskedAt, AdoptedAt, SleptAt, PreparedAt
<1>4. CASE UNCHANGED vars
  <2>1. NoneStarted
    BY <1>4, UnchangedStartsNone DEF vars, treeVars
  <2>2. QED
    BY <1>1, <1>4, <2>1
       DEF vars, opVars, handleVars, treeVars, imageVars, markerVars
<1>5. QED
  BY <1>2, <1>3, <1>4, BootMemory, RequestMemory, SuspendMemory, AskMemory,
     ResumeMemory, EngineMemory
     DEF Next, World

\* The invariants always hold together.
LEMMA AdoptedInvariance ==
  ASSUME ~Stray
  PROVE  Spec => [](Inv /\ RequestHeld /\ Service /\ Adopted)
<1>1. Init => Adopted
  BY DEF Init, Adopted, AdoptedAt
<1>2. QED
  BY <1>1, NextAdopted, RequestInvariance, ServiceInvariance, PTL DEF Spec

\* Memory is invariant where no resume is stray and the engine sleeps before
\* it is dumped.
LEMMA MemoryInvariance ==
  ASSUME ~Stray, SleepBeforeDump
  PROVE  Spec => [](Inv /\ Memory)
<1>1. Init => Memory
  BY DEF Init, Memory, MemoryAt, Recovering, UntoldAt, AskedAt, AdoptedAt,
         SleptAt, PreparedAt
<1>2. QED
  BY <1>1, NextMemory, AdoptedInvariance, PTL DEF Spec

(***************************************************************************)
(* The theorems                                                            *)
(***************************************************************************)
\* With a sleep level set, every image that is published holds an engine that
\* sleeps and is prepared: the late recovery of an earlier resume, which the
\* launcher may have stopped waiting for, never undoes it between the sleep
\* and the dump (launcher.py:309-327, 375-407; lifecycle.py:185-302).
THEOREM ImageIsQuiesced ==
  ASSUME ~Stray, SleepBeforeDump
  PROVE  Spec => []ImageQuiesced
<1>1. Memory => ImageQuiesced
  BY DEF Memory, ImageQuiesced, Quiesced
<1>2. QED
  BY <1>1, MemoryInvariance, PTL

\* With a sleep level set, a successful resume reports an engine that has
\* undone its preparation (launcher.py:403-422, lifecycle.py:185-302).
THEOREM ResumedIsRecovered ==
  ASSUME ~Stray, SleepBeforeDump
  PROVE  Spec => []ResumedEngineRecovered
<1>1. Memory => ResumedEngineRecovered
  BY DEF Memory, MemoryAt, Awake, ResumedEngineRecovered
<1>2. QED
  BY <1>1, MemoryInvariance, PTL

\* An image leaves the checkpoint directory only for the archive, or when its
\* process is the one vllm_process names and, with a sleep level set, is awake
\* again: a resume that fails keeps it (launcher.py:328-334, 403-418, 442).
THEOREM ImageIsKept ==
  ASSUME ~Stray
  PROVE  Spec => ImageKept
<1> DEFINE Kept == slot # NoTree /\ slot' # slot
                     => /\ slot' = NoTree
                        /\ \/ archive' = slot
                           \/ /\ handle = slot
                              /\ SleepBeforeDump => ~engine[slot].asleep
<1>1. /\ Inv /\ RequestHeld /\ Service /\ Adopted
      /\ SleepBeforeDump => Memory
      /\ [Next]_vars
      => [Kept]_vars
  <2> SUFFICES ASSUME Inv, Service, Adopted, SleepBeforeDump => Memory, Next,
                      slot # NoTree, slot' # slot
               PROVE  /\ slot' = NoTree
                      /\ \/ archive' = slot
                         \/ /\ handle = slot
                            /\ SleepBeforeDump => ~engine[slot].asleep
      BY DEF vars
  <2>1. \/ \E h \in Handlers : Publish(h)
        \/ \E t \in Threads : ArchiveFailed(t) \/ RemoveEnds(t)
    <3>1. CASE \E h \in Handlers : SuspendStep(h)
      BY <3>1
         DEF SuspendStep, SuspendChecks, SuspendRefused, Sleep, SleepTimesOut,
             Prepare, TerminateTrackers, CudaLock, CudaSave, CriuDump, Commit,
             SuspendThrows, SuspendCleansUp, Rollback, WakeLevel2,
             SuspendResets, SuspendFinally, imageVars
    <3>2. CASE \E t \in Threads : ResumeStep(t)
      BY <3>2
         DEF ResumeStep, ResumeChecks, MarkPending, CriuRestore, CudaRestore,
             MarkRequest, Adopt, RemoveBegins, ResumeCommits, ResumeThrows,
             ResumeCleansUp, FallbackStarts, FallbackReady, FallbackTimesOut,
             FallbackFails, ResumeGivesUp, ResumeFinally, ResumeLosesLock,
             imageVars
    <3>3. CASE Crash
      BY <3>3 DEF Crash
    <3>4. CASE \/ BootStep \/ \E t \in Threads : Ask(t)
               \/ \E h \in Handlers : Request(h) \/ Reply(h)
      BY <3>4, RequestEffect
         DEF BootStep, Boot, BootStarts, BootServes, BootFails, Ask, imageVars
    <3>5. QED
      BY <3>1, <3>2, <3>3, <3>4, OtherStepsFrame DEF Next, World
  <2>2. ASSUME NEW h \in Handlers, Publish(h) PROVE FALSE
    <3>1. Calm
      BY <2>2, SuspendMoves, OpOfMover DEF SuspendStep, Inv, Moves, Service
    <3>2. QED
      BY <2>2, <3>1 DEF Publish, Calm, Where, EmptyAt
  <2>3. ASSUME NEW t \in Threads, ArchiveFailed(t)
        PROVE  slot' = NoTree /\ archive' = slot
    BY <2>3 DEF ArchiveFailed
  <2>4. ASSUME NEW t \in Threads, RemoveEnds(t)
        PROVE  /\ slot' = NoTree /\ handle = slot
               /\ SleepBeforeDump => ~engine[slot].asleep
    <3>1. Calm
      BY <2>4, ResumeMoves, OpOfMover DEF ResumeStep, Inv, Moves, Service
    <3>2. QED
      BY <2>4, <3>1
         DEF RemoveEnds, Calm, Where, HoldAt, RestoredAt, Adopted, AdoptedAt,
             Memory, MemoryAt, Awake
  <2>5. QED
    BY <2>1, <2>2, <2>3, <2>4
<1>2. Spec => [](SleepBeforeDump => Memory)
  <2>1. CASE SleepBeforeDump
    BY <2>1, MemoryInvariance, PTL
  <2>2. CASE ~SleepBeforeDump
    BY <2>2, PTL
  <2>3. QED
    BY <2>1, <2>2
<1>3. QED
  BY <1>1, <1>2, AdoptedInvariance, PTL DEF ImageKept, Spec

=============================================================================
