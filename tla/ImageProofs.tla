----------------------------- MODULE ImageProofs -----------------------------
(***************************************************************************)
(* Proofs about what the launcher leaves on the disk: the pending marker,  *)
(* the image that the state promises, and the engine memory in it.  They   *)
(* hold for any number of handlers and trees and for any set of faults.    *)
(***************************************************************************)
EXTENDS LifecycleProofs

USE DEF launcherVars, stillVars, quietVars, diskVars, Threads, TreeStates

\* A step of an operation finds and leaves the other threads outside of one.
LEMMA OthersOut ==
  ASSUME Inv, NEW t \in Threads, Moves(t), NEW u \in Threads, u # t
  PROVE  pc'[u] = pc[u] /\ pc'[u] \notin SuspendAt \cup ResumeAt
<1>1. pc'[u] = pc[u]
  BY DEF Moves, Inv, TypeOK, LauncherOK
<1>2. QED
  BY <1>1, OthersRest DEF Moves, InOp

\* A step of a suspend starts from a position of a suspend,
LEMMA SuspendFrom ==
  ASSUME NEW h \in Handlers, SuspendStep(h)
  PROVE  pc[h] \in SuspendAt
  BY DEF SuspendStep, SuspendChecks, SuspendRefused, Sleep, SleepTimesOut,
         Prepare, TerminateTrackers, CudaLock, CudaSave, CriuDump, Publish,
         Commit, SuspendThrows, SuspendCleansUp, Rollback, WakeLevel2,
         SuspendResets, SuspendFinally, SuspendAt

\* and one of a resume from a position of a resume.
LEMMA ResumeFrom ==
  ASSUME NEW t \in Threads, ResumeStep(t)
  PROVE  pc[t] \in ResumeAt
  BY DEF ResumeStep, ResumeChecks, MarkPending, CriuRestore, CudaRestore,
         MarkRequest, Adopt, RemoveBegins, RemoveEnds, ResumeCommits,
         ResumeThrows, ResumeCleansUp, ArchiveFailed, FallbackStarts,
         FallbackReady, FallbackTimesOut, FallbackFails, ResumeGivesUp,
         ResumeFinally, ResumeLosesLock, ResumeAt

\* A request begins an operation, with the state that MaySuspend or MayResume
\* asks for, or moves a thread outside of one.
LEMMA RequestEffect ==
  ASSUME Inv, NEW h \in Handlers, Request(h) \/ Reply(h)
  PROVE  /\ h # Main /\ ~InOp(h)
         /\ UNCHANGED <<state, handle, restored, tree, cuda, engine, diskVars,
                        reapers, crashes, opTree>>
         /\ \A u \in Threads : u # h => pc'[u] = pc[u]
         /\ \/ pc'[h] \in {"idle", "busy"} /\ lock' = lock
            \/ /\ lock = NoThread /\ lock' = h /\ pc[Main] = "serving"
               /\ \/ pc'[h] = "s_check" /\ MaySuspend
                  \/ pc'[h] = "r_check" /\ MayResume
<1>1. pc \in [Threads -> Positions] /\ h # Main
  BY ThreadsAssumption DEF Inv, TypeOK, LauncherOK
<1>2. QED
  BY <1>1
     DEF Request, Suspend, Resume, Begin, Busy, Reply, Accept, Goto, InOp,
         SuspendAt, ResumeAt, Replies, opVars, handleVars, treeVars, restVars

\* Nothing is under way while main() boots.
LEMMA NobodyAtBoot ==
  ASSUME Inv, pc[Main] \in BootAt
  PROVE  \A t \in Threads : ~InOp(t) /\ lock # t
  BY DEF Inv, ServesLast, LockOwned, InOp, BootAt, SuspendAt, ResumeAt

(***************************************************************************)
(* The pending marker                                                      *)
(***************************************************************************)
PendingAt == ResumeAt \ {"r_check", "r_tools"}

\* The inductive invariant behind PendingScoped: a launcher that was never
\* killed has a pending marker only within the resume that created it, or after
\* the lock was lost, which no boot begins with.
PendingHeld ==
  /\ pc[Main] = "m_boot" => lock # Lost
  /\ pending /\ crashes = 0 =>
       \/ lock = Lost
       \/ \E t \in Threads : lock = t /\ pc[t] \in PendingAt

\* While a thread runs an operation the marker can only be its own.
LEMMA PendingIsMine ==
  ASSUME Inv, PendingHeld, pending, crashes = 0, NEW t \in Threads, InOp(t)
  PROVE  pc[t] \in PendingAt
  BY ThreadsAssumption DEF PendingHeld, Inv, LockOwned

\* restore_vllm leaves no pending marker without a resume that holds it.
LEMMA ResumeKeepsPending ==
  ASSUME Inv, PendingHeld, NEW t \in Threads, ResumeStep(t)
  PROVE  /\ crashes' = crashes
         /\ pending' /\ crashes = 0 =>
              (lock' = Lost) \/ (pc'[t] \in PendingAt /\ lock' = lock)
<1>1. Moves(t) /\ pc \in [Threads -> Positions] /\ pc[t] \in ResumeAt
  BY ResumeMoves, ResumeFrom DEF Inv, TypeOK, LauncherOK
<1>2. pending /\ crashes = 0 => pc[t] \in PendingAt
  BY <1>1, PendingIsMine DEF Moves
<1>3. QED
  <2>1. CASE ResumeFinally(t) \/ ResumeLosesLock(t)
    <3>1. ResumeFinally(t) => ~pending'
      BY DEF ResumeFinally, FinallyMarkers
    <3>2. ResumeLosesLock(t) => lock' = Lost
      BY DEF ResumeLosesLock
    <3>3. crashes' = crashes
      BY <2>1 DEF ResumeFinally, ResumeLosesLock, restVars
    <3>4. QED
      BY <2>1, <3>1, <3>2, <3>3
  <2> USE DEF PendingAt, ResumeAt, Goto, markerVars, restVars
  <2>2. CASE ResumeChecks(t) \/ MarkPending(t)
    BY <1>1, <2>2 DEF ResumeChecks, MarkPending, ResumeMarkers
  <2>3. CASE ResumeCommits(t) \/ ResumeThrows(t) \/ ResumeCleansUp(t)
    BY <1>1, <1>2, <2>3
       DEF ResumeCommits, ResumeThrows, ResumeCleansUp, SpawnReaper
  <2>4. CASE \/ CriuRestore(t) \/ CudaRestore(t) \/ MarkRequest(t) \/ Adopt(t)
             \/ RemoveBegins(t) \/ RemoveEnds(t)
    BY <1>1, <1>2, <2>4
       DEF CriuRestore, CudaRestore, MarkRequest, Adopt, RemoveBegins,
           RemoveEnds
  <2>5. CASE \/ ArchiveFailed(t) \/ FallbackStarts(t) \/ FallbackReady(t)
             \/ FallbackTimesOut(t) \/ FallbackFails(t) \/ ResumeGivesUp(t)
    BY <1>1, <1>2, <2>5
       DEF ArchiveFailed, FallbackStarts, FallbackReady, FallbackTimesOut,
           FallbackFails, ResumeGivesUp, StartVllm
  <2>6. QED
    BY <2>1, <2>2, <2>3, <2>4, <2>5 DEF ResumeStep

\* Every step preserves that a pending marker has its resume.
LEMMA PendingHeldStep == Inv /\ PendingHeld /\ [Next]_vars => PendingHeld'
<1> SUFFICES ASSUME Inv, PendingHeld, [Next]_vars PROVE PendingHeld'
    OBVIOUS
<1>1. CASE UNCHANGED <<lock, pc, pending, crashes>>
  BY <1>1 DEF PendingHeld
<1>0. ASSUME ~Crash PROVE pc'[Main] = "m_boot" => lock' # Lost
  BY <1>0, LostStays DEF PendingHeld
<1>2. CASE BootStep
  <2>1. pending /\ crashes = 0 => lock = Lost /\ pc[Main] # "m_boot"
    BY <1>2, NobodyAtBoot
       DEF PendingHeld, BootStep, Boot, BootStarts, BootServes, BootFails,
           BootAt
  <2>2. /\ UNCHANGED <<pending, crashes>>
        /\ pc[Main] = "m_boot" \/ lock' = lock
    BY <1>2
       DEF BootStep, Boot, BootStarts, BootServes, BootFails, BootMarkers,
           markerVars, restVars
  <2>3. ~Crash
    BY <2>2 DEF Crash, Inv, TypeOK, RestOK
  <2>4. QED
    BY <1>0, <2>1, <2>2, <2>3 DEF PendingHeld
<1>3. ASSUME NEW h \in Handlers, Request(h) \/ Reply(h) PROVE PendingHeld'
  <2>1. /\ UNCHANGED <<pending, crashes>> /\ ~InOp(h)
        /\ \A u \in Threads : u # h => pc'[u] = pc[u]
        /\ lock = NoThread \/ lock' = lock
    BY <1>3, RequestEffect DEF markerVars
  <2>2. NoThread \notin Threads /\ NoThread # Lost /\ ~Crash
    BY <2>1, ThreadsAssumption DEF Crash, Inv, TypeOK, RestOK
  <2>3. QED
    BY <1>0, <2>1, <2>2 DEF PendingHeld, PendingAt, InOp
<1>4. ASSUME NEW h \in Handlers, SuspendStep(h) PROVE PendingHeld'
  <2>1. UNCHANGED <<pending, crashes>>
    BY <1>4
       DEF SuspendStep, SuspendChecks, SuspendRefused, Sleep, SleepTimesOut,
           Prepare, TerminateTrackers, CudaLock, CudaSave, CriuDump, Publish,
           Commit, SuspendThrows, SuspendCleansUp, Rollback, WakeLevel2,
           SuspendResets, SuspendFinally, markerVars, restVars
  <2>2. ~(pending /\ crashes = 0)
    BY <1>4, SuspendFrom, PendingIsMine
       DEF InOp, SuspendAt, PendingAt, ResumeAt
  <2>3. ~Crash
    BY <2>1 DEF Crash, Inv, TypeOK, RestOK
  <2>4. QED
    BY <1>0, <2>1, <2>2, <2>3 DEF PendingHeld
<1>5. ASSUME NEW t \in Threads, Ask(t) PROVE PendingHeld'
  <2>1. /\ Moves(t) /\ lock' = lock /\ UNCHANGED <<pending, crashes>>
        /\ pc[t] \in DOMAIN Answered /\ pc'[t] = Answered[pc[t]]
    BY <1>5, AskMoves DEF Ask, markerVars, restVars, Inv
  <2>2. pending /\ crashes = 0 => lock = t /\ pc[t] \in PendingAt
    BY <2>1, PendingIsMine DEF Moves, Inv, LockOwned
  <2>3. pc[t] \in PendingAt => pc'[t] \in PendingAt
    BY <2>1 DEF Answered, PendingAt, ResumeAt
  <2>4. ~Crash
    BY <2>1 DEF Crash, Inv, TypeOK, RestOK
  <2>5. QED
    BY <1>0, <2>1, <2>2, <2>3, <2>4 DEF PendingHeld
<1>6. ASSUME NEW t \in Threads, ResumeStep(t) PROVE PendingHeld'
  <2>1. lock = t
    BY <1>6, ResumeMoves DEF Moves, Inv, LockOwned
  <2>2. crashes' = crashes /\ ~Crash
    BY <1>6, ResumeKeepsPending DEF Crash, Inv, TypeOK, RestOK
  <2>3. QED
    BY <1>0, <1>6, <2>1, <2>2, ResumeKeepsPending DEF PendingHeld
<1>7. CASE \/ \E r \in reapers : ReaperStep(r)
           \/ \E x \in Trees : EngineStep(x)
           \/ World /\ ~Crash
  <2>1. UNCHANGED <<lock, pc>>
    BY <1>7, OtherStepsFrame DEF World
  <2>2. UNCHANGED <<pending, crashes>>
    BY <1>7
       DEF World, ReaperStep, ReaperWaits, ReaperReads, ReaperSets, EngineStep,
           EngineRestoreBegins, EngineRestoreDone, EngineRestoreFails,
           TreeDies, TreeStops, ForwardSignal, markerVars, restVars
  <2>3. QED
    BY <1>1, <2>1, <2>2
<1>8. CASE Crash
  <2>1. crashes' # 0 /\ lock' # Lost
    BY <1>8, ThreadsAssumption DEF Crash, Inv, TypeOK, RestOK
  <2>2. QED
    BY <2>1 DEF PendingHeld
<1>9. QED
  BY <1>1, <1>2, <1>3, <1>4, <1>5, <1>6, <1>7, <1>8
     DEF Next, World, vars, markerVars, restVars

\* A launcher that was never killed leaves no pending marker behind a resume
\* that gives its lock back, however the resume ended: the liveness monitors of
\* vLLM watch again (launcher.py:362-364, 370, 464-466).
THEOREM PendingIsScoped == Spec => []PendingScoped
<1>1. Init => PendingHeld
  BY ThreadsAssumption DEF Init, PendingHeld
<1>2. Inv /\ PendingHeld => PendingScoped
  BY ThreadsAssumption DEF PendingHeld, PendingScoped, AtRest
<1>3. QED
  BY <1>1, <1>2, InitInv, NextInv, PendingHeldStep, PTL DEF Spec

(***************************************************************************)
(* The image that "checkpointed" promises                                  *)
(***************************************************************************)
\* Where an operation has its image: a resume until it has removed it, also
\* after a failure, and a suspend once it has published it.
ImagedAt   == {"s_commit", "s_done", "r_check", "r_tools", "r_criu", "r_find",
               "r_cuda", "r_marker", "r_ready", "r_handshake", "r_local",
               "r_remove", "r_removed", "r_except", "r_giveup", "r_raise"}
FallbackAt == {"r_archive", "r_start", "r_wait"}

PromisedAt(p) ==
  /\ p \in ImagedAt => slot # NoTree
  /\ p \notin FallbackAt
  /\ p \in RestoredAt \cup ImageAt => state # "checkpointed"
  /\ p = "s_commit" => ~torn
  /\ p \in {"r_remove", "r_removed"} => restored /\ handle = opTree
  /\ p = "r_done" => state # "checkpointed"

\* The image that is there is whole, or its process has been adopted.
WholeOrAdopted == torn => restored /\ handle = slot

\* The inductive invariant behind CheckpointedHasImage, where no fresh process
\* is the fallback of a failed restore.  (main() may meet an image that a crash
\* has torn, and starts a process when it cannot resume it.)
Promised ==
  /\ state = "checkpointed" \/ torn => slot # NoTree
  /\ pc[Main] = "m_reap" => state # "checkpointed"
  /\ pc[Main] = "serving" /\ state = "checkpointed" => WholeOrAdopted
  /\ \A h \in Handlers : pc[h] \in ResumeAt => WholeOrAdopted
  /\ \A t \in Threads : PromisedAt(pc[t])

\* A step of an operation has to be looked at for its own thread only.
LEMMA PromisedByMover ==
  ASSUME Inv, NEW t \in Threads, Moves(t), PromisedAt(pc[t])',
         state' = "checkpointed" \/ torn' => slot' # NoTree,
         pc'[t] = "m_reap" => state' # "checkpointed",
         t # Main /\ (state' = "checkpointed" \/ pc'[t] \in ResumeAt)
           => WholeOrAdopted'
  PROVE  Promised'
<1>1. ASSUME NEW u \in Threads, u # t PROVE PromisedAt(pc[u])'
  BY <1>1, OthersOut
     DEF PromisedAt, ImagedAt, FallbackAt, RestoredAt, ImageAt, SuspendAt,
         ResumeAt
<1>2. \A h \in Handlers : pc'[h] \in ResumeAt => h = t /\ h # Main
  BY OthersOut, ThreadsAssumption
<1>3. pc'[Main] = "serving" => t # Main
  BY DEF Moves, InOp, SuspendAt, ResumeAt
<1>4. pc'[Main] = "m_reap" => t = Main
  BY OthersOut, ThreadsAssumption
     DEF Moves, Inv, ServesLast, InOp, SuspendAt, ResumeAt
<1>5. QED
  BY <1>1, <1>2, <1>3, <1>4 DEF Promised

\* checkpoint_vllm says "checkpointed" when it has published an image.
LEMMA SuspendPromised ==
  ASSUME Inv, Service, Promised, NEW h \in Handlers, SuspendStep(h)
  PROVE  Promised'
<1>1. /\ Moves(h) /\ h # Main
      /\ pc \in [Threads -> Positions]
      /\ PromisedAt(pc[h])
      /\ state = "checkpointed" \/ torn => slot # NoTree
      /\ pc[h] \in EmptyAt => opTree \in Trees
      /\ state = "checkpointed" => WholeOrAdopted
  <2>1. Moves(h) /\ h # Main /\ lock # Lost /\ pc[Main] = "serving"
    BY SuspendMoves, OpOfMover, ThreadsAssumption
       DEF Inv, Moves, ServesLast, InOp, SuspendAt, ResumeAt
  <2>2. QED
    BY <2>1
       DEF Inv, TypeOK, LauncherOK, Promised, Service, Calm, Where
<1>2. /\ PromisedAt(pc[h])'
      /\ state' = "checkpointed" \/ torn' => slot' # NoTree
      /\ state' = "checkpointed" \/ pc'[h] \in ResumeAt => WholeOrAdopted'
      /\ pc'[h] # "m_reap"
  BY <1>1, TreesAssumption
     DEF SuspendStep, SuspendChecks, SuspendRefused, Sleep, SleepTimesOut,
         Prepare, TerminateTrackers, CudaLock, CudaSave, CriuDump, Publish,
         Commit, SuspendThrows, SuspendCleansUp, Rollback, WakeLevel2,
         SuspendResets, SuspendFinally, Goto, PromisedAt, ImagedAt, FallbackAt,
         RestoredAt, ImageAt, EmptyAt, SuspendAt, ResumeAt, WholeOrAdopted,
         imageVars, handleVars
<1>3. QED
  BY <1>1, <1>2, PromisedByMover

\* restore_vllm says it again only while it still has the image.
LEMMA ResumePromised ==
  ASSUME ~FallbackFresh, Inv, Service, Promised, NEW t \in Threads,
         ResumeStep(t)
  PROVE  Promised'
<1>1. /\ Moves(t) /\ pc[t] \in ResumeAt
      /\ pc \in [Threads -> Positions]
      /\ PromisedAt(pc[t])
      /\ state = "checkpointed" \/ torn => slot # NoTree
      /\ t # Main => WholeOrAdopted
      /\ pc[t] \in HoldAt => slot = opTree
  <2>1. Moves(t) /\ lock # Lost /\ pc[t] \in ResumeAt
    BY ResumeMoves, ResumeFrom, OpOfMover DEF Inv, Moves
  <2>2. QED
    BY <2>1 DEF Inv, TypeOK, LauncherOK, Promised, Service, Calm, Where
<1> DEFINE Leads == /\ PromisedAt(pc[t])'
                    /\ pc'[t] = "m_reap" => state' # "checkpointed"
                    /\ state' = "checkpointed" \/ torn' => slot' # NoTree
                    /\ t # Main => WholeOrAdopted'
<1> USE DEF Goto, PromisedAt, ImagedAt, FallbackAt, RestoredAt, ImageAt,
            HoldAt, WholeOrAdopted, imageVars, handleVars, opVars
<1>2. ASSUME ResumeThrows(t)
      PROVE  Leads
  BY <1>1, <1>2 DEF ResumeThrows, ResumeFault, ResumeAt
<1>3. ASSUME \/ ResumeChecks(t) \/ MarkPending(t) \/ CriuRestore(t)
             \/ CudaRestore(t) \/ MarkRequest(t) \/ Adopt(t)
      PROVE  Leads
  BY <1>1, <1>3
     DEF ResumeChecks, MarkPending, CriuRestore, CudaRestore, MarkRequest,
         Adopt
<1>4. ASSUME RemoveBegins(t) \/ RemoveEnds(t) \/ ResumeCommits(t)
      PROVE  Leads
  <2>1. ASSUME RemoveBegins(t) PROVE Leads
    BY <1>1, <2>1 DEF RemoveBegins
  <2>2. ASSUME RemoveEnds(t) PROVE Leads
    BY <1>1, <2>2 DEF RemoveEnds
  <2>3. ASSUME ResumeCommits(t) PROVE Leads
    BY <1>1, <2>3 DEF ResumeCommits
  <2>4. QED
    BY <1>4, <2>1, <2>2, <2>3
<1>5. ASSUME ResumeCleansUp(t)
      PROVE  Leads
  BY <1>1, <1>5 DEF ResumeCleansUp, FallbackMarkersFail
<1>6. ASSUME \/ ResumeGivesUp(t) \/ ResumeFinally(t) \/ ResumeLosesLock(t)
      PROVE  Leads
  <2>1. ASSUME ResumeGivesUp(t) PROVE Leads
    BY <1>1, <2>1 DEF ResumeGivesUp
  <2>2. ASSUME pc[t] = "r_done",
               pc'[t] \in {"m_reap", "m_start", "ok", "error"},
               UNCHANGED <<state, handle, restored, slot, torn>>
        PROVE  Leads
    BY <1>1, <2>2
  <2>3. ASSUME pc[t] = "r_raise", pc'[t] \in {"m_start", "error"},
               UNCHANGED <<state, handle, restored, slot, torn>>
        PROVE  Leads
    BY <1>1, <2>3
  <2>4. CASE ResumeFinally(t)
    <3>1. UNCHANGED <<state, handle, restored, slot, torn>>
      BY <2>4 DEF ResumeFinally
    <3>2. \/ pc[t] = "r_done" /\ pc'[t] \in {"m_reap", "ok"}
          \/ pc[t] = "r_raise" /\ pc'[t] \in {"m_start", "error"}
      BY <1>1, <2>4 DEF ResumeFinally, Outcome
    <3>3. QED
      BY <2>2, <2>3, <3>1, <3>2
  <2>5. CASE ResumeLosesLock(t)
    <3>1. UNCHANGED <<state, handle, restored, slot, torn>>
      BY <2>5 DEF ResumeLosesLock
    <3>2. pc[t] \in {"r_done", "r_raise"} /\ pc'[t] \in {"m_start", "error"}
      BY <1>1, <2>5 DEF ResumeLosesLock, Outcome
    <3>3. QED
      BY <2>2, <2>3, <3>1, <3>2
  <2>6. QED
    BY <1>6, <2>1, <2>4, <2>5
<1>7. ASSUME \/ ArchiveFailed(t) \/ FallbackStarts(t) \/ FallbackReady(t)
             \/ FallbackTimesOut(t) \/ FallbackFails(t)
      PROVE  Leads
  BY <1>1, <1>7
     DEF ArchiveFailed, FallbackStarts, FallbackReady, FallbackTimesOut,
         FallbackFails
<1>8. Leads
  BY <1>2, <1>3, <1>4, <1>5, <1>6, <1>7 DEF ResumeStep
<1>9. QED
  BY <1>1, <1>8, PromisedByMover

\* So does every step.
LEMMA NextPromised ==
  ASSUME ~Stray, ~FallbackFresh
  PROVE  Inv /\ Service /\ Promised /\ [Next]_vars => Promised'
<1> SUFFICES ASSUME Inv, Service, Promised, [Next]_vars PROVE Promised'
    OBVIOUS
<1>1. ASSUME UNCHANGED <<pc, slot, torn, opTree, handle, restored>>,
             state' \in {state, "stopped"}
      PROVE  Promised'
  BY <1>1 DEF Promised, PromisedAt, WholeOrAdopted
<1>2. CASE BootStep
  <2>1. /\ pc \in [Threads -> Positions] /\ UNCHANGED <<slot, torn>>
        /\ state' = "checkpointed" \/ torn => slot # NoTree
        /\ pc'[Main] \in {"r_check", "m_start", "m_reap", "serving", "exited"}
        /\ pc'[Main] = "r_check" => slot # NoTree
        /\ pc'[Main] \in {"m_reap", "serving"} => state' # "checkpointed"
        /\ \A h \in Handlers : pc'[h] = "idle"
    BY <1>2, ThreadsAssumption
       DEF Inv, TypeOK, LauncherOK, ServesLast, Promised, PromisedAt, BootStep,
           Boot, BootStarts, BootServes, BootFails, StartVllm, Goto, imageVars
  <2>2. QED
    BY <2>1, ThreadsAssumption
       DEF Promised, PromisedAt, ImagedAt, FallbackAt, RestoredAt, ImageAt,
           ResumeAt
<1>3. ASSUME NEW h \in Handlers, Request(h) \/ Reply(h) PROVE Promised'
  <2>1. /\ UNCHANGED <<state, slot, torn, opTree, handle, restored>>
        /\ h # Main
        /\ \A u \in Threads : u # h => pc'[u] = pc[u]
        /\ \/ pc'[h] \in {"idle", "busy", "s_check"}
           \/ /\ pc'[h] = "r_check" /\ state = "checkpointed"
              /\ pc[Main] = "serving"
    BY <1>3, RequestEffect DEF MayResume, imageVars
  <2>2. PromisedAt(pc[h])'
    BY <2>1
       DEF Promised, PromisedAt, ImagedAt, FallbackAt, RestoredAt, ImageAt
  <2>3. WholeOrAdopted' <=> WholeOrAdopted
    BY <2>1 DEF WholeOrAdopted
  <2>4. \A u \in Handlers : pc'[u] \in ResumeAt => WholeOrAdopted'
    BY <2>1, <2>3 DEF Promised, ResumeAt
  <2>5. \A t \in Threads : PromisedAt(pc[t])'
    <3>1. ASSUME NEW t \in Threads, t # h PROVE PromisedAt(pc[t])'
      BY <2>1, <3>1 DEF Promised, PromisedAt
    <3>2. QED
      BY <2>2, <3>1
  <2>6. QED
    BY <2>1, <2>3, <2>4, <2>5 DEF Promised
<1>4. ASSUME NEW h \in Handlers, SuspendStep(h) PROVE Promised'
  BY <1>4, SuspendPromised
<1>5. ASSUME NEW t \in Threads, ResumeStep(t) PROVE Promised'
  BY <1>5, ResumePromised
<1>6. ASSUME NEW t \in Threads, Ask(t) PROVE Promised'
  <2>1. /\ Moves(t)
        /\ UNCHANGED <<state, slot, torn, opTree, handle, restored>>
        /\ pc[t] \in DOMAIN Answered /\ pc'[t] = Answered[pc[t]]
        /\ PromisedAt(pc[t])
    BY <1>6, AskMoves DEF Ask, Inv, Promised, imageVars, handleVars, opVars
  <2>2. /\ PromisedAt(pc[t])' /\ pc'[t] # "m_reap"
        /\ pc'[t] \in ResumeAt => pc[t] \in ResumeAt
    BY <2>1
       DEF Answered, PromisedAt, ImagedAt, FallbackAt, RestoredAt, ImageAt,
           ResumeAt
  <2>3. t # Main => pc[Main] = "serving"
    BY <2>1 DEF Inv, ServesLast, Moves, InOp, SuspendAt, ResumeAt
  <2>4. WholeOrAdopted' <=> WholeOrAdopted
    BY <2>1 DEF WholeOrAdopted
  <2>5. QED
    BY <2>1, <2>2, <2>3, <2>4, PromisedByMover DEF Promised
<1>7. CASE \/ \E r \in reapers : ReaperStep(r)
           \/ \E x \in Trees : EngineStep(x)
           \/ World /\ ~Crash
  BY <1>1, <1>7, OtherStepsFrame, OtherStepsState DEF World
<1>8. CASE Crash
  <2>1. /\ state' = "starting" /\ UNCHANGED <<slot, torn>>
        /\ \A t \in Threads : pc'[t] \in {"m_boot", "idle"}
    BY <1>8 DEF Crash
  <2>2. QED
    BY <2>1
       DEF Promised, PromisedAt, ImagedAt, FallbackAt, RestoredAt, ImageAt,
           ResumeAt
<1>9. CASE UNCHANGED vars
  BY <1>1, <1>9 DEF vars, imageVars, handleVars, opVars
<1>10. QED
  BY <1>2, <1>3, <1>4, <1>5, <1>6, <1>7, <1>8, <1>9 DEF Next, World

\* Without a fresh fallback, and with clients that heed the state, a launcher
\* at rest that says "checkpointed" has a whole image, also after a resume that
\* failed and after a boot that met a torn one; or it has the rest of an image
\* whose process it had adopted when the removal failed (launcher.py:328-333,
\* 360-365, 417-420, 462, 575-583).
THEOREM CheckpointedKeepsImage ==
  ASSUME ~Stray, ~FallbackFresh
  PROVE  Spec => []CheckpointedHasImage
<1>1. Init => Promised
  <2> SUFFICES ASSUME Init PROVE Promised
      OBVIOUS
  <2>1. /\ state = "starting" /\ ~torn
        /\ \A t \in Threads : pc[t] \in {"m_boot", "idle"}
    BY DEF Init
  <2>2. QED
    BY <2>1
       DEF Promised, PromisedAt, ImagedAt, FallbackAt, RestoredAt, ImageAt,
           ResumeAt
<1>2. Promised => CheckpointedHasImage
  BY DEF Promised, WholeOrAdopted, CheckpointedHasImage, AtRest
<1>3. Inv /\ Alone /\ Service /\ Promised /\ [Next]_vars => Promised'
  BY NextPromised
<1>4. QED
  BY <1>1, <1>2, <1>3, ServiceInvariance, PTL DEF Spec

(***************************************************************************)
(* No image behind a running service                                       *)
(***************************************************************************)
\* Where the slot is empty: in a suspend until it has published its image, and
\* in a resume once the image is consumed or archived.
EmptiedAt == (SuspendAt \ {"s_commit", "s_done"})
               \cup {"r_running", "r_start", "r_wait"}

ShownAt(p) ==
  /\ p \in EmptiedAt => slot = NoTree
  /\ p \in {"s_dump", "s_publish"} => state # "running"

\* The inductive invariant behind ImageNotHidden, for a container that was
\* never killed: main() has found no image.
Shown ==
  /\ slot # NoTree => state # "running"
  /\ pc[Main] \in BootAt \cup {"serving", "exited"}
  /\ pc[Main] \in BootAt => slot = NoTree
  /\ \A t \in Threads : ShownAt(pc[t])

\* A step of an operation has to be looked at for its own thread only.
LEMMA ShownByMover ==
  ASSUME Inv, Shown, NEW t \in Threads, Moves(t), ShownAt(pc[t])',
         slot' # NoTree => state' # "running"
  PROVE  Shown'
<1>1. t # Main
  BY DEF Shown, Moves, InOp, BootAt, SuspendAt, ResumeAt
<1>2. pc'[Main] = "serving" /\ Main \in Threads
  BY <1>1, OthersOut
     DEF Inv, ServesLast, Shown, Moves, InOp, SuspendAt, ResumeAt
<1>3. ASSUME NEW u \in Threads, u # t PROVE ShownAt(pc[u])'
  BY <1>3, OthersOut DEF ShownAt, EmptiedAt, SuspendAt, ResumeAt
<1>4. QED
  BY <1>2, <1>3 DEF Shown, BootAt

\* checkpoint_vllm has said "checkpointing" before it publishes an image.
LEMMA SuspendShown ==
  ASSUME Inv, Shown, NEW h \in Handlers, SuspendStep(h)
  PROVE  Shown'
<1>1. /\ Moves(h) /\ h # Main
      /\ pc \in [Threads -> Positions]
      /\ ShownAt(pc[h])
      /\ slot # NoTree => state # "running"
  BY SuspendMoves, ThreadsAssumption DEF Inv, TypeOK, LauncherOK, Shown
<1>2. /\ ShownAt(pc[h])'
      /\ slot' # NoTree => state' # "running"
  BY <1>1
     DEF SuspendStep, SuspendChecks, SuspendRefused, Sleep, SleepTimesOut,
         Prepare, TerminateTrackers, CudaLock, CudaSave, CriuDump, Publish,
         Commit, SuspendThrows, SuspendFault, SuspendCleansUp, Rollback,
         WakeLevel2, SuspendResets, SuspendFinally, Goto, ShownAt, EmptiedAt,
         BootAt, SuspendAt, imageVars
<1>3. QED
  BY <1>1, <1>2, ShownByMover

\* restore_vllm says "running" when the image is gone.
LEMMA ResumeShown ==
  ASSUME Inv, Shown, NEW t \in Threads, ResumeStep(t)
  PROVE  Shown'
<1>1. /\ Moves(t) /\ pc[t] \in ResumeAt
      /\ pc \in [Threads -> Positions]
      /\ ShownAt(pc[t])
      /\ slot # NoTree => state # "running"
      /\ t # Main
  BY ResumeMoves, ResumeFrom
     DEF Inv, TypeOK, LauncherOK, Shown, ResumeAt, BootAt
<1>2. /\ ShownAt(pc[t])'
      /\ slot' # NoTree => state' # "running"
  BY <1>1
     DEF ResumeStep, ResumeChecks, MarkPending, CriuRestore, CudaRestore,
         MarkRequest, Adopt, RemoveBegins, RemoveEnds, ResumeCommits,
         ResumeThrows, ResumeCleansUp, ArchiveFailed, FallbackStarts,
         FallbackReady, FallbackTimesOut, FallbackFails, ResumeGivesUp,
         ResumeFinally, ResumeLosesLock, StartVllm, Outcome, Goto, ShownAt,
         EmptiedAt, BootAt, SuspendAt, imageVars
<1>3. QED
  BY <1>1, <1>2, ShownByMover

\* So does every step.
LEMMA NextShown ==
  ASSUME ~Stray, MaxCrashes = 0
  PROVE  Inv /\ Shown /\ [Next]_vars => Shown'
<1> SUFFICES ASSUME Inv, Shown, [Next]_vars PROVE Shown'
    OBVIOUS
<1>1. ASSUME UNCHANGED <<pc, slot>>, state' \in {state, "stopped"}
      PROVE  Shown'
  BY <1>1 DEF Shown, ShownAt
<1>2. CASE BootStep
  <2>1. /\ pc \in [Threads -> Positions] /\ slot = NoTree /\ slot' = slot
        /\ pc'[Main] \in {"m_start", "m_reap", "serving", "exited"}
        /\ \A h \in Handlers : pc'[h] = "idle"
    BY <1>2, ThreadsAssumption
       DEF Inv, TypeOK, LauncherOK, ServesLast, Shown, ShownAt, EmptiedAt,
           BootAt, BootStep, Boot, BootStarts, BootServes, BootFails,
           StartVllm, Goto, imageVars
  <2>2. QED
    BY <2>1 DEF Shown, ShownAt, EmptiedAt, BootAt, SuspendAt
<1>3. ASSUME NEW h \in Handlers, Request(h) \/ Reply(h) PROVE Shown'
  <2>1. /\ UNCHANGED <<state, slot>> /\ h # Main
        /\ \A u \in Threads : u # h => pc'[u] = pc[u]
        /\ \/ pc'[h] \in {"idle", "busy", "r_check"}
           \/ pc'[h] = "s_check" /\ state = "running"
    BY <1>3, RequestEffect DEF MaySuspend, imageVars
  <2>2. ShownAt(pc[h])'
    BY <2>1 DEF Shown, ShownAt, EmptiedAt, BootAt, SuspendAt
  <2>3. QED
    BY <2>1, <2>2 DEF Shown, ShownAt
<1>4. ASSUME NEW t \in Threads, Ask(t) PROVE Shown'
  <2>1. /\ Moves(t) /\ UNCHANGED <<state, slot>>
        /\ pc[t] \in DOMAIN Answered /\ pc'[t] = Answered[pc[t]]
        /\ ShownAt(pc[t])
    BY <1>4, AskMoves DEF Ask, Inv, Shown, imageVars
  <2>2. ShownAt(pc[t])'
    BY <2>1 DEF Answered, ShownAt, EmptiedAt, BootAt, SuspendAt
  <2>3. QED
    BY <2>1, <2>2, ShownByMover DEF Shown
<1>5. CASE \/ \E r \in reapers : ReaperStep(r)
           \/ \E x \in Trees : EngineStep(x)
           \/ World /\ ~Crash
  BY <1>1, <1>5, OtherStepsFrame, OtherStepsState DEF World
<1>6. CASE Crash
  BY <1>6 DEF Crash, Inv, TypeOK, RestOK
<1>7. CASE UNCHANGED vars
  BY <1>1, <1>7 DEF vars, imageVars
<1>8. QED
  BY <1>2, <1>3, <1>4, <1>5, <1>6, <1>7, SuspendShown, ResumeShown
     DEF Next, World

\* With clients that heed the state and a container that is never killed, a
\* launcher that says "running" hides no image from them, which only a resume
\* could bring back (launcher.py:296-297, 326-334, 345, 417-420, 442-455).
THEOREM NoImageHidden ==
  ASSUME ~Stray, MaxCrashes = 0
  PROVE  Spec => []ImageNotHidden
<1>1. Init => Shown
  <2> SUFFICES ASSUME Init PROVE Shown
      OBVIOUS
  <2>1. /\ slot = NoTree /\ pc[Main] = "m_boot" /\ state = "starting"
        /\ \A t \in Threads : pc[t] \in {"m_boot", "idle"}
    BY ThreadsAssumption DEF Init
  <2>2. QED
    BY <2>1 DEF Shown, ShownAt, EmptiedAt, BootAt
<1>2. Shown => ImageNotHidden
  BY DEF Shown, ImageNotHidden
<1>3. QED
  BY <1>1, <1>2, InitInv, NextInv, NextShown, PTL DEF Spec

=============================================================================
