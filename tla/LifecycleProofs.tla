--------------------------- MODULE LifecycleProofs ---------------------------
(***************************************************************************)
(* Proofs that the launcher runs one vLLM at a time and implements the     *)
(* abstract lifecycle, when its clients heed the state it reports: for any *)
(* number of handlers and trees, any settings, faults and crashes.         *)
(***************************************************************************)
EXTENDS LauncherProofs, FiniteSetTheorems

USE DEF launcherVars, stillVars, quietVars, diskVars, Threads, TreeStates

IsUp(s)   == s \in {"live", "stopping"}
None      == \A x \in Trees : ~IsUp(tree[x])
Only(y)   == \A x \in Trees : IsUp(tree[x]) => x = y
AtMostOne == \A x, y \in Trees : IsUp(tree[x]) /\ IsUp(tree[y]) => x = y

\* Where in an operation no tree is up, where only the one of the resume may
\* be, where a suspend has its tree and an empty slot, and where the image is
\* the one that the resume has restored.
NoneAt  == {"r_check", "r_tools", "r_criu", "r_archive", "r_start", "r_giveup",
            "r_raise", "s_publish", "s_commit", "s_done"}
MineAt  == RestoredAt \cup {"r_except"}
EmptyAt == {"s_find", "s_sleep", "s_prepare", "s_trackers", "s_lock", "s_save",
            "s_dump", "s_publish"}
HoldAt  == RestoredAt \ {"r_running"}

\* What the position p of a thread says about the trees and the image.
Where(p) ==
  /\ p \in NoneAt => None
  /\ p \in MineAt => Only(opTree)
  /\ p = "r_wait" => Only(handle)
  /\ p \in ImageAt => state # "checkpointed"
  /\ p \in EmptyAt => slot = NoTree /\ opTree \in Trees
  /\ p \in HoldAt => slot = opTree

\* The inductive invariant behind OneTree.  Clients may post a resume when the
\* state is "checkpointed", and main() starts a process: then none may be up.
\* None is when main() has ended, as it does when it cannot start one.
Calm ==
  /\ AtMostOne
  /\ state = "checkpointed" \/ pc[Main] \in {"m_boot", "m_start", "exited"}
       => None
  /\ \A t \in Threads : Where(pc[t])

\* All of that ends where a resume has lost the lock; no boot begins so.
Service == /\ pc[Main] = "m_boot" => lock # Lost
           /\ lock # Lost => Calm

(***************************************************************************)
(* Lemmas                                                                  *)
(***************************************************************************)
\* A step that starts no tree keeps what is said about live ones.
LEMMA NoneStartedKeeps ==
  ASSUME NoneStarted
  PROVE  /\ None => None'
         /\ AtMostOne => AtMostOne'
         /\ Only(opTree) /\ opTree' = opTree => Only(opTree)'
         /\ Only(handle) /\ handle' = handle => Only(handle)'
  BY DEF NoneStarted, None, AtMostOne, Only, IsUp

\* Only positions within an operation say anything.
LEMMA WhereInOp ==
  ASSUME NEW p, p \notin SuspendAt \cup ResumeAt
  PROVE  Where(p)
  BY DEF Where, NoneAt, MineAt, EmptyAt, HoldAt, ImageAt, RestoredAt,
         SuspendAt, ResumeAt

\* A step of an operation has to be looked at for its own thread only.
LEMMA CalmByMover ==
  ASSUME Inv, Calm, NEW t \in Threads, Moves(t),
         /\ AtMostOne'
         /\ state' = "checkpointed" => None'
         /\ t = Main /\ pc'[t] = "m_start" => None'
         /\ Where(pc[t])'
  PROVE  Calm'
<1>1. /\ pc \in [Threads -> Positions] /\ Main \in Threads
      /\ Main \notin Handlers
  BY ThreadsAssumption DEF Inv, TypeOK, LauncherOK
<1>2. ASSUME NEW u \in Threads, u # t PROVE Where(pc[u])'
  <2>1. pc'[u] \notin SuspendAt \cup ResumeAt
    BY <1>1, <1>2, OthersRest DEF Moves, InOp
  <2>2. QED
    BY <2>1 DEF Where, NoneAt, MineAt, EmptyAt, HoldAt, ImageAt, RestoredAt,
                SuspendAt, ResumeAt
<1>3. pc'[Main] \in {"m_boot", "m_start", "exited"} => None'
  <2>1. CASE t = Main
    BY <2>1, <1>1 DEF Moves, InOp, SuspendAt, ResumeAt
  <2>2. CASE t \in Handlers
    <3>1. pc[Main] = "serving"
      BY <2>2, <1>1 DEF Inv, ServesLast, Moves, InOp, SuspendAt, ResumeAt
    <3>2. pc'[Main] = "serving"
      BY <2>2, <1>1, <3>1 DEF Moves
    <3>3. QED
      BY <3>2
  <2>3. QED
    BY <2>1, <2>2
<1>4. QED
  BY <1>2, <1>3 DEF Calm

(***************************************************************************)
(* Every step preserves the invariant                                      *)
(***************************************************************************)
\* checkpoint_vllm preserves it: the dump has killed the only live tree.
LEMMA SuspendCalm ==
  ASSUME Inv, Calm, NEW h \in Handlers, SuspendStep(h)
  PROVE  Calm'
<1> DEFINE Leads == /\ state' = "checkpointed" => None'
                    /\ Where(pc[h])'
<1>1. /\ Moves(h) /\ h \in Threads /\ h # Main /\ NoneStarted
      /\ pc \in [Threads -> Positions]
      /\ tree \in [Trees -> TreeStates]
  BY SuspendMoves, SuspendStartsNone, ThreadsAssumption
     DEF Inv, TypeOK, LauncherOK, TreeOK
<1>2. /\ AtMostOne /\ AtMostOne'
      /\ None => None'
      /\ state = "checkpointed" => None
      /\ pc[h] \in NoneAt => None
      /\ pc[h] \in EmptyAt => slot = NoTree /\ opTree \in Trees
  BY <1>1, NoneStartedKeeps DEF Calm, Where
<1> USE DEF Goto, Where, NoneAt, MineAt, EmptyAt, HoldAt, ImageAt, RestoredAt
<1>3. ASSUME SuspendChecks(h) PROVE Leads
  <2>1. handle \in Trees
    BY <1>3 DEF SuspendChecks, PollsAlive, InProc, Up, Leaving
  <2>2. QED
    BY <1>1, <1>2, <1>3, <2>1 DEF SuspendChecks
<1>4. ASSUME SuspendRefused(h) PROVE Leads
  BY <1>1, <1>2, <1>4
     DEF SuspendRefused, opVars, imageVars
<1>5. ASSUME Sleep(h) PROVE Leads
  BY <1>1, <1>2, <1>5
     DEF Sleep, opVars, imageVars
<1>6. ASSUME SleepTimesOut(h) PROVE Leads
  BY <1>1, <1>2, <1>6
     DEF SleepTimesOut, opVars, imageVars
<1>7. ASSUME Prepare(h) PROVE Leads
  BY <1>1, <1>2, <1>7
     DEF Prepare, opVars, imageVars
<1>8. ASSUME TerminateTrackers(h) PROVE Leads
  BY <1>1, <1>2, <1>8
     DEF TerminateTrackers, opVars, imageVars
<1>9. ASSUME CudaLock(h) PROVE Leads
  BY <1>1, <1>2, <1>9
     DEF CudaLock, opVars, imageVars
<1>10. ASSUME CudaSave(h) PROVE Leads
  BY <1>1, <1>2, <1>10
     DEF CudaSave, opVars, imageVars
<1>11. ASSUME CriuDump(h) PROVE Leads
  <2>1. None'
    BY <1>1, <1>2, <1>11 DEF CriuDump, Live, AtMostOne, None, IsUp
  <2>2. QED
    BY <1>1, <1>2, <1>11, <2>1 DEF CriuDump, opVars
<1>12. ASSUME Publish(h) PROVE Leads
  BY <1>1, <1>2, <1>12
     DEF Publish, opVars, imageVars
<1>13. ASSUME Commit(h) PROVE Leads
  BY <1>1, <1>2, <1>13
     DEF Commit, opVars, imageVars
<1>14. ASSUME SuspendThrows(h) PROVE Leads
  BY <1>1, <1>2, <1>14
     DEF SuspendThrows, SuspendFault, opVars, imageVars
<1>15. ASSUME SuspendCleansUp(h) PROVE Leads
  BY <1>1, <1>2, <1>15
     DEF SuspendCleansUp, opVars, imageVars
<1>16. ASSUME Rollback(h) PROVE Leads
  BY <1>1, <1>2, <1>16
     DEF Rollback, opVars, imageVars
<1>17. ASSUME WakeLevel2(h) PROVE Leads
  BY <1>1, <1>2, <1>17
     DEF WakeLevel2, opVars, imageVars
<1>18. ASSUME SuspendResets(h) PROVE Leads
  BY <1>1, <1>2, <1>18
     DEF SuspendResets, opVars, imageVars
<1>19. ASSUME SuspendFinally(h) PROVE Leads
  BY <1>1, <1>2, <1>19
     DEF SuspendFinally, opVars, imageVars
<1>20. Leads
  BY <1>3, <1>4, <1>5, <1>6, <1>7, <1>8, <1>9, <1>10, <1>11, <1>12, <1>13,
     <1>14, <1>15, <1>16, <1>17, <1>18, <1>19
     DEF SuspendStep
<1>21. QED
  BY <1>1, <1>2, <1>20, CalmByMover

\* restore_vllm preserves it: it starts a process only where none is live.
LEMMA ResumeCalm ==
  ASSUME Inv, Calm, NEW t \in Threads, ResumeStep(t), ~ResumeLosesLock(t)
  PROVE  Calm'
<1> DEFINE Leads == /\ AtMostOne'
                    /\ state' = "checkpointed" => None'
                    /\ t = Main /\ pc'[t] = "m_start" => None'
                    /\ Where(pc[t])'
<1>1. /\ Moves(t)
      /\ pc \in [Threads -> Positions]
      /\ tree \in [Trees -> TreeStates]
      /\ slot \in Trees \cup {NoTree}
  BY ResumeMoves DEF Inv, TypeOK, LauncherOK, TreeOK, ImageOK
<1>2. /\ AtMostOne
      /\ state = "checkpointed" => None
      /\ Where(pc[t])
  BY DEF Calm
<1>3. NoneStarted => /\ None => None'
                     /\ AtMostOne'
                     /\ Only(opTree) /\ opTree' = opTree => Only(opTree)'
                     /\ Only(handle) /\ handle' = handle => Only(handle)'
  BY <1>2, NoneStartedKeeps
<1>4. CriuRestore(t) \/ FallbackStarts(t) \/ NoneStarted
  BY ResumeStartsNone DEF Inv
<1> USE DEF Goto, Where, NoneAt, MineAt, EmptyAt, HoldAt, ImageAt, RestoredAt
<1>5. ASSUME ResumeChecks(t) PROVE Leads
  <2>1. NoneStarted
    BY <1>4, <1>5 DEF ResumeChecks, CriuRestore, FallbackStarts
  <2>2. QED
    BY <1>1, <1>2, <1>3, <1>5, <2>1
       DEF ResumeChecks, opVars, imageVars, handleVars
<1>6. ASSUME MarkPending(t) PROVE Leads
  <2>1. NoneStarted
    BY <1>4, <1>6 DEF MarkPending, CriuRestore, FallbackStarts
  <2>2. QED
    BY <1>1, <1>2, <1>3, <1>6, <2>1
       DEF MarkPending, opVars, imageVars, handleVars
<1>7. ASSUME CriuRestore(t) PROVE Leads
  <2>1. /\ None /\ slot \in Trees
        /\ tree' = [tree EXCEPT ![slot] = "live"] /\ opTree' = slot
    BY <1>1, <1>2, <1>7, PlacedAt DEF CriuRestore, Inv
  <2>2. Only(opTree)' /\ AtMostOne'
    BY <1>1, <2>1 DEF None, Only, AtMostOne, IsUp
  <2>3. QED
    BY <1>1, <1>2, <1>7, <2>1, <2>2 DEF CriuRestore, imageVars
<1>8. ASSUME CudaRestore(t) PROVE Leads
  <2>1. NoneStarted
    BY <1>4, <1>8 DEF CudaRestore, CriuRestore, FallbackStarts
  <2>2. QED
    BY <1>1, <1>2, <1>3, <1>8, <2>1
       DEF CudaRestore, opVars, imageVars, handleVars
<1>9. ASSUME MarkRequest(t) PROVE Leads
  <2>1. NoneStarted
    BY <1>4, <1>9 DEF MarkRequest, CriuRestore, FallbackStarts
  <2>2. QED
    BY <1>1, <1>2, <1>3, <1>9, <2>1
       DEF MarkRequest, opVars, imageVars, handleVars
<1>10. ASSUME Adopt(t) PROVE Leads
  <2>1. NoneStarted
    BY <1>4, <1>10 DEF Adopt, CriuRestore, FallbackStarts
  <2>2. QED
    BY <1>1, <1>2, <1>3, <1>10, <2>1
       DEF Adopt, opVars, imageVars, handleVars
<1>11. ASSUME RemoveBegins(t) PROVE Leads
  <2>1. NoneStarted
    BY <1>4, <1>11 DEF RemoveBegins, CriuRestore, FallbackStarts
  <2>2. QED
    BY <1>1, <1>2, <1>3, <1>11, <2>1
       DEF RemoveBegins, opVars, imageVars, handleVars
<1>12. ASSUME RemoveEnds(t) PROVE Leads
  <2>1. NoneStarted
    BY <1>4, <1>12 DEF RemoveEnds, CriuRestore, FallbackStarts
  <2>2. QED
    BY <1>1, <1>2, <1>3, <1>12, <2>1
       DEF RemoveEnds, opVars, imageVars, handleVars
<1>13. ASSUME ResumeCommits(t) PROVE Leads
  <2>1. NoneStarted
    BY <1>4, <1>13 DEF ResumeCommits, CriuRestore, FallbackStarts
  <2>2. QED
    BY <1>1, <1>2, <1>3, <1>13, <2>1
       DEF ResumeCommits, opVars, imageVars, handleVars
<1>14. ASSUME ResumeThrows(t) PROVE Leads
  <2>1. NoneStarted
    BY <1>14, UnchangedStartsNone DEF ResumeThrows, treeVars
  <2>2. QED
    BY <1>1, <1>2, <1>3, <1>14, <2>1
       DEF ResumeThrows, opVars, imageVars, handleVars, ResumeFault, None,
        Only
<1>15. ASSUME ResumeCleansUp(t) PROVE Leads
  <2>1. None'
    BY <1>1, <1>2, <1>15
       DEF ResumeCleansUp, TerminateRestored, Reaped, InProc, None, Only, IsUp
  <2>2. NoneStarted
    BY <1>4, <1>15 DEF ResumeCleansUp, CriuRestore, FallbackStarts
  <2>3. QED
    BY <1>1, <1>2, <1>3, <1>15, <2>1, <2>2 DEF ResumeCleansUp
<1>16. ASSUME ArchiveFailed(t) PROVE Leads
  <2>1. NoneStarted
    BY <1>4, <1>16 DEF ArchiveFailed, CriuRestore, FallbackStarts
  <2>2. QED
    BY <1>1, <1>2, <1>3, <1>16, <2>1
       DEF ArchiveFailed, opVars, imageVars, handleVars
<1>17. ASSUME FallbackStarts(t) PROVE Leads
  <2>1. /\ None /\ NewTree \in Trees
        /\ tree' = [tree EXCEPT ![NewTree] = "live"] /\ handle' = NewTree
    BY <1>1, <1>2, <1>17, NewTreeUnused DEF FallbackStarts, StartVllm, Unused
  <2>2. Only(handle)' /\ AtMostOne'
    BY <1>1, <2>1 DEF None, Only, AtMostOne, IsUp
  <2>3. QED
    BY <1>1, <1>2, <1>17, <2>2 DEF FallbackStarts, StartVllm
<1>18. ASSUME FallbackReady(t) PROVE Leads
  <2>1. NoneStarted
    BY <1>4, <1>18 DEF FallbackReady, CriuRestore, FallbackStarts
  <2>2. QED
    BY <1>1, <1>2, <1>3, <1>18, <2>1
       DEF FallbackReady, opVars, imageVars, handleVars
<1>19. ASSUME FallbackTimesOut(t) PROVE Leads
  <2>1. None'
    BY <1>1, <1>2, <1>19 DEF FallbackTimesOut, Up, None, Only, IsUp
  <2>2. NoneStarted
    BY <1>4, <1>19 DEF FallbackTimesOut, CriuRestore, FallbackStarts
  <2>3. QED
    BY <1>1, <1>2, <1>3, <1>19, <2>1, <2>2 DEF FallbackTimesOut
<1>20. ASSUME FallbackFails(t) PROVE Leads
  <2>1. NoneStarted
    BY <1>20, UnchangedStartsNone DEF FallbackFails, treeVars
  <2>2. QED
    BY <1>1, <1>2, <1>3, <1>20, <2>1
       DEF FallbackFails, opVars, imageVars, handleVars
<1>21. ASSUME ResumeGivesUp(t) PROVE Leads
  <2>1. NoneStarted
    BY <1>4, <1>21 DEF ResumeGivesUp, CriuRestore, FallbackStarts
  <2>2. QED
    BY <1>1, <1>2, <1>3, <1>21, <2>1
       DEF ResumeGivesUp, opVars, imageVars, handleVars
<1>22. ASSUME ResumeFinally(t) PROVE Leads
  <2>1. NoneStarted
    BY <1>4, <1>22 DEF ResumeFinally, CriuRestore, FallbackStarts
  <2>2. QED
    BY <1>1, <1>2, <1>3, <1>22, <2>1
       DEF ResumeFinally, opVars, imageVars, handleVars, Outcome
<1>23. Leads
  BY <1>5, <1>6, <1>7, <1>8, <1>9, <1>10, <1>11, <1>12, <1>13, <1>14,
     <1>15, <1>16, <1>17, <1>18, <1>19, <1>20, <1>21, <1>22
     DEF ResumeStep
<1>24. QED
  BY <1>1, <1>23, CalmByMover DEF Inv

\* The main thread preserves it: it starts a process where none is live.
LEMMA BootCalm ==
  ASSUME Inv, Calm, BootStep
  PROVE  Calm'
<1>1. /\ pc \in [Threads -> Positions] /\ Main \in Threads
      /\ Main \notin Handlers
      /\ tree \in [Trees -> TreeStates]
  BY ThreadsAssumption DEF Inv, TypeOK, LauncherOK, TreeOK
<1>2. \A h \in Handlers : pc'[h] = "idle"
  BY <1>1
     DEF BootStep, Boot, BootStarts, BootServes, BootFails, Inv, ServesLast,
         Goto
<1>3. \A h \in Handlers : Where(pc[h])'
  <2>1. "idle" \notin SuspendAt \cup ResumeAt
    BY DEF SuspendAt, ResumeAt
  <2>2. QED
    BY <1>2, <2>1
       DEF Where, NoneAt, MineAt, EmptyAt, HoldAt, ImageAt, RestoredAt
<1>4. AtMostOne
  BY DEF Calm
<1>5. CASE Boot
  <2>1. None /\ UNCHANGED tree
    BY <1>5 DEF Boot, Calm, treeVars
  <2>2. None' /\ AtMostOne'
    BY <1>4, <2>1 DEF None, AtMostOne, IsUp
  <2>3. Where(pc[Main])'
    BY <1>1, <1>5, <2>2
       DEF Boot, Goto, Where, NoneAt, MineAt, EmptyAt, HoldAt, ImageAt,
           RestoredAt
  <2>4. QED
    BY <1>3, <2>2, <2>3 DEF Calm
<1>6. CASE BootStarts
  <2>1. None /\ NewTree \in Trees /\ tree' = [tree EXCEPT ![NewTree] = "live"]
    BY <1>6, NewTreeUnused DEF BootStarts, StartVllm, Calm, Unused
  <2>2. AtMostOne'
    BY <1>1, <2>1 DEF None, AtMostOne, IsUp
  <2>3. pc'[Main] = "m_reap" /\ state' = "running"
    BY <1>1, <1>6 DEF BootStarts, StartVllm, Goto
  <2>4. Where(pc[Main])'
    BY <2>3 DEF Where, NoneAt, MineAt, EmptyAt, HoldAt, ImageAt, RestoredAt
  <2>5. QED
    BY <1>3, <2>2, <2>3, <2>4 DEF Calm
<1>7. CASE BootServes \/ BootFails
  <2>1. /\ UNCHANGED <<tree, state>> /\ pc'[Main] \in {"serving", "exited"}
        /\ pc'[Main] = "exited" => pc[Main] \in {"m_boot", "m_start"}
    BY <1>1, <1>7 DEF BootServes, BootFails, Goto, treeVars
  <2>2. AtMostOne' /\ (None => None')
    BY <1>4, <2>1 DEF None, AtMostOne, IsUp
  <2>3. Where(pc[Main])'
    BY <2>1 DEF Where, NoneAt, MineAt, EmptyAt, HoldAt, ImageAt, RestoredAt
  <2>4. QED
    BY <1>3, <2>1, <2>2, <2>3 DEF Calm
<1>8. QED
  BY <1>5, <1>6, <1>7 DEF BootStep

\* Requests and replies preserve it: only a client that does not heed the state
\* can post a resume beside a live process.
LEMMA RequestCalm ==
  ASSUME ~Stray, Inv, Calm, NEW h \in Handlers, Request(h) \/ Reply(h)
  PROVE  Calm'
<1>1. /\ pc \in [Threads -> Positions] /\ h \in Threads /\ h # Main
      /\ Main \in Threads
  BY ThreadsAssumption DEF Inv, TypeOK, LauncherOK
<1>2. /\ UNCHANGED <<state, tree, slot, opTree, handle>>
      /\ pc' = [pc EXCEPT ![h] = pc'[h]]
      /\ \/ pc'[h] \in {"s_check", "busy", "idle"}
         \/ pc'[h] = "r_check" /\ state = "checkpointed"
  BY <1>1
     DEF Request, Suspend, Resume, Begin, Busy, Reply, Goto, MayResume,
         opVars, handleVars, imageVars, treeVars
<1>3. /\ AtMostOne' /\ (None => None')
      /\ \A p : Where(p) => Where(p)'
  BY <1>2 DEF Calm, AtMostOne, None, Only, Where, IsUp
<1>4. Where(pc[h])'
  BY <1>2, <1>3
     DEF Calm, Where, NoneAt, MineAt, EmptyAt, HoldAt, ImageAt, RestoredAt
<1>5. \A u \in Threads : pc'[u] = pc[u] \/ u = h
  BY <1>1, <1>2
<1>6. \A u \in Threads : Where(pc[u])'
  <2>1. ASSUME NEW u \in Threads, u # h PROVE Where(pc[u])'
    BY <1>3, <1>5, <2>1 DEF Calm, Where
  <2>2. QED
    BY <1>4, <2>1
<1>7. QED
  BY <1>1, <1>2, <1>3, <1>5, <1>6 DEF Calm

\* The status poll preserves it.
LEMMA AskCalm ==
  ASSUME Inv, Calm, NEW t \in Threads, Ask(t)
  PROVE  Calm'
<1>1. /\ Moves(t) /\ pc'[t] = Answered[pc[t]] /\ pc[t] \in DOMAIN Answered
      /\ UNCHANGED <<state, tree, slot, opTree, handle>>
  BY AskMoves DEF Ask, Inv, opVars, handleVars, imageVars, treeVars
<1>2. /\ AtMostOne' /\ (None => None') /\ (Only(opTree) => Only(opTree)')
  BY <1>1 DEF Calm, AtMostOne, None, Only, IsUp
<1>3. /\ pc'[t] \notin NoneAt \cup ImageAt \cup {"r_wait", "m_start"}
      /\ pc'[t] \in MineAt => pc[t] \in MineAt
      /\ pc'[t] \in EmptyAt => pc[t] \in EmptyAt
      /\ pc'[t] \in HoldAt => pc[t] \in HoldAt
  BY <1>1
     DEF Answered, NoneAt, MineAt, EmptyAt, HoldAt, ImageAt, RestoredAt
<1>4. Where(pc[t])'
  BY <1>1, <1>2, <1>3 DEF Calm, Where
<1>5. QED
  BY <1>1, <1>2, <1>3, <1>4, CalmByMover DEF Calm

\* A step that starts nothing and leaves the threads and the image alone.
LEMMA FrameCalm ==
  ASSUME Calm, NoneStarted, UNCHANGED <<pc, slot, opTree, handle>>,
         state' \in {state, "stopped"}
  PROVE  Calm'
<1>1. /\ None => None'
      /\ AtMostOne'
      /\ Only(opTree) => Only(opTree)'
      /\ Only(handle) => Only(handle)'
  BY NoneStartedKeeps DEF Calm
<1>2. \A t \in Threads : Where(pc[t])'
  BY <1>1 DEF Calm, Where
<1>3. QED
  BY <1>1, <1>2 DEF Calm

\* A crash leaves no process.
LEMMA CrashCalm == Crash => Calm'
<1> SUFFICES ASSUME Crash PROVE Calm'
    OBVIOUS
<1>1. None' /\ AtMostOne'
  BY DEF Crash, None, AtMostOne, IsUp
<1>2. \A t \in Threads : pc'[t] \in {"m_boot", "idle"}
  BY DEF Crash
<1>3. QED
  BY <1>1, <1>2
     DEF Calm, Where, NoneAt, MineAt, EmptyAt, HoldAt, ImageAt, RestoredAt

\* Reapers, engines and the world leave the state alone or stop it.
LEMMA OtherStepsState ==
  ASSUME \/ \E r \in reapers : ReaperStep(r)
         \/ \E x \in Trees : EngineStep(x) \/ TreeDies(x) \/ TreeStops(x)
         \/ ForwardSignal
  PROVE  state' \in {state, "stopped"}
  BY DEF ReaperStep, ReaperWaits, ReaperReads, ReaperSets, EngineStep,
         EngineRestoreBegins, EngineRestoreDone, EngineRestoreFails, TreeDies,
         TreeStops, ForwardSignal

\* Calm holds initially.
LEMMA InitCalm == Init => Calm
<1> SUFFICES ASSUME Init PROVE Calm
    OBVIOUS
<1>1. None /\ AtMostOne
  BY DEF Init, None, AtMostOne, IsUp
<1>2. \A t \in Threads : pc[t] \in {"m_boot", "idle"}
  BY DEF Init
<1>3. QED
  BY <1>1, <1>2
     DEF Calm, Where, NoneAt, MineAt, EmptyAt, HoldAt, ImageAt, RestoredAt

\* Every step but the one that loses the lock preserves it.
LEMMA NextCalm ==
  ASSUME ~Stray, Inv, Calm, [Next]_vars,
         \A t \in Threads : ~ResumeLosesLock(t)
  PROVE  Calm'
<1>1. TypeOK
  BY DEF Inv
<1>2. CASE UNCHANGED vars
  <2>1. UNCHANGED <<tree, pc, slot, opTree, handle, state>>
    BY <1>2 DEF vars, treeVars, opVars, imageVars, handleVars
  <2>2. QED
    BY <2>1, UnchangedStartsNone, FrameCalm
<1>3. CASE BootStep
  BY <1>3, BootCalm
<1>4. ASSUME NEW h \in Handlers, Request(h) \/ Reply(h) \/ SuspendStep(h)
      PROVE  Calm'
  BY <1>4, RequestCalm, SuspendCalm
<1>5. ASSUME NEW t \in Threads, Ask(t) \/ ResumeStep(t) PROVE Calm'
  BY <1>5, AskCalm, ResumeCalm
<1>6. CASE \/ \E r \in reapers : ReaperStep(r)
           \/ \E x \in Trees : EngineStep(x)
  BY <1>1, <1>6, OtherStepsFrame, OtherStepsState, OtherStepsStartNone,
     FrameCalm
<1>7. CASE World
  <2>1. CASE Crash
    BY <2>1, CrashCalm
  <2>2. CASE ~Crash
    BY <1>1, <1>7, <2>2, OtherStepsFrame, OtherStepsState,
       OtherStepsStartNone, FrameCalm
       DEF World
  <2>3. QED
    BY <2>1, <2>2
<1>8. QED
  BY <1>2, <1>3, <1>4, <1>5, <1>6, <1>7 DEF Next

\* Only a crash gives a lost lock back, and only a crash leads to a boot.
LEMMA LostStays ==
  ASSUME Inv, [Next]_vars, ~Crash
  PROVE  /\ pc'[Main] = "m_boot" => pc[Main] = "m_boot" /\ lock' = lock
         /\ lock = Lost => pc[Main] = "m_boot" \/ lock' = Lost
<1>1. /\ pc \in [Threads -> Positions] /\ Main \in Threads
      /\ Main \notin Handlers /\ Lost # NoThread
      /\ Lost \notin Threads
  BY ThreadsAssumption DEF Inv, TypeOK, LauncherOK
<1>2. CASE UNCHANGED vars
  BY <1>2 DEF vars
<1>3. CASE BootStep
  BY <1>1, <1>3 DEF BootStep, Boot, BootStarts, BootServes, BootFails, Goto
<1>4. ASSUME NEW h \in Handlers, Request(h) \/ Reply(h)
      PROVE  /\ pc'[Main] = "m_boot" => pc[Main] = "m_boot" /\ lock' = lock
             /\ lock = Lost => pc[Main] = "m_boot" \/ lock' = Lost
  <2>1. CASE Request(h)
    BY <1>1, <2>1
       DEF Request, Suspend, Resume, Begin, Busy, Accept, Goto
  <2>2. CASE Reply(h)
    BY <1>1, <2>2 DEF Reply, Goto
  <2>3. QED
    BY <1>4, <2>1, <2>2
<1>5. ASSUME NEW t \in Threads, Moves(t)
      PROVE  /\ pc'[Main] = "m_boot" => pc[Main] = "m_boot" /\ lock' = lock
             /\ lock = Lost => pc[Main] = "m_boot" \/ lock' = Lost
  <2>1. lock = t
    BY <1>5 DEF Moves, Inv, LockOwned
  <2>2. pc'[Main] # "m_boot"
    <3>1. CASE t = Main
      BY <1>1, <1>5, <3>1 DEF Moves, InOp, SuspendAt, ResumeAt
    <3>2. CASE t \in Handlers
      BY <1>1, <1>5, <3>2
         DEF Inv, ServesLast, Moves, InOp, SuspendAt, ResumeAt
    <3>3. QED
      BY <3>1, <3>2
  <2>3. QED
    BY <1>1, <2>1, <2>2
<1>6. CASE \/ \E r \in reapers : ReaperStep(r)
           \/ \E x \in Trees : EngineStep(x)
           \/ World
  BY <1>6, OtherStepsFrame DEF World
<1>7. QED
  BY <1>2, <1>3, <1>4, <1>5, <1>6, SuspendMoves, AskMoves, ResumeMoves
     DEF Next, Inv

\* Every step preserves the invariant.
LEMMA NextService ==
  ASSUME ~Stray
  PROVE  Inv /\ Service /\ [Next]_vars => Service'
<1> SUFFICES ASSUME Inv, Service, [Next]_vars PROVE Service'
    OBVIOUS
<1>1. CASE Crash
  <2>1. lock' = NoThread /\ Lost # NoThread
    BY <1>1, ThreadsAssumption DEF Crash
  <2>2. QED
    BY <1>1, <2>1, CrashCalm DEF Service
<1>2. CASE ~Crash /\ lock' = Lost
  BY <1>2, LostStays DEF Service
<1>3. CASE ~Crash /\ lock' # Lost
  <2>1. lock # Lost
    BY <1>3, LostStays DEF Service
  <2>2. \A t \in Threads : ~ResumeLosesLock(t)
    BY <1>3 DEF ResumeLosesLock
  <2>3. QED
    BY <1>3, <2>1, <2>2, NextCalm DEF Service
<1>4. QED
  BY <1>1, <1>2, <1>3

\* The three invariants always hold together.
LEMMA ServiceInvariance ==
  ASSUME ~Stray
  PROVE  Spec => [](Inv /\ Alone /\ Service)
<1>1. Init => Inv /\ Alone /\ Service
  BY InitInv, InitCalm, ThreadsAssumption
     DEF Init, Alone, ImageAlone, PublishedDead, Service
<1>2. Inv /\ Alone /\ Service /\ [Next]_vars => (Inv /\ Alone /\ Service)'
  BY NextInv, AloneStep, NextService
<1>3. QED
  BY <1>1, <1>2, PTL DEF Spec

(***************************************************************************)
(* One vLLM at a time                                                      *)
(***************************************************************************)
\* When clients heed the reported state, two vLLM trees never run side by
\* side, one that was signalled included, whatever fails and however often the
\* container restarts: a resume, its fallback and main() start a process only
\* where none is up.  What OneTree excepts is the process a fallback has told
\* to exit, and all after a lost lock (launcher.py:288-348, 355-467, 560-590).
THEOREM OneTreeAtATime ==
  ASSUME ~Stray
  PROVE  Spec => []OneTree
<1>1. ASSUME AtMostOne PROVE OneTree
  <2>1. CASE Up = {}
    BY <2>1, FS_EmptySet DEF OneTree
  <2>2. CASE Up # {}
    <3>1. PICK x : x \in Up
      BY <2>2
    <3>2. Up = {x}
      BY <1>1, <3>1 DEF AtMostOne, Up, IsUp
    <3>3. Cardinality(Up) = 1
      BY <3>2, FS_Singleton
    <3>4. QED
      BY <3>3 DEF OneTree
  <2>3. QED
    BY <2>1, <2>2
<1>2. Service => OneTree
  BY <1>1 DEF Service, Calm, OneTree
<1>3. QED
  BY <1>2, ServiceInvariance, PTL

(***************************************************************************)
(* The abstract lifecycle                                                  *)
(***************************************************************************)
\* The refinement mapping of L.
opBar == IF lock = NoThread THEN "none"
         ELSE IF lock = Lost THEN "lost"
         ELSE IF pc[lock] \in SuspendAt THEN "suspend" ELSE "resume"

USE DEF opBar, Up, Leaving, IsUp

\* The abstract operation is the one of the thread that runs it.
LEMMA OpOfMover ==
  ASSUME Inv, NEW t \in Threads, InOp(t)
  PROVE  /\ lock = t /\ lock # NoThread /\ lock # Lost
         /\ opBar = IF pc[t] \in SuspendAt THEN "suspend" ELSE "resume"
  BY ThreadsAssumption DEF Inv, LockOwned

\* A step within an operation is a step of the same abstract operation.
LEMMA OpKept ==
  ASSUME Inv, NEW t \in Threads, Moves(t), lock' = lock,
         pc[t] \in SuspendAt <=> pc'[t] \in SuspendAt
  PROVE  opBar' = opBar
<1>1. lock = t /\ lock # NoThread /\ lock # Lost
  BY OpOfMover DEF Moves
<1>2. QED
  BY <1>1

\* What a step that starts nothing does to the abstract processes.
LEMMA StopsAbstractly ==
  ASSUME NoneStarted, NoneAbandoned, opBar' = opBar, slot' = slot
  PROVE  L!Stops
  BY DEF NoneStarted, NoneAbandoned, L!Stops

\* The end of an operation leaves no image beside its process,
LEMMA EndsAbstractly ==
  ASSUME Inv, Alone, NEW t \in Threads, InOp(t),
         pc[t] \in {"s_done", "s_raise", "r_done", "r_raise"},
         lock' = NoThread, UNCHANGED <<tree, slot>>
  PROVE  L!Ends
<1>1. opBar \in {"suspend", "resume"} /\ opBar' = "none"
  BY OpOfMover
<1>2. slot \notin Up
  <2>1. CASE slot = NoTree
    BY <2>1, TreesAssumption
  <2>2. CASE slot # NoTree
    <3>1. pc[t] \notin RestoringAt
      BY DEF RestoringAt
    <3>2. ~Running(slot)
      BY <2>2, <3>1, ImageIsMine DEF Alone
    <3>3. QED
      BY <3>2 DEF Running
  <2>3. QED
    BY <2>1, <2>2
<1>3. QED
  BY <1>1, <1>2 DEF L!Ends

\* nor does the end of one that loses the lock.
LEMMA LosesAbstractly ==
  ASSUME Inv, Alone, NEW t \in Threads, InOp(t), ResumeLosesLock(t)
  PROVE  L!Loses
<1>1. /\ pc[t] \in {"r_done", "r_raise"} /\ lock' = Lost
      /\ UNCHANGED <<tree, slot>>
  BY DEF ResumeLosesLock, treeVars, imageVars
<1>2. opBar = "resume" /\ opBar' = "lost"
  BY <1>1, OpOfMover, ThreadsAssumption DEF SuspendAt
<1>3. slot \notin Up
  <2>1. CASE slot = NoTree
    BY <2>1, TreesAssumption
  <2>2. CASE slot # NoTree
    <3>1. pc[t] \notin RestoringAt
      BY <1>1 DEF RestoringAt
    <3>2. ~Running(slot)
      BY <2>2, <3>1, ImageIsMine DEF Alone
    <3>3. QED
      BY <3>2 DEF Running
  <2>3. QED
    BY <2>1, <2>2
<1>4. QED
  BY <1>1, <1>2, <1>3 DEF L!Loses

\* A suspend saves the process it has ended, over no other image.
LEMMA SuspendAbstractly ==
  ASSUME Inv, Alone, Service, NEW h \in Handlers, SuspendStep(h)
  PROVE  L!Next
<1>1. /\ Moves(h) /\ h \in Threads /\ InOp(h)
      /\ NoneStarted /\ NoneAbandoned
      /\ pc \in [Threads -> Positions] /\ h # Main
      /\ lock = h /\ lock # Lost
  BY SuspendMoves, SuspendStartsNone, OpOfMover, ThreadsAssumption
     DEF Inv, TypeOK, LauncherOK, Moves
<1>2. pc[h] \in SuspendAt
  BY DEF SuspendStep, SuspendChecks, SuspendRefused, Sleep, SleepTimesOut,
         Prepare, TerminateTrackers, CudaLock, CudaSave, CriuDump, Publish,
         Commit, SuspendThrows, SuspendCleansUp, Rollback, WakeLevel2,
         SuspendResets, SuspendFinally, SuspendAt
<1>3. CASE SuspendFinally(h)
  <2>1. /\ pc[h] \in {"s_done", "s_raise"} /\ lock' = NoThread
        /\ UNCHANGED <<tree, slot>>
    BY <1>3 DEF SuspendFinally, treeVars, imageVars
  <2>2. L!Ends
    BY <1>1, <2>1, EndsAbstractly
  <2>3. QED
    BY <2>2 DEF L!Next
<1>4. CASE ~SuspendFinally(h)
  <2>1. lock' = lock /\ pc'[h] \in SuspendAt
    BY <1>1, <1>4
       DEF SuspendStep, SuspendChecks, SuspendRefused, Sleep, SleepTimesOut,
           Prepare, TerminateTrackers, CudaLock, CudaSave, CriuDump, Publish,
           Commit, SuspendThrows, SuspendCleansUp, Rollback, WakeLevel2,
           SuspendResets, SuspendAt, Goto
  <2>2. opBar' = opBar /\ opBar = "suspend"
    BY <1>1, <1>2, <2>1, OpKept, OpOfMover
  <2>3. CASE Publish(h)
    <3>1. None /\ slot = NoTree /\ opTree \in Trees
      BY <1>1, <2>3 DEF Publish, Service, Calm, Where, NoneAt, EmptyAt
    <3>2. slot' = opTree /\ UNCHANGED tree
      BY <2>3 DEF Publish, treeVars
    <3>3. L!Saves
      BY <2>2, <3>1, <3>2 DEF L!Saves, None
    <3>4. QED
      BY <3>3 DEF L!Next
  <2>4. CASE ~Publish(h)
    <3>1. slot' = slot
      BY <1>4, <2>4
         DEF SuspendStep, SuspendChecks, SuspendRefused, Sleep, SleepTimesOut,
             Prepare, TerminateTrackers, CudaLock, CudaSave, CriuDump,
             Commit, SuspendThrows, SuspendCleansUp, Rollback, WakeLevel2,
             SuspendResets, imageVars
    <3>2. L!Stops
      BY <1>1, <2>2, <3>1, StopsAbstractly
    <3>3. QED
      BY <3>2 DEF L!Next
  <2>5. QED
    BY <2>3, <2>4
<1>5. QED
  BY <1>3, <1>4

\* A resume restores the image, gives it up, or starts a process afresh.
LEMMA ResumeAbstractly ==
  ASSUME Inv, Alone, Service, NEW t \in Threads, ResumeStep(t)
  PROVE  L!Next
<1>1. /\ Moves(t) /\ InOp(t)
      /\ pc \in [Threads -> Positions]
      /\ tree \in [Trees -> TreeStates]
      /\ slot \in Trees \cup {NoTree}
      /\ Where(pc[t])
  BY ResumeMoves, OpOfMover
     DEF Inv, TypeOK, LauncherOK, TreeOK, ImageOK, Moves, Service, Calm
<1>2. pc[t] \in ResumeAt
  BY DEF ResumeStep, ResumeChecks, MarkPending, CriuRestore, CudaRestore,
         MarkRequest, Adopt, RemoveBegins, RemoveEnds, ResumeCommits,
         ResumeThrows, ResumeCleansUp, ArchiveFailed, FallbackStarts,
         FallbackReady, FallbackTimesOut, FallbackFails, ResumeGivesUp,
         ResumeFinally, ResumeLosesLock, ResumeAt
<1>3. CASE ResumeFinally(t)
  <2>1. /\ pc[t] \in {"r_done", "r_raise"} /\ lock' = NoThread
        /\ UNCHANGED <<tree, slot>>
    BY <1>3 DEF ResumeFinally, treeVars, imageVars
  <2>2. L!Ends
    BY <1>1, <2>1, EndsAbstractly
  <2>3. QED
    BY <2>2 DEF L!Next
<1>4. CASE ResumeLosesLock(t)
  BY <1>1, <1>4, LosesAbstractly DEF L!Next
<1>5. CASE ~ResumeFinally(t) /\ ~ResumeLosesLock(t)
  <2>1. lock' = lock /\ pc'[t] \in ResumeAt
    BY <1>1, <1>5
       DEF ResumeStep, ResumeChecks, MarkPending, CriuRestore, CudaRestore,
           MarkRequest, Adopt, RemoveBegins, RemoveEnds, ResumeCommits,
           ResumeThrows, ResumeCleansUp, ArchiveFailed, FallbackStarts,
           FallbackReady, FallbackTimesOut, FallbackFails, ResumeGivesUp,
           ResumeAt, Goto
  <2>2. opBar' = opBar /\ opBar = "resume"
    <3>1. pc[t] \notin SuspendAt /\ pc'[t] \notin SuspendAt
      BY <1>2, <2>1 DEF ResumeAt, SuspendAt
    <3>2. QED
      BY <1>1, <2>1, <3>1, OpKept, OpOfMover
  <2>3. CASE CriuRestore(t)
    <3>1. /\ None /\ slot \in Trees
          /\ tree' = [tree EXCEPT ![slot] = "live"] /\ slot' = slot
      BY <1>1, <2>3, PlacedAt
         DEF CriuRestore, Where, NoneAt, ImageAt, imageVars, Inv
    <3>2. Up = {} /\ Up' = {slot}
      BY <1>1, <3>1 DEF None
    <3>3. slot \notin Leaving /\ Leaving' = Leaving
      BY <1>1, <2>3, <3>1 DEF CriuRestore, PidsFree
    <3>4. L!Restores
      BY <2>2, <3>1, <3>2, <3>3, TreesAssumption DEF L!Restores
    <3>5. QED
      BY <3>4 DEF L!Next
  <2>4. CASE FallbackStarts(t)
    <3>1. /\ None /\ NewTree \in Trees \ {slot}
          /\ tree' = [tree EXCEPT ![NewTree] = "live"] /\ slot' = slot
      BY <1>1, <2>4, NewTreeUnused
         DEF FallbackStarts, StartVllm, Unused, Where, NoneAt, imageVars
    <3>2. Up = {} /\ Up' = {NewTree}
      BY <1>1, <3>1 DEF None
    <3>3. NewTree \notin Leaving /\ Leaving' = Leaving
      BY <1>1, <2>4, <3>1, NewTreeUnused DEF FallbackStarts, StartVllm, Unused
    <3>4. L!Starts
      BY <2>2, <3>1, <3>2, <3>3 DEF L!Starts
    <3>5. QED
      BY <3>4 DEF L!Next
  <2>5. CASE RemoveEnds(t)
    <3>1. Only(slot) /\ slot # NoTree /\ slot' = NoTree /\ tree' = tree
      <4>1. opTree \in Trees /\ slot = opTree /\ Only(opTree)
        BY <1>1, <2>5, PlacedAt
           DEF RemoveEnds, Where, MineAt, HoldAt, RestoredAt, Inv
      <4>2. QED
        BY <2>5, <4>1, TreesAssumption DEF RemoveEnds, treeVars
    <3>2. L!Discards
      BY <2>2, <3>1 DEF L!Discards, Only
    <3>3. QED
      BY <3>2 DEF L!Next
  <2>6. CASE ArchiveFailed(t) /\ slot # NoTree
    <3>1. None /\ slot' = NoTree /\ tree' = tree
      BY <1>1, <2>6 DEF ArchiveFailed, Where, NoneAt, treeVars
    <3>2. L!Discards
      BY <2>2, <2>6, <3>1 DEF L!Discards, None
    <3>3. QED
      BY <3>2 DEF L!Next
  <2>7. CASE FallbackTimesOut(t)
    <3>1. slot' = slot
      BY <2>7 DEF FallbackTimesOut, imageVars
    <3>2. CASE handle \in Up
      <4>1. handle # slot
        <5>1. pc[t] \notin RestoringAt
          BY <2>7 DEF FallbackTimesOut, RestoringAt
        <5>2. slot # NoTree => ~Running(slot)
          BY <1>1, <5>1, ImageIsMine DEF Alone
        <5>3. QED
          BY <3>2, <5>2, TreesAssumption DEF Running
      <4>2. /\ Up' = Up \ {handle}
            /\ Leaving' = Leaving \cup {handle}
        BY <1>1, <2>7, <3>2 DEF FallbackTimesOut
      <4>3. L!Abandons
        BY <2>2, <3>1, <3>2, <4>1, <4>2 DEF L!Abandons
      <4>4. QED
        BY <4>3 DEF L!Next
    <3>3. CASE handle \notin Up
      <4>1. tree' = tree
        BY <1>1, <2>7, <3>3 DEF FallbackTimesOut
      <4>2. L!Stops
        BY <2>2, <3>1, <4>1, UnchangedStartsNone, StopsAbstractly
      <4>3. QED
        BY <4>2 DEF L!Next
    <3>4. QED
      BY <3>2, <3>3
  <2>8. CASE /\ ~CriuRestore(t) /\ ~FallbackStarts(t) /\ ~RemoveEnds(t)
             /\ ~(ArchiveFailed(t) /\ slot # NoTree)
             /\ ~FallbackTimesOut(t)
    <3>1. slot' = slot
      BY <1>5, <2>8
         DEF ResumeStep, ResumeChecks, MarkPending, CudaRestore, MarkRequest,
             Adopt, RemoveBegins, ResumeCommits, ResumeThrows, ResumeCleansUp,
             ArchiveFailed, FallbackReady, FallbackFails,
             ResumeGivesUp, imageVars
    <3>2. NoneStarted /\ NoneAbandoned
      BY <2>8, ResumeStartsNone DEF Inv
    <3>3. L!Stops
      BY <2>2, <3>1, <3>2, StopsAbstractly
    <3>4. QED
      BY <3>3 DEF L!Next
  <2>9. QED
    BY <2>3, <2>4, <2>5, <2>6, <2>7, <2>8
<1>6. QED
  BY <1>3, <1>4, <1>5

\* main() begins a resume, starts a process where none is live, or does
\* nothing to the service.
LEMMA BootAbstractly ==
  ASSUME Inv, Alone, Service, BootStep
  PROVE  L!Next
<1>1. /\ pc \in [Threads -> Positions] /\ Main \in Threads
      /\ tree \in [Trees -> TreeStates]
      /\ lock \in Threads \cup {NoThread, Lost}
      /\ NoThread \notin Threads /\ Lost # NoThread /\ Lost \notin Threads
  BY ThreadsAssumption DEF Inv, TypeOK, LauncherOK, TreeOK
<1>2. lock \in {NoThread, Lost}
  <2>1. \A u \in Threads : ~InOp(u)
    BY DEF BootStep, Boot, BootStarts, BootServes, BootFails, Inv, ServesLast,
           InOp, SuspendAt, ResumeAt
  <2>2. QED
    BY <1>1, <2>1 DEF Inv, LockOwned
<1>3. CASE Boot
  <2>1. UNCHANGED <<tree, slot>>
    BY <1>3 DEF Boot, treeVars, imageVars
  <2>2. CASE ResumeOnStart /\ slot # NoTree
    <3>1. lock' = Main /\ pc'[Main] = "r_check"
      BY <1>1, <1>3, <2>2 DEF Boot, Goto
    <3>2. opBar = "none" /\ opBar' = "resume"
      BY <1>1, <1>2, <1>3, <3>1 DEF SuspendAt, Boot, Service
    <3>3. L!Begins
      BY <2>1, <3>2 DEF L!Begins
    <3>4. QED
      BY <3>3 DEF L!Next
  <2>3. CASE ~(ResumeOnStart /\ slot # NoTree)
    <3>1. lock' = lock
      BY <1>3, <2>3 DEF Boot
    <3>2. opBar' = opBar
      BY <1>2, <3>1
    <3>3. L!Stops
      BY <2>1, <3>2, UnchangedStartsNone, StopsAbstractly
    <3>4. QED
      BY <3>3 DEF L!Next
  <2>4. QED
    BY <2>2, <2>3
<1>4. CASE BootStarts
  <2>1. /\ NewTree \in Trees \ {slot} /\ lock' = lock
        /\ NewTree \notin Leaving
        /\ tree' = [tree EXCEPT ![NewTree] = "live"] /\ slot' = slot
        /\ lock # Lost => None
    BY <1>4, NewTreeUnused
       DEF BootStarts, StartVllm, Unused, Service, Calm, imageVars
  <2>2. Up' = Up \cup {NewTree} /\ Leaving' = Leaving
    BY <1>1, <2>1
  <2>3. /\ opBar' = opBar /\ opBar \in {"none", "lost"}
        /\ Up = {} \/ opBar = "lost"
    BY <1>1, <1>2, <2>1 DEF None
  <2>4. L!Starts
    BY <2>1, <2>2, <2>3 DEF L!Starts
  <2>5. QED
    BY <2>4 DEF L!Next
<1>5. CASE BootServes \/ BootFails
  <2>1. UNCHANGED <<tree, slot, lock>>
    BY <1>5 DEF BootServes, BootFails, treeVars, imageVars
  <2>2. opBar' = opBar
    BY <1>2, <2>1
  <2>3. L!Stops
    BY <2>1, <2>2, UnchangedStartsNone, StopsAbstractly
  <2>4. QED
    BY <2>3 DEF L!Next
<1>6. QED
  BY <1>3, <1>4, <1>5 DEF BootStep

\* Requests begin an operation or are refused.
LEMMA RequestAbstractly ==
  ASSUME Inv, NEW h \in Handlers, Request(h) \/ Reply(h)
  PROVE  L!Next
<1>1. /\ pc \in [Threads -> Positions] /\ h \in Threads
      /\ NoThread \notin Threads /\ Lost # NoThread /\ Lost \notin Threads
      /\ UNCHANGED <<tree, slot>> /\ ~InOp(h)
      /\ \A u \in Threads : u # h => pc'[u] = pc[u]
  BY ThreadsAssumption
     DEF Inv, TypeOK, LauncherOK, Request, Suspend, Resume, Begin, Busy, Reply,
         Accept, Goto, InOp, SuspendAt, ResumeAt, Replies, imageVars, treeVars
<1>2. CASE lock = NoThread /\ lock' = h
  <2>1. opBar = "none" /\ opBar' \in {"suspend", "resume"}
    BY <1>1, <1>2
  <2>2. L!Begins
    BY <1>1, <2>1 DEF L!Begins
  <2>3. QED
    BY <2>2 DEF L!Next
<1>3. CASE lock' = lock
  <2>1. lock # h /\ lock \in Threads \cup {NoThread, Lost}
    BY <1>1 DEF Inv, LockOwned, TypeOK, LauncherOK
  <2>2. opBar' = opBar
    BY <1>1, <1>3, <2>1
  <2>3. L!Stops
    BY <1>1, <2>2, UnchangedStartsNone, StopsAbstractly
  <2>4. QED
    BY <2>3 DEF L!Next
<1>4. QED
  BY <1>2, <1>3 DEF Request, Suspend, Resume, Begin, Busy, Reply

\* A status poll is invisible.
LEMMA AskAbstractly ==
  ASSUME Inv, NEW t \in Threads, Ask(t)
  PROVE  L!Next
<1>1. /\ Moves(t) /\ pc'[t] = Answered[pc[t]] /\ pc[t] \in DOMAIN Answered
      /\ UNCHANGED <<tree, slot, lock>>
  BY AskMoves DEF Ask, Inv, imageVars, treeVars
<1>2. pc[t] \in SuspendAt <=> pc'[t] \in SuspendAt
  BY <1>1 DEF Answered, SuspendAt
<1>3. opBar' = opBar
  BY <1>1, <1>2, OpKept
<1>4. L!Stops
  BY <1>1, <1>3, UnchangedStartsNone, StopsAbstractly
<1>5. QED
  BY <1>4 DEF L!Next

\* The launcher implements the abstract lifecycle when its clients heed the
\* reported state: a failure, a crash or an exit in any of its steps is one the
\* lifecycle allows.  It never shows an image beside its process, and a second
\* process only beside one that was told to leave or after the lock was lost
\* (launcher.py:288-348, 355-467, 560-590).
THEOREM LauncherImplementsLifecycle ==
  ASSUME ~Stray
  PROVE  Spec => ImplementsLifecycle
<1>1. Init => L!Init
  BY DEF Init, L!Init
<1>2. Inv /\ Alone /\ Service /\ [Next]_vars => [L!Next]_(L!vars)
  <2> SUFFICES ASSUME Inv, Alone, Service, [Next]_vars
               PROVE  [L!Next]_(L!vars)
      OBVIOUS
  <2>1. CASE UNCHANGED vars
    BY <2>1 DEF vars, L!vars, treeVars, imageVars
  <2>2. ASSUME NEW h \in Handlers, Request(h) \/ Reply(h) \/ SuspendStep(h)
        PROVE  L!Next
    BY <2>2, RequestAbstractly, SuspendAbstractly
  <2>3. ASSUME NEW t \in Threads, Ask(t) \/ ResumeStep(t) PROVE L!Next
    BY <2>3, AskAbstractly, ResumeAbstractly
  <2>4. ASSUME \/ \E r \in reapers : ReaperStep(r)
               \/ \E x \in Trees : EngineStep(x)
               \/ World /\ ~Crash
        PROVE  L!Next
    <3>1. NoneStarted /\ NoneAbandoned
      BY <2>4, OtherStepsStartNone DEF Inv
    <3>2. UNCHANGED <<lock, pc, slot>>
      BY <2>4, OtherStepsFrame DEF World
    <3>3. L!Stops
      BY <3>1, <3>2, StopsAbstractly
    <3>4. QED
      BY <3>3 DEF L!Next
  <2>5. CASE Crash
    <3>1. lock' = NoThread /\ slot' = slot /\ Up' = {} /\ Leaving' = {}
      BY <2>5 DEF Crash
    <3>2. L!Crashes
      BY <3>1 DEF L!Crashes
    <3>3. QED
      BY <3>2 DEF L!Next
  <2>6. QED
    BY <2>1, <2>2, <2>3, <2>4, <2>5, BootAbstractly DEF Next, World
<1>3. QED
  BY <1>1, <1>2, ServiceInvariance, PTL
     DEF Spec, ImplementsLifecycle, L!Spec

==============================================================================
