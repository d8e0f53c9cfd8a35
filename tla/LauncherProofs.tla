--------------------------- MODULE LauncherProofs ---------------------------
(***************************************************************************)
(* Proofs about Launcher, for any number of handler threads and process    *)
(* trees, any settings, any set of faults and any number of crashes.       *)
(***************************************************************************)
EXTENDS Launcher, TLAPS

USE DEF launcherVars, stillVars, quietVars, diskVars, Threads, TreeStates

\* Where a resume has an image to restore, where it has a restored tree, and
\* where vllm_process is a process.
ImageAt    == {"r_tools", "r_criu"}
RestoredAt == {"r_find", "r_cuda", "r_marker", "r_ready", "r_handshake",
               "r_local", "r_remove", "r_removed", "r_running"}
HandleAt   == {"r_remove", "r_removed", "r_running", "r_wait", "r_done",
               "m_reap"}

\* What the position of a thread says about the variables its operation uses.
Placed ==
  \A t \in Threads :
    /\ pc[t] \in ImageAt => slot \in Trees
    /\ pc[t] \in RestoredAt => opTree \in Trees
    /\ pc[t] \in HandleAt => handle \in Trees

\* serve_control is the last thing main() does: until then nobody posts.
ServesLast == pc[Main] # "serving" => \A h \in Handlers : pc[h] = "idle"

\* The inductive invariant behind type correctness and mutual exclusion.
Inv == TypeOK /\ LockOwned /\ Placed /\ ServesLast

\* A started process gets one of the names that are free.
LEMMA NewTreeUnused ==
  ASSUME Unused # {}
  PROVE  NewTree \in Unused
  BY DEF NewTree

(***************************************************************************)
(* How the threads move                                                    *)
(***************************************************************************)
\* A step of an operation moves one thread, which either stays within the
\* operation or leaves it and gives the lock up.
Moves(t) ==
  /\ InOp(t)
  /\ pc' = [pc EXCEPT ![t] = pc'[t]]
  /\ pc'[t] \in Positions
  /\ \/ InOp(t)' /\ lock' = lock
     \/ /\ pc'[t] \in (IF t = Main THEN {"m_reap", "m_start"}
                                   ELSE {"ok", "error"})
        /\ lock' \in {NoThread, Lost}

\* A step of a suspend moves the thread that makes it, and no other one.
LEMMA SuspendMoves ==
  ASSUME TypeOK, NEW h \in Handlers, SuspendStep(h)
  PROVE  Moves(h)
<1> USE DEF SuspendAt, ResumeAt, Replies, BootAt, Positions, InOp, Moves, Goto
<1>1. pc \in [Threads -> Positions] /\ h # Main
  BY ThreadsAssumption DEF TypeOK, LauncherOK
<1>2. CASE SuspendChecks(h)
  BY <1>2, <1>1 DEF SuspendChecks
<1>3. CASE SuspendRefused(h)
  BY <1>3, <1>1 DEF SuspendRefused
<1>4. CASE Sleep(h)
  BY <1>4, <1>1 DEF Sleep
<1>5. CASE SleepTimesOut(h)
  BY <1>5, <1>1 DEF SleepTimesOut
<1>6. CASE Prepare(h)
  BY <1>6, <1>1 DEF Prepare
<1>7. CASE TerminateTrackers(h)
  BY <1>7, <1>1 DEF TerminateTrackers
<1>8. CASE CudaLock(h)
  BY <1>8, <1>1 DEF CudaLock
<1>9. CASE CudaSave(h)
  BY <1>9, <1>1 DEF CudaSave
<1>10. CASE CriuDump(h)
  BY <1>10, <1>1 DEF CriuDump
<1>11. CASE Publish(h)
  BY <1>11, <1>1 DEF Publish
<1>12. CASE Commit(h)
  BY <1>12, <1>1 DEF Commit
<1>13. CASE SuspendThrows(h)
  BY <1>13, <1>1 DEF SuspendThrows, SuspendFault
<1>14. CASE SuspendCleansUp(h)
  BY <1>14, <1>1 DEF SuspendCleansUp
<1>15. CASE Rollback(h)
  BY <1>15, <1>1 DEF Rollback
<1>16. CASE WakeLevel2(h)
  BY <1>16, <1>1 DEF WakeLevel2
<1>17. CASE SuspendResets(h)
  BY <1>17, <1>1 DEF SuspendResets
<1>18. CASE SuspendFinally(h)
  BY <1>18, <1>1 DEF SuspendFinally
<1>19. QED
  BY <1>2, <1>3, <1>4, <1>5, <1>6, <1>7, <1>8, <1>9, <1>10, <1>11, <1>12,
     <1>13, <1>14, <1>15, <1>16, <1>17, <1>18
     DEF SuspendStep

\* So does a step of a resume,
LEMMA ResumeMoves ==
  ASSUME TypeOK, NEW t \in Threads, ResumeStep(t)
  PROVE  Moves(t)
<1> USE DEF SuspendAt, ResumeAt, Replies, BootAt, Positions, InOp, Moves, Goto
<1>1. pc \in [Threads -> Positions]
  BY DEF TypeOK, LauncherOK
<1>2. CASE ResumeChecks(t)
  BY <1>2, <1>1 DEF ResumeChecks
<1>3. CASE MarkPending(t)
  BY <1>3, <1>1 DEF MarkPending
<1>4. CASE CriuRestore(t)
  BY <1>4, <1>1 DEF CriuRestore
<1>5. CASE CudaRestore(t)
  BY <1>5, <1>1 DEF CudaRestore
<1>6. CASE MarkRequest(t)
  BY <1>6, <1>1 DEF MarkRequest
<1>7. CASE Adopt(t)
  BY <1>7, <1>1 DEF Adopt
<1>8. CASE RemoveBegins(t)
  BY <1>8, <1>1 DEF RemoveBegins
<1>9. CASE RemoveEnds(t)
  BY <1>9, <1>1 DEF RemoveEnds
<1>10. CASE ResumeCommits(t)
  BY <1>10, <1>1 DEF ResumeCommits
<1>11. CASE ResumeThrows(t)
  BY <1>11, <1>1 DEF ResumeThrows
<1>12. CASE ResumeCleansUp(t)
  BY <1>12, <1>1 DEF ResumeCleansUp
<1>13. CASE ArchiveFailed(t)
  BY <1>13, <1>1 DEF ArchiveFailed
<1>14. CASE FallbackStarts(t)
  BY <1>14, <1>1 DEF FallbackStarts
<1>15. CASE FallbackReady(t)
  BY <1>15, <1>1 DEF FallbackReady
<1>16. CASE FallbackTimesOut(t)
  BY <1>16, <1>1 DEF FallbackTimesOut
<1>17. CASE FallbackFails(t)
  BY <1>17, <1>1 DEF FallbackFails
<1>18. CASE ResumeGivesUp(t)
  BY <1>18, <1>1 DEF ResumeGivesUp
<1>19. CASE ResumeFinally(t)
  BY <1>19, <1>1 DEF ResumeFinally, Outcome
<1>20. CASE ResumeLosesLock(t)
  BY <1>20, <1>1 DEF ResumeLosesLock, Outcome
<1>21. QED
  BY <1>2, <1>3, <1>4, <1>5, <1>6, <1>7, <1>8, <1>9, <1>10, <1>11, <1>12,
     <1>13, <1>14, <1>15, <1>16, <1>17, <1>18, <1>19, <1>20
     DEF ResumeStep

\* a status poll of a resume,
LEMMA AskMoves ==
  ASSUME TypeOK, NEW t \in Threads, Ask(t)
  PROVE  Moves(t) /\ pc'[t] = Answered[pc[t]]
<1>1. /\ pc \in [Threads -> Positions]
      /\ pc[t] \in DOMAIN Answered
      /\ pc' = [pc EXCEPT ![t] = Answered[pc[t]]]
      /\ lock' = lock
  BY DEF Ask, TypeOK, LauncherOK, Goto
<1>2. \A p \in DOMAIN Answered : /\ p \in SuspendAt \cup ResumeAt
                               /\ Answered[p] \in SuspendAt \cup ResumeAt
  BY DEF Answered, SuspendAt, ResumeAt
<1>3. QED
  BY <1>1, <1>2 DEF Moves, InOp, Positions

\* The operations exclude each other.
LEMMA OthersRest ==
  ASSUME Inv, NEW t \in Threads, InOp(t), NEW u \in Threads, u # t
  PROVE  ~InOp(u)
  BY DEF Inv, LockOwned

\* Such a step of the owner leaves the lock with its owner.
LEMMA MovesKeepLock ==
  ASSUME Inv, NEW t \in Threads, Moves(t)
  PROVE  LockOwned' /\ ServesLast'
<1>1. /\ pc \in [Threads -> Positions]
      /\ lock = t
      /\ \A u \in Threads \ {t} : pc'[u] = pc[u] /\ ~InOp(u) /\ ~InOp(u)'
  BY OthersRest DEF Inv, TypeOK, LauncherOK, LockOwned, Moves, InOp
<1>2. /\ NoThread # t /\ Main \notin Handlers
      /\ NoThread \notin Threads /\ Lost \notin Threads
  BY ThreadsAssumption
<1>3. LockOwned'
  <2>1. InOp(t)' <=> lock' = t
    BY <1>1, <1>2 DEF Moves, InOp, SuspendAt, ResumeAt
  <2>2. \A u \in Threads \ {t} : lock' # u
    BY <1>1, <1>2 DEF Moves
  <2>3. QED
    BY <1>1, <2>1, <2>2 DEF LockOwned
<1>4. ServesLast'
  <2>1. CASE t = Main
    BY <1>1, <1>2, <2>1 DEF Inv, ServesLast, Moves, InOp, SuspendAt, ResumeAt
  <2>2. CASE t \in Handlers
    BY <1>1, <1>2, <2>2 DEF Inv, ServesLast, Moves, InOp, SuspendAt, ResumeAt
  <2>3. QED
    BY <2>1, <2>2
<1>5. QED
  BY <1>3, <1>4

\* It also keeps the types of what it moves.
LEMMA MovesType ==
  ASSUME TypeOK, NEW t \in Threads, Moves(t)
  PROVE  /\ pc' \in [Threads -> Positions]
         /\ lock' \in Threads \cup {NoThread, Lost}
  BY DEF TypeOK, LauncherOK, Moves

(***************************************************************************)
(* Type correctness                                                        *)
(***************************************************************************)
\* What a step leaves alone keeps its type.
LEMMA TypeFrame ==
  TypeOK => /\ UNCHANGED <<state, lock, pc>> => LauncherOK'
            /\ UNCHANGED opVars => OpOK'
            /\ UNCHANGED handleVars => HandleOK'
            /\ UNCHANGED treeVars => TreeOK'
            /\ UNCHANGED imageVars => ImageOK'
            /\ UNCHANGED markerVars => MarkerOK'
            /\ UNCHANGED restVars => RestOK'
<1> USE DEF TypeOK
<1>1. TypeOK /\ UNCHANGED <<state, lock, pc>> => LauncherOK'
  BY DEF LauncherOK
<1>2. TypeOK /\ UNCHANGED opVars => OpOK'
  BY DEF OpOK, opVars
<1>3. TypeOK /\ UNCHANGED handleVars => HandleOK'
  BY DEF HandleOK, handleVars
<1>4. TypeOK /\ UNCHANGED treeVars => TreeOK'
  BY DEF TreeOK, treeVars
<1>5. TypeOK /\ UNCHANGED imageVars => ImageOK'
  BY DEF ImageOK, imageVars
<1>6. TypeOK /\ UNCHANGED markerVars => MarkerOK'
  BY DEF MarkerOK, markerVars
<1>7. TypeOK /\ UNCHANGED restVars => RestOK'
  BY DEF RestOK, restVars
<1>8. QED
  BY <1>1, <1>2, <1>3, <1>4, <1>5, <1>6, <1>7

\* What Placed says of one thread.
LEMMA PlacedAt ==
  ASSUME Placed, NEW t \in Threads
  PROVE  /\ pc[t] \in ImageAt => slot \in Trees
         /\ pc[t] \in RestoredAt => opTree \in Trees
         /\ pc[t] \in HandleAt => handle \in Trees
  BY DEF Placed

\* A reaper is a record of its three fields.
LEMMA ReaperRecord ==
  ASSUME NEW x \in Trees, NEW b \in BOOLEAN
  PROVE  [at |-> "wait", tree |-> x, restored |-> b] \in Reapers
  BY DEF Reapers

\* A new EngineCore has its type.
LEMMA FreshEngineType == FreshEngine \in Engines
  BY DEF FreshEngine, Engines

\* The initial state has its types.
LEMMA InitTypeOK == Init => TypeOK
<1> SUFFICES ASSUME Init PROVE TypeOK
    OBVIOUS
<1>1. LauncherOK
  BY DEF Init, LauncherOK, Positions, BootAt, States
<1>2. OpOK /\ HandleOK /\ MarkerOK /\ RestOK
  BY DEF Init, OpOK, HandleOK, MarkerOK, RestOK
<1>3. TreeOK /\ ImageOK
  BY FreshEngineType DEF Init, TreeOK, ImageOK
<1>4. QED
  BY <1>1, <1>2, <1>3 DEF TypeOK

\* start_vllm keeps the types of what it assigns.
LEMMA StartType ==
  ASSUME TypeOK, StartVllm
  PROVE  NewTree \in Trees /\ TreeOK' /\ HandleOK' /\ state' \in States
<1>1. NewTree \in Trees
  BY NewTreeUnused DEF StartVllm, Unused
<1>2. QED
  BY <1>1, FreshEngineType
     DEF StartVllm, TypeOK, TreeOK, HandleOK, States

\* Setting one field of what the memory of an EngineCore says.
LEMMA EngineFieldType ==
  ASSUME engine \in [Trees -> Engines], NEW x \in Trees, NEW b \in BOOLEAN,
         NEW l \in {"none", "busy", "failed", "again", "done"}
  PROVE  /\ [engine EXCEPT ![x].asleep = b] \in [Trees -> Engines]
         /\ [engine EXCEPT ![x].prepared = b] \in [Trees -> Engines]
         /\ [engine EXCEPT ![x].local = l] \in [Trees -> Engines]
<1>1. /\ [engine[x] EXCEPT !.asleep = b] \in Engines
      /\ [engine[x] EXCEPT !.prepared = b] \in Engines
      /\ [engine[x] EXCEPT !.local = l] \in Engines
  BY DEF Engines
<1>2. QED
  BY <1>1

\* The main thread keeps all types.
LEMMA BootType ==
  ASSUME Inv, BootStep
  PROVE  TypeOK'
<1> USE TypeFrame DEF Inv, TypeOK
<1>1. CASE Boot
  <2>1. LauncherOK'
    BY <1>1 DEF Boot, Goto, LauncherOK, States, Positions, ResumeAt, BootAt
  <2>2. MarkerOK'
    BY <1>1 DEF Boot, BootMarkers, MarkerOK
  <2>3. QED
    BY <1>1, <2>1, <2>2 DEF Boot
<1>2. CASE BootStarts
  <2>1. pc' \in [Threads -> Positions] /\ lock' = lock
    BY <1>2 DEF BootStarts, Goto, LauncherOK, Positions, BootAt
  <2>2. QED
    BY <1>2, <2>1, StartType DEF BootStarts, LauncherOK
<1>3. CASE BootServes
  <2>1. LauncherOK'
    BY <1>3 DEF BootServes, Goto, LauncherOK, Positions
  <2>2. handle \in Trees
    <3>1. pc[Main] \in HandleAt
      BY <1>3 DEF BootServes, HandleAt
    <3>2. QED
      BY <3>1, PlacedAt
  <2>3. RestOK'
    BY <1>3, <2>2, ReaperRecord
       DEF BootServes, SpawnReaper, RestOK, HandleOK
  <2>4. QED
    BY <1>3, <2>1, <2>3 DEF BootServes
<1>4. CASE BootFails
  <2>1. LauncherOK'
    BY <1>4 DEF BootFails, Goto, LauncherOK, Positions
  <2>2. QED
    BY <1>4, <2>1 DEF BootFails
<1>5. QED
  BY <1>1, <1>2, <1>3, <1>4 DEF BootStep

\* checkpoint_vllm keeps all types.
LEMMA SuspendType ==
  ASSUME TypeOK, NEW h \in Handlers, SuspendStep(h)
  PROVE  TypeOK'
<1> USE TypeFrame DEF TypeOK
<1>1. pc' \in [Threads -> Positions] /\ lock' \in Threads \cup {NoThread, Lost}
  BY SuspendMoves, MovesType
<1>2. CASE SuspendChecks(h)
  BY <1>1, <1>2
     DEF SuspendChecks, LauncherOK, OpOK, HandleOK, ImageOK, PollsAlive
<1>3. CASE SuspendRefused(h)
  BY <1>1, <1>3 DEF SuspendRefused, LauncherOK, TreeOK, Polled
<1>4. CASE Sleep(h)
  <2>1. Live(opTree) =>
          [engine EXCEPT ![opTree].asleep = TRUE] \in [Trees -> Engines]
    BY EngineFieldType DEF TreeOK, Live
  <2>2. TreeOK'
    BY <1>4, <2>1 DEF Sleep, SleepEffect, TreeOK
  <2>3. QED
    BY <1>1, <1>4, <2>2 DEF Sleep, LauncherOK
<1>5. CASE SleepTimesOut(h)
  <2>1. Live(opTree) =>
          [engine EXCEPT ![opTree].asleep = TRUE] \in [Trees -> Engines]
    BY EngineFieldType DEF TreeOK, Live
  <2>2. TreeOK'
    BY <1>5, <2>1 DEF SleepTimesOut, SleepEffect, TreeOK
  <2>3. QED
    BY <1>1, <1>5, <2>2 DEF SleepTimesOut, LauncherOK
<1>6. CASE Prepare(h)
  <2>1. Live(opTree) =>
          [engine EXCEPT ![opTree].prepared = TRUE] \in [Trees -> Engines]
    BY EngineFieldType DEF TreeOK, Live
  <2>2. TreeOK'
    BY <1>6, <2>1 DEF Prepare, PrepareEffect, TreeOK
  <2>3. QED
    BY <1>1, <1>6, <2>2 DEF Prepare, LauncherOK
<1>7. CASE TerminateTrackers(h)
  BY <1>1, <1>7 DEF TerminateTrackers, LauncherOK, TreeOK, Reaped
<1>8. CASE CudaLock(h)
  BY <1>1, <1>8 DEF CudaLock, LauncherOK, TreeOK, Live
<1>9. CASE CudaSave(h)
  BY <1>1, <1>9 DEF CudaSave, LauncherOK, OpOK, TreeOK, Live, States
<1>10. CASE CriuDump(h)
  BY <1>1, <1>10 DEF CriuDump, LauncherOK, TreeOK, ImageOK, Live
<1>11. CASE Publish(h)
  BY <1>1, <1>11 DEF Publish, LauncherOK, OpOK, ImageOK, opVars
<1>12. CASE Commit(h)
  BY <1>1, <1>12 DEF Commit, LauncherOK, TreeOK, Reaped, States
<1>13. CASE SuspendThrows(h)
  BY <1>1, <1>13 DEF SuspendThrows, LauncherOK
<1>14. CASE SuspendCleansUp(h)
  BY <1>1, <1>14 DEF SuspendCleansUp, LauncherOK, ImageOK
<1>15. CASE Rollback(h)
  BY <1>1, <1>15 DEF Rollback, LauncherOK, TreeOK, Live
<1>16. CASE WakeLevel2(h)
  <2>1. Live(opTree) =>
          [engine EXCEPT ![opTree].asleep = FALSE] \in [Trees -> Engines]
    BY EngineFieldType DEF TreeOK, Live
  <2>2. TreeOK'
    BY <1>16, <2>1 DEF WakeLevel2, TreeOK
  <2>3. QED
    BY <1>1, <1>16, <2>2 DEF WakeLevel2, LauncherOK
<1>17. CASE SuspendResets(h)
  BY <1>1, <1>17 DEF SuspendResets, LauncherOK, States
<1>18. CASE SuspendFinally(h)
  BY <1>1, <1>18 DEF SuspendFinally, LauncherOK, OpOK
<1>19. QED
  BY <1>2, <1>3, <1>4, <1>5, <1>6, <1>7, <1>8, <1>9, <1>10, <1>11, <1>12,
     <1>13, <1>14, <1>15, <1>16, <1>17, <1>18
     DEF SuspendStep

\* restore_vllm keeps all types.
LEMMA ResumeType ==
  ASSUME Inv, NEW t \in Threads, ResumeStep(t)
  PROVE  TypeOK'
<1>1. TypeOK
  BY DEF Inv
<1>2. pc' \in [Threads -> Positions] /\ lock' \in Threads \cup {NoThread, Lost}
  BY <1>1, ResumeMoves, MovesType
<1> USE TypeFrame DEF TypeOK
<1>3. CASE ResumeChecks(t)
  BY <1>1, <1>2, <1>3
     DEF ResumeChecks, LauncherOK, MarkerOK, ResumeMarkers, States
<1>4. CASE MarkPending(t)
  BY <1>1, <1>2, <1>4 DEF MarkPending, LauncherOK, MarkerOK
<1>5. CASE CriuRestore(t)
  <2>1. slot \in Trees
    <3>1. pc[t] \in ImageAt
      BY <1>5 DEF CriuRestore, ImageAt
    <3>2. QED
      BY <3>1, PlacedAt DEF Inv
  <2>2. TreeOK' /\ OpOK'
    BY <1>1, <1>5, <2>1 DEF CriuRestore, TreeOK, ImageOK, OpOK
  <2>3. QED
    BY <1>1, <1>2, <1>5, <2>2 DEF CriuRestore, LauncherOK
<1>6. CASE CudaRestore(t)
  BY <1>1, <1>2, <1>6 DEF CudaRestore, LauncherOK, TreeOK, Live
<1>7. CASE MarkRequest(t)
  BY <1>1, <1>2, <1>7 DEF MarkRequest, LauncherOK, MarkerOK
<1>8. CASE Adopt(t)
  BY <1>1, <1>2, <1>8 DEF Adopt, LauncherOK, OpOK, HandleOK, opVars
<1>9. CASE RemoveBegins(t)
  BY <1>1, <1>2, <1>9 DEF RemoveBegins, LauncherOK, ImageOK
<1>10. CASE RemoveEnds(t)
  BY <1>1, <1>2, <1>10 DEF RemoveEnds, LauncherOK, ImageOK
<1>11. CASE ResumeCommits(t)
  <2>1. opTree \in Trees
    <3>1. pc[t] \in RestoredAt
      BY <1>11 DEF ResumeCommits, RestoredAt
    <3>2. QED
      BY <3>1, PlacedAt DEF Inv
  <2>2. RestOK'
    BY <1>1, <1>11, <2>1, ReaperRecord DEF ResumeCommits, SpawnReaper, RestOK
  <2>3. QED
    BY <1>1, <1>2, <1>11, <2>2 DEF ResumeCommits, LauncherOK, States
<1>12. CASE ResumeThrows(t)
  BY <1>1, <1>2, <1>12 DEF ResumeThrows, LauncherOK
<1>13. CASE ResumeCleansUp(t)
  <2>1. TreeOK'
    BY <1>1, <1>13 DEF ResumeCleansUp, TerminateRestored, Reaped, InProc,
       TreeOK
  <2>2. QED
    BY <1>1, <1>2, <1>13, <2>1
       DEF ResumeCleansUp, FallbackMarkers, FallbackMarkersFail, MarkerOK,
           LauncherOK
<1>14. CASE ArchiveFailed(t)
  BY <1>1, <1>2, <1>14 DEF ArchiveFailed, LauncherOK, ImageOK
<1>15. CASE FallbackStarts(t)
  BY <1>1, <1>2, <1>15, StartType DEF FallbackStarts, LauncherOK
<1>16. CASE FallbackReady(t)
  BY <1>1, <1>2, <1>16 DEF FallbackReady, LauncherOK, States
<1>17. CASE FallbackTimesOut(t)
  <2>1. TreeOK'
    BY <1>1, <1>17 DEF FallbackTimesOut, TreeOK
  <2>2. QED
    BY <1>1, <1>2, <1>17, <2>1 DEF FallbackTimesOut, LauncherOK
<1>18. CASE FallbackFails(t)
  BY <1>1, <1>2, <1>18 DEF FallbackFails, LauncherOK
<1>19. CASE ResumeGivesUp(t)
  BY <1>1, <1>2, <1>19 DEF ResumeGivesUp, LauncherOK, States
<1>20. CASE ResumeFinally(t)
  BY <1>1, <1>2, <1>20
     DEF ResumeFinally, LauncherOK, OpOK, MarkerOK, FinallyMarkers
<1>21. CASE ResumeLosesLock(t)
  BY <1>1, <1>2, <1>21 DEF ResumeLosesLock, LauncherOK, OpOK, MarkerOK
<1>22. QED
  BY <1>3, <1>4, <1>5, <1>6, <1>7, <1>8, <1>9, <1>10, <1>11, <1>12, <1>13,
     <1>14, <1>15, <1>16, <1>17, <1>18, <1>19, <1>20, <1>21
     DEF ResumeStep

\* The control server's requests and replies keep all types.
LEMMA RequestType ==
  ASSUME TypeOK, NEW h \in Handlers, Request(h) \/ Reply(h)
  PROVE  TypeOK'
<1>1. LauncherOK'
  BY DEF TypeOK, LauncherOK, Positions, SuspendAt, ResumeAt, Replies, Goto,
         Request, Suspend, Resume, Begin, Busy, Reply
<1>2. QED
  BY <1>1, TypeFrame
     DEF TypeOK, Request, Suspend, Resume, Begin, Busy, Reply

\* The status poll keeps all types.
LEMMA AskType ==
  ASSUME TypeOK, NEW t \in Threads, Ask(t)
  PROVE  TypeOK'
  BY AskMoves, MovesType, TypeFrame DEF Ask, TypeOK, LauncherOK

\* The reapers keep all types.
LEMMA ReaperType ==
  ASSUME TypeOK, NEW r \in reapers, ReaperStep(r)
  PROVE  TypeOK'
<1> USE TypeFrame DEF TypeOK
<1>1. r \in Reapers /\ r.tree \in Trees
  BY DEF RestOK, Reapers
<1>2. CASE ReaperWaits(r)
  <2>1. [r EXCEPT !.at = "read"] \in Reapers
    BY <1>1 DEF Reapers
  <2>2. TreeOK' /\ RestOK'
    BY <1>1, <1>2, <2>1 DEF ReaperWaits, Becomes, TreeOK, RestOK
  <2>3. QED
    BY <1>2, <2>2 DEF ReaperWaits
<1>3. CASE ReaperReads(r)
  <2>1. [r EXCEPT !.at = "set"] \in Reapers
    BY <1>1 DEF Reapers
  <2>2. RestOK'
    BY <1>3, <2>1 DEF ReaperReads, Becomes, RestOK
  <2>3. QED
    BY <1>3, <2>2 DEF ReaperReads
<1>4. CASE ReaperSets(r)
  BY <1>4 DEF ReaperSets, LauncherOK, RestOK, States
<1>5. QED
  BY <1>2, <1>3, <1>4 DEF ReaperStep

\* The EngineCore's steps keep all types.
LEMMA EngineType ==
  ASSUME TypeOK, NEW x \in Trees, EngineStep(x)
  PROVE  TypeOK'
<1> USE TypeFrame DEF TypeOK
<1>1. CASE EngineRestoreBegins(x)
  <2>1. LocalBegins[engine[x].local] \in {"busy", "again"}
    BY <1>1 DEF EngineRestoreBegins, LocalBegins
  <2>2. engine' = [engine EXCEPT ![x].local = LocalBegins[engine[x].local]]
    BY <1>1 DEF EngineRestoreBegins
  <2>3. engine' \in [Trees -> Engines]
    BY <2>1, <2>2, EngineFieldType DEF TreeOK
  <2>4. TreeOK'
    BY <1>1, <2>3 DEF EngineRestoreBegins, TreeOK
  <2>5. QED
    BY <1>1, <2>4 DEF EngineRestoreBegins, MarkerOK
<1>2. CASE EngineRestoreDone(x)
  <2>1. [asleep |-> FALSE, prepared |-> FALSE, local |-> "done"] \in Engines
    BY DEF Engines
  <2>2. TreeOK'
    BY <1>2, <2>1 DEF EngineRestoreDone, TreeOK
  <2>3. QED
    BY <1>2, <2>2 DEF EngineRestoreDone, MarkerOK
<1>3. CASE EngineRestoreFails(x)
  <2>1. TreeOK'
    BY <1>3, EngineFieldType DEF EngineRestoreFails, TreeOK
  <2>2. QED
    BY <1>3, <2>1 DEF EngineRestoreFails, MarkerOK
<1>4. QED
  BY <1>1, <1>2, <1>3 DEF EngineStep

\* A crash of the container keeps all types.
LEMMA CrashType == TypeOK /\ Crash => TypeOK'
<1> SUFFICES ASSUME TypeOK, Crash PROVE TypeOK'
    OBVIOUS
<1> USE TypeFrame DEF TypeOK
<1>1. LauncherOK'
  BY DEF Crash, LauncherOK, Positions, BootAt, States
<1>2. OpOK' /\ HandleOK'
  BY DEF Crash, OpOK, HandleOK
<1>3. MarkerOK' /\ RestOK'
  <2>1. MarkerOK'
    BY DEF Crash, MarkerOK, markerVars
  <2>2. crashes \in Nat /\ crashes' = crashes + 1 /\ reapers' = {}
    BY DEF Crash, RestOK
  <2>3. QED
    BY <2>1, <2>2 DEF RestOK
<1>4. TreeOK' /\ ImageOK'
  BY FreshEngineType DEF Crash, TreeOK, ImageOK
<1>5. QED
  BY <1>1, <1>2, <1>3, <1>4

\* Signals and exits of vLLM keep all types.
LEMMA WorldType == TypeOK /\ World => TypeOK'
<1> SUFFICES ASSUME TypeOK, World PROVE TypeOK'
    OBVIOUS
<1> USE TypeFrame DEF TypeOK
<1>1. ASSUME NEW x \in Trees, TreeDies(x) \/ TreeStops(x) PROVE TypeOK'
  BY <1>1 DEF TreeDies, TreeStops, TreeOK
<1>2. CASE ForwardSignal
  BY <1>2 DEF ForwardSignal, Live, TreeOK
<1>3. QED
  BY <1>1, <1>2, CrashType DEF World

(***************************************************************************)
(* One operation at a time                                                 *)
(***************************************************************************)
LEMMA InitInv == Init => Inv
<1> SUFFICES ASSUME Init PROVE Inv
    OBVIOUS
<1>1. Main \notin Handlers /\ NoThread \notin Threads
  BY ThreadsAssumption
<1>2. LockOwned
  BY <1>1 DEF Init, LockOwned, InOp, SuspendAt, ResumeAt
<1>3. Placed
  BY DEF Init, Placed, ImageAt, RestoredAt, HandleAt
<1>4. ServesLast
  BY <1>1 DEF Init, ServesLast
<1>5. QED
  BY <1>2, <1>3, <1>4, InitTypeOK DEF Inv

\* The main thread preserves the invariant.
LEMMA BootInv ==
  ASSUME Inv, BootStep
  PROVE  LockOwned' /\ Placed' /\ ServesLast'
<1>1. /\ pc \in [Threads -> Positions] /\ Main \in Threads
      /\ Main \notin Handlers /\ NoThread \notin Threads
  BY ThreadsAssumption DEF Inv, TypeOK, LauncherOK
<1>2. \A h \in Handlers : pc[h] = "idle"
  BY DEF BootStep, Boot, BootStarts, BootServes, BootFails, Inv, ServesLast
<1>3. lock \notin Threads
  BY <1>1, <1>2
     DEF Inv, LockOwned, InOp, SuspendAt, ResumeAt, BootStep, Boot, BootStarts,
         BootServes, BootFails
<1>4. CASE Boot
  <2>1. /\ pc'[Main] \in {"r_check", "m_start"}
        /\ \A h \in Handlers : pc'[h] = "idle"
    BY <1>1, <1>2, <1>4 DEF Boot, Goto
  <2>2. lock' = IF pc'[Main] = "r_check" THEN Main ELSE lock
    BY <1>1, <1>4 DEF Boot, Goto
  <2>3. LockOwned'
    BY <1>1, <1>3, <2>1, <2>2 DEF LockOwned, InOp, SuspendAt, ResumeAt
  <2>4. QED
    BY <2>1, <2>3
       DEF Placed, ServesLast, ImageAt, RestoredAt, HandleAt
<1>5. CASE BootStarts
  <2>1. /\ pc'[Main] = "m_reap" /\ lock' = lock
        /\ \A h \in Handlers : pc'[h] = "idle"
    BY <1>1, <1>2, <1>5 DEF BootStarts, Goto
  <2>2. handle' \in Trees
    BY <1>5, StartType DEF BootStarts, StartVllm, Inv
  <2>3. LockOwned'
    BY <1>1, <1>3, <2>1 DEF LockOwned, InOp, SuspendAt, ResumeAt
  <2>4. QED
    BY <2>1, <2>2, <2>3
       DEF Placed, ServesLast, ImageAt, RestoredAt, HandleAt
<1>6. CASE BootServes
  <2>1. /\ pc'[Main] = "serving" /\ lock' = lock
        /\ \A h \in Handlers : pc'[h] = "idle"
    BY <1>1, <1>2, <1>6 DEF BootServes, Goto
  <2>2. LockOwned'
    BY <1>1, <1>3, <2>1 DEF LockOwned, InOp, SuspendAt, ResumeAt
  <2>3. QED
    BY <2>1, <2>2 DEF Placed, ServesLast, ImageAt, RestoredAt, HandleAt
<1>7. CASE BootFails
  <2>1. /\ pc'[Main] = "exited" /\ lock' = lock
        /\ \A h \in Handlers : pc'[h] = "idle"
    BY <1>1, <1>2, <1>7 DEF BootFails, Goto
  <2>2. LockOwned'
    BY <1>1, <1>3, <2>1 DEF LockOwned, InOp, SuspendAt, ResumeAt
  <2>3. QED
    BY <2>1, <2>2 DEF Placed, ServesLast, ImageAt, RestoredAt, HandleAt
<1>8. QED
  BY <1>4, <1>5, <1>6, <1>7 DEF BootStep

\* The control server's requests and replies preserve the invariant.
LEMMA RequestInv ==
  ASSUME Inv, NEW h \in Handlers, Request(h) \/ Reply(h)
  PROVE  LockOwned' /\ Placed' /\ ServesLast'
<1>1. /\ pc \in [Threads -> Positions] /\ h # Main /\ h \in Threads
      /\ Main \notin Handlers /\ NoThread \notin Threads
  BY ThreadsAssumption DEF Inv, TypeOK, LauncherOK
<1>2. /\ UNCHANGED <<slot, opTree, handle>>
      /\ ~InOp(h)
      /\ pc' = [pc EXCEPT ![h] = pc'[h]]
      /\ \/ /\ pc'[h] \in {"s_check", "r_check"}
            /\ lock = NoThread /\ lock' = h
         \/ pc'[h] \in {"idle", "busy"} /\ lock' = lock
      /\ pc[Main] = "serving" \/ pc'[h] = "idle"
  BY <1>1
     DEF Request, Suspend, Resume, Begin, Busy, Reply, Accept, Goto, InOp,
         SuspendAt, ResumeAt, Replies, opVars, handleVars, imageVars
<1>3. LockOwned'
  BY <1>1, <1>2 DEF Inv, LockOwned, InOp, SuspendAt, ResumeAt
<1>4. Placed'
  <2>1. pc'[h] \notin ImageAt \cup RestoredAt \cup HandleAt
    BY <1>2 DEF ImageAt, RestoredAt, HandleAt
  <2>2. QED
    BY <1>1, <1>2, <2>1, PlacedAt DEF Inv, Placed
<1>5. ServesLast'
  BY <1>1, <1>2 DEF Inv, ServesLast
<1>6. QED
  BY <1>3, <1>4, <1>5

\* checkpoint_vllm preserves where the operation's variables stand.
LEMMA SuspendPlaced ==
  ASSUME Inv, NEW h \in Handlers, SuspendStep(h)
  PROVE  Placed'
<1>1. Moves(h) /\ h \in Threads /\ h # Main
  BY SuspendMoves, ThreadsAssumption DEF Inv
<1>2. /\ handle' = handle
      /\ pc[h] \in SuspendAt /\ pc'[h] \in SuspendAt \cup Replies
  BY <1>1
     DEF SuspendStep, SuspendChecks, SuspendRefused, Sleep, SleepTimesOut,
         Prepare, TerminateTrackers, CudaLock, CudaSave, CriuDump, Publish,
         Commit, SuspendThrows, SuspendCleansUp, Rollback, WakeLevel2,
         SuspendResets, SuspendFinally, SuspendAt, Replies, Goto, handleVars,
         Inv, TypeOK, LauncherOK, Moves
<1>3. ASSUME NEW u \in Threads, u # h
      PROVE  pc'[u] = pc[u] /\ pc[u] \notin ResumeAt
  BY <1>1, <1>3, OthersRest DEF Moves, InOp, Inv, TypeOK, LauncherOK
<1>4. QED
  BY <1>1, <1>2, <1>3, PlacedAt
     DEF Inv, Placed, ImageAt, RestoredAt, HandleAt, SuspendAt, ResumeAt,
         Replies

\* The status poll preserves them,
LEMMA AskPlaced ==
  ASSUME Inv, NEW t \in Threads, Ask(t)
  PROVE  Placed'
<1>1. /\ UNCHANGED <<slot, opTree, handle>> /\ opTree \in Trees
      /\ pc' = [pc EXCEPT ![t] = pc'[t]]
      /\ pc'[t] \in {"s_sleep", "r_cuda", "r_handshake", "r_local"}
  BY AskMoves
     DEF Ask, Answered, Live, Moves, Inv, opVars, handleVars, imageVars
<1>2. QED
  BY <1>1, PlacedAt
     DEF Inv, TypeOK, LauncherOK, Placed, ImageAt, RestoredAt, HandleAt

\* and so does restore_vllm.
LEMMA ResumePlaced ==
  ASSUME Inv, NEW t \in Threads, ResumeStep(t)
  PROVE  Placed'
<1> DEFINE Leads == /\ pc'[t] \in ImageAt => slot' \in Trees
                    /\ pc'[t] \in RestoredAt => opTree' \in Trees
                    /\ pc'[t] \in HandleAt => handle' \in Trees
                    /\ handle' = handle \/ handle' \in Trees
<1>1. Moves(t) /\ pc \in [Threads -> Positions]
  BY ResumeMoves DEF Inv, TypeOK, LauncherOK
<1>2. /\ pc[t] \in ImageAt => slot \in Trees
      /\ pc[t] \in RestoredAt => opTree \in Trees
      /\ pc[t] \in HandleAt => handle \in Trees
      /\ slot \in Trees \cup {NoTree}
  BY PlacedAt DEF Inv, TypeOK, ImageOK
<1> USE DEF Goto, ImageAt, RestoredAt, HandleAt
<1>3. ResumeChecks(t) => Leads
  BY <1>1, <1>2 DEF ResumeChecks, imageVars, handleVars
<1>4. MarkPending(t) => Leads
  BY <1>1, <1>2 DEF MarkPending, imageVars, handleVars
<1>5. CriuRestore(t) => Leads
  BY <1>1, <1>2 DEF CriuRestore, handleVars
<1>6. CudaRestore(t) => Leads
  BY <1>1, <1>2 DEF CudaRestore, opVars, handleVars
<1>7. MarkRequest(t) => Leads
  BY <1>1, <1>2 DEF MarkRequest, opVars, handleVars
<1>8. Adopt(t) => Leads
  BY <1>1, <1>2 DEF Adopt, opVars
<1>9. RemoveBegins(t) => Leads
  BY <1>1, <1>2 DEF RemoveBegins, opVars, handleVars
<1>10. RemoveEnds(t) => Leads
  BY <1>1, <1>2 DEF RemoveEnds, opVars, handleVars
<1>11. ResumeCommits(t) => Leads
  BY <1>1, <1>2 DEF ResumeCommits, opVars, handleVars
<1>12. ResumeThrows(t) => Leads
  BY <1>1, <1>2 DEF ResumeThrows, handleVars
<1>13. ResumeCleansUp(t) => Leads
  BY <1>1, <1>2 DEF ResumeCleansUp, handleVars
<1>14. ArchiveFailed(t) => Leads
  BY <1>1, <1>2 DEF ArchiveFailed, handleVars
<1>15. FallbackStarts(t) => Leads
  BY <1>1, <1>2, NewTreeUnused DEF FallbackStarts, StartVllm, Unused
<1>16. FallbackReady(t) => Leads
  BY <1>1, <1>2 DEF FallbackReady, Live, handleVars
<1>17. FallbackTimesOut(t) => Leads
  BY <1>1, <1>2 DEF FallbackTimesOut, handleVars
<1>18. FallbackFails(t) => Leads
  BY <1>1, <1>2 DEF FallbackFails, handleVars
<1>19. ResumeGivesUp(t) => Leads
  BY <1>1, <1>2 DEF ResumeGivesUp, handleVars
<1>20. ResumeFinally(t) => Leads
  BY <1>1, <1>2 DEF ResumeFinally, handleVars, Outcome
<1>21. ResumeLosesLock(t) => Leads
  BY <1>1, <1>2 DEF ResumeLosesLock, handleVars, Outcome
<1>22. Leads
  BY <1>3, <1>4, <1>5, <1>6, <1>7, <1>8, <1>9, <1>10, <1>11, <1>12, <1>13,
     <1>14, <1>15, <1>16, <1>17, <1>18, <1>19, <1>20, <1>21
     DEF ResumeStep
<1>23. ASSUME NEW u \in Threads, u # t
      PROVE  pc'[u] = pc[u] /\ ~InOp(u)
  BY <1>1, <1>23, OthersRest DEF Moves
<1>24. QED
  BY <1>1, <1>22, <1>23, PlacedAt DEF Inv, Placed, InOp, SuspendAt, ResumeAt

\* The steps of reapers, of the engine and of the world, except a crash, leave
\* the threads and what the invariant says of them alone.
LEMMA OtherStepsFrame ==
  ASSUME Inv,
         \/ \E r \in reapers : ReaperStep(r)
         \/ \E x \in Trees : EngineStep(x) \/ TreeDies(x) \/ TreeStops(x)
         \/ ForwardSignal
  PROVE  UNCHANGED <<lock, pc, slot, torn, opTree, handle, restored, request>>
  BY DEF ReaperStep, ReaperWaits, ReaperReads, ReaperSets, EngineStep,
         EngineRestoreBegins, EngineRestoreDone, EngineRestoreFails, TreeDies,
         TreeStops, ForwardSignal, opVars, handleVars, imageVars, markerVars

\* A step that leaves threads, lock and handle alone preserves the invariant.
LEMMA FrameInv ==
  ASSUME Inv, UNCHANGED <<lock, pc, slot, opTree, handle>>
  PROVE  LockOwned' /\ Placed' /\ ServesLast'
<1>1. LockOwned'
  BY DEF Inv, LockOwned, InOp
<1>2. Placed'
  BY DEF Inv, Placed
<1>3. ServesLast'
  BY DEF Inv, ServesLast
<1>4. QED
  BY <1>1, <1>2, <1>3

\* A crash of the container re-establishes the invariant.
LEMMA CrashInv ==
  ASSUME Inv, Crash
  PROVE  LockOwned' /\ Placed' /\ ServesLast'
<1>1. /\ pc' = [t \in Threads |-> IF t = Main THEN "m_boot" ELSE "idle"]
      /\ lock' = NoThread
  BY DEF Crash
<1>2. Main \notin Handlers /\ NoThread \notin Threads
  BY ThreadsAssumption
<1>3. LockOwned'
  BY <1>1, <1>2 DEF LockOwned, InOp, SuspendAt, ResumeAt
<1>4. Placed'
  BY <1>1 DEF Placed, ImageAt, RestoredAt, HandleAt
<1>5. ServesLast'
  BY <1>1, <1>2 DEF ServesLast
<1>6. QED
  BY <1>3, <1>4, <1>5

\* Every step preserves the invariant.
LEMMA NextInv == Inv /\ [Next]_vars => Inv'
<1> SUFFICES ASSUME Inv, [Next]_vars PROVE Inv'
    OBVIOUS
<1> USE DEF Inv
<1>1. CASE UNCHANGED vars
  BY <1>1, TypeFrame, FrameInv DEF vars, TypeOK, opVars, handleVars, imageVars
<1>2. CASE BootStep
  BY <1>2, BootType, BootInv
<1>3. ASSUME NEW h \in Handlers, Request(h) \/ Reply(h) PROVE Inv'
  BY <1>3, RequestType, RequestInv
<1>4. ASSUME NEW h \in Handlers, SuspendStep(h) PROVE Inv'
  BY <1>4, SuspendType, SuspendMoves, SuspendPlaced, MovesKeepLock
<1>5. ASSUME NEW t \in Threads, Ask(t) PROVE Inv'
  BY <1>5, AskType, AskMoves, AskPlaced, MovesKeepLock
<1>6. ASSUME NEW t \in Threads, ResumeStep(t) PROVE Inv'
  BY <1>6, ResumeType, ResumeMoves, ResumePlaced, MovesKeepLock
<1>7. ASSUME NEW r \in reapers, ReaperStep(r) PROVE Inv'
  BY <1>7, ReaperType, OtherStepsFrame, FrameInv
<1>8. ASSUME NEW x \in Trees, EngineStep(x) PROVE Inv'
  BY <1>8, EngineType, OtherStepsFrame, FrameInv
<1>9. CASE World
  BY <1>9, WorldType, CrashInv, OtherStepsFrame, FrameInv DEF World
<1>10. QED
  BY <1>1, <1>2, <1>3, <1>4, <1>5, <1>6, <1>7, <1>8, <1>9 DEF Next

\* The invariant always holds.
LEMMA Invariance == Spec => []Inv
  BY InitInv, NextInv, PTL DEF Spec

\* Every variable keeps its type, whatever fails and however often the
\* container restarts: in particular a resume never works on a missing image
\* or tree (the whole of launcher.py).
THEOREM TypeCorrect == Spec => []TypeOK
  BY Invariance, PTL DEF Inv

\* operation_lock is held by exactly the thread that runs an operation, for
\* any number of handlers and through every exception but one: where the
\* finally of a resume cannot unlink a marker it stays Lost, and then no thread
\* runs an operation (launcher.py:288-348, 355-467).
THEOREM LockIsOwned == Spec => []LockOwned
  BY Invariance, PTL DEF Inv

(***************************************************************************)
(* The request marker                                                      *)
(***************************************************************************)
\* Where the marker may exist: not from the clean-up after a failed resume to
\* the end of the fallback.  A finally that cannot remove it loses the lock.
RequestAt == ResumeAt \ {"r_archive", "r_start", "r_wait"}

RequestHeld ==
  request => \/ pc[Main] \in {"m_boot", "exited"} \/ lock = Lost
             \/ \E t \in Threads : lock = t /\ pc[t] \in RequestAt

\* While a thread runs an operation the marker can only be its own.
LEMMA RequestIsMine ==
  ASSUME Inv, RequestHeld, request, NEW t \in Threads, InOp(t)
  PROVE  pc[t] \in RequestAt
<1>1. lock = t
  BY DEF Inv, LockOwned
<1>2. pc[Main] \notin {"m_boot", "exited"} /\ lock # Lost
  <2>1. CASE t = Main
    BY <1>1, <2>1, ThreadsAssumption DEF InOp, SuspendAt, ResumeAt
  <2>2. CASE t \in Handlers
    BY <1>1, <2>2, ThreadsAssumption
       DEF Inv, ServesLast, InOp, SuspendAt, ResumeAt
  <2>3. QED
    BY <2>1, <2>2
<1>3. QED
  BY <1>1, <1>2 DEF RequestHeld

\* main() starts a process only when there is no marker, or the lock is lost.
LEMMA NoRequestAtStart ==
  ASSUME Inv, RequestHeld, pc[Main] \in {"m_start", "m_reap"}
  PROVE  ~request \/ lock = Lost
<1>1. ASSUME NEW t \in Threads PROVE ~InOp(t)
  BY <1>1 DEF Inv, ServesLast, InOp, SuspendAt, ResumeAt
<1>2. QED
  BY <1>1 DEF RequestHeld, RequestAt, InOp

\* restore_vllm leaves no request marker without a resume that holds it.
LEMMA ResumeKeepsRequest ==
  ASSUME Inv, RequestHeld, NEW t \in Threads, ResumeStep(t)
  PROVE  request' => \/ pc'[t] \in RequestAt /\ lock' = lock
                     \/ lock' = Lost
<1>1. Moves(t) /\ pc \in [Threads -> Positions]
  BY ResumeMoves DEF Inv, TypeOK, LauncherOK
<1>2. request => pc[t] \in RequestAt
  BY <1>1, RequestIsMine DEF Moves
<1> DEFINE Mine == request' => \/ pc'[t] \in RequestAt /\ lock' = lock
                              \/ lock' = Lost
<1> USE DEF RequestAt, ResumeAt, Goto
<1>3. ResumeChecks(t) => Mine
  BY <1>1, <1>2 DEF ResumeChecks, ResumeMarkers
<1>4. MarkPending(t) => Mine
  BY <1>1, <1>2 DEF MarkPending
<1>5. CriuRestore(t) => Mine
  BY <1>1, <1>2 DEF CriuRestore, markerVars
<1>6. CudaRestore(t) => Mine
  BY <1>1, <1>2 DEF CudaRestore, markerVars
<1>7. MarkRequest(t) => Mine
  BY <1>1, <1>2 DEF MarkRequest
<1>8. Adopt(t) => Mine
  BY <1>1, <1>2 DEF Adopt, markerVars
<1>9. RemoveBegins(t) => Mine
  BY <1>1, <1>2 DEF RemoveBegins, markerVars
<1>10. RemoveEnds(t) => Mine
  BY <1>1, <1>2 DEF RemoveEnds, markerVars
<1>11. ResumeCommits(t) => Mine
  BY <1>1, <1>2 DEF ResumeCommits, markerVars
<1>12. ResumeThrows(t) => Mine
  BY <1>1, <1>2 DEF ResumeThrows, markerVars
<1>13. ResumeCleansUp(t) => Mine
  BY <1>1, <1>2 DEF ResumeCleansUp, FallbackMarkers, FallbackMarkersFail
<1>14. ArchiveFailed(t) => Mine
  BY <1>1, <1>2 DEF ArchiveFailed, markerVars
<1>15. FallbackStarts(t) => Mine
  BY <1>1, <1>2 DEF FallbackStarts, markerVars, StartVllm
<1>16. FallbackReady(t) => Mine
  BY <1>1, <1>2 DEF FallbackReady, markerVars
<1>17. FallbackTimesOut(t) => Mine
  BY <1>1, <1>2 DEF FallbackTimesOut, markerVars
<1>18. FallbackFails(t) => Mine
  BY <1>1, <1>2 DEF FallbackFails, markerVars
<1>19. ResumeGivesUp(t) => Mine
  BY <1>1, <1>2 DEF ResumeGivesUp, markerVars
<1>20. ResumeFinally(t) => Mine
  BY <1>1, <1>2 DEF ResumeFinally, FinallyMarkers
<1>21. ResumeLosesLock(t) => Mine
  BY DEF ResumeLosesLock
<1>22. QED
  BY <1>3, <1>4, <1>5, <1>6, <1>7, <1>8, <1>9, <1>10, <1>11, <1>12, <1>13,
     <1>14, <1>15, <1>16, <1>17, <1>18, <1>19, <1>20, <1>21
     DEF ResumeStep

\* Every step preserves that a request marker has its resume.
LEMMA RequestHeldStep == Inv /\ RequestHeld /\ [Next]_vars => RequestHeld'
<1> SUFFICES ASSUME Inv, RequestHeld, [Next]_vars PROVE RequestHeld'
    OBVIOUS
<1>1. CASE UNCHANGED <<lock, pc, request>>
  BY <1>1 DEF RequestHeld
<1>2. CASE BootStep
  <2>1. CASE Boot
    BY <2>1 DEF Boot, BootMarkers, RequestHeld
  <2>2. CASE BootStarts \/ BootServes
    <3>1. ~request \/ lock = Lost
      BY <2>2, NoRequestAtStart DEF BootStarts, BootServes
    <3>2. request' = request /\ lock' = lock
      BY <2>2 DEF BootStarts, BootServes, markerVars
    <3>3. QED
      BY <3>1, <3>2 DEF RequestHeld
  <2>3. CASE BootFails
    BY <2>3 DEF BootFails, Goto, Inv, TypeOK, LauncherOK, RequestHeld
  <2>4. QED
    BY <1>2, <2>1, <2>2, <2>3 DEF BootStep
<1>3. ASSUME NEW h \in Handlers, Request(h) \/ Reply(h) PROVE RequestHeld'
  <2>1. /\ request' = request
        /\ ~InOp(h)
        /\ \A u \in Threads : u # h => pc'[u] = pc[u]
        /\ lock = NoThread \/ lock' = lock
    BY <1>3
       DEF Request, Suspend, Resume, Begin, Busy, Reply, Accept, Goto, InOp,
           SuspendAt, ResumeAt, Replies, markerVars, Inv, TypeOK, LauncherOK
  <2>2. NoThread \notin Threads /\ Main # h /\ Lost # NoThread
    BY ThreadsAssumption
  <2>3. QED
    BY <2>1, <2>2 DEF RequestHeld, RequestAt, InOp
<1>4. ASSUME NEW h \in Handlers, SuspendStep(h) PROVE RequestHeld'
  <2>1. request' = request /\ pc[h] \in SuspendAt
    BY <1>4
       DEF SuspendStep, SuspendChecks, SuspendRefused, Sleep, SleepTimesOut,
           Prepare, TerminateTrackers, CudaLock, CudaSave, CriuDump, Publish,
           Commit, SuspendThrows, SuspendCleansUp, Rollback, WakeLevel2,
           SuspendResets, SuspendFinally, SuspendAt, markerVars
  <2>2. ~request
    BY <2>1, RequestIsMine DEF InOp, SuspendAt, RequestAt, ResumeAt
  <2>3. QED
    BY <2>1, <2>2 DEF RequestHeld
<1>5. ASSUME NEW t \in Threads, Ask(t) PROVE RequestHeld'
  <2>1. /\ Moves(t) /\ lock' = lock /\ request' = request
        /\ pc[t] \in DOMAIN Answered
        /\ pc'[t] = Answered[pc[t]]
    BY <1>5, AskMoves DEF Ask, markerVars, Inv
  <2>2. request => lock = t /\ pc[t] \in RequestAt
    BY <2>1, RequestIsMine DEF Moves, Inv, LockOwned
  <2>3. pc[t] \in RequestAt => pc'[t] \in RequestAt
    BY <2>1 DEF Answered, RequestAt, ResumeAt
  <2>4. QED
    BY <2>1, <2>2, <2>3 DEF RequestHeld
<1>6. ASSUME NEW t \in Threads, ResumeStep(t) PROVE RequestHeld'
  <2>1. lock = t
    BY <1>6, ResumeMoves DEF Moves, Inv, LockOwned
  <2>2. QED
    BY <1>6, <2>1, ResumeKeepsRequest DEF RequestHeld
<1>7. CASE \/ \E r \in reapers : ReaperStep(r)
           \/ \E x \in Trees : EngineStep(x)
  BY <1>1, <1>7, OtherStepsFrame
<1>8. CASE World
  <2>1. CASE Crash
    BY <2>1 DEF Crash, RequestHeld
  <2>2. QED
    BY <1>1, <1>8, <2>1, OtherStepsFrame DEF World
<1>9. QED
  BY <1>1, <1>2, <1>3, <1>4, <1>5, <1>6, <1>7, <1>8
     DEF Next, vars, markerVars

\* A request marker always has its resume.
LEMMA RequestInvariance == Spec => [](Inv /\ RequestHeld)
<1>1. Init => RequestHeld
  BY DEF Init, RequestHeld
<1>2. QED
  BY <1>1, InitInv, NextInv, RequestHeldStep, PTL DEF Spec

\* The request marker exists only within a resume, on the disk after a crash
\* and before main() removes it, or together with a lost lock
\* (launcher.py:379-382, 428-435, 464-466, 567-569).
THEOREM RequestIsScoped == Spec => []RequestScoped
<1>1. Inv /\ RequestHeld => RequestScoped
  BY DEF RequestHeld, RequestScoped, RequestAt
<1>2. QED
  BY <1>1, RequestInvariance, PTL

(***************************************************************************)
(* Which steps bring a tree to life                                        *)
(***************************************************************************)
Running(x) == x \in Trees /\ tree[x] \in {"live", "stopping", "abandoned"}

\* No step but a start and a CRIU restore makes a tree run.
NoneStarted ==
  \A x \in Trees :
    /\ tree'[x] = "live" => tree[x] = "live"
    /\ Running(x)' => Running(x)
    /\ tree'[x] \in {"live", "stopping"} => tree[x] \in {"live", "stopping"}

\* No step but a fallback that gives up tells a tree to leave.
NoneAbandoned ==
  \A x \in Trees : tree'[x] = "abandoned" => tree[x] = "abandoned"

\* A step that leaves the trees alone starts no vLLM.
LEMMA UnchangedStartsNone == UNCHANGED tree => NoneStarted /\ NoneAbandoned
  BY DEF NoneStarted, NoneAbandoned, Running

\* A suspend starts no vLLM.
LEMMA SuspendStartsNone ==
  ASSUME TypeOK, NEW h \in Handlers, SuspendStep(h)
  PROVE  NoneStarted /\ NoneAbandoned
<1>1. tree \in [Trees -> TreeStates]
  BY DEF TypeOK, TreeOK
<1>2. CASE UNCHANGED tree
  BY <1>2, UnchangedStartsNone
<1>3. CASE tree' = Reaped(tree)
  BY <1>1, <1>3 DEF Reaped, NoneStarted, NoneAbandoned, Running
<1>4. CASE tree' = Polled
  BY <1>1, <1>4 DEF Polled, NoneStarted, NoneAbandoned, Running
<1>5. CASE tree' = [tree EXCEPT ![opTree] = "zombie"]
  BY <1>1, <1>5 DEF NoneStarted, NoneAbandoned, Running
<1>6. QED
  BY <1>2, <1>3, <1>4, <1>5
     DEF SuspendStep, SuspendChecks, SuspendRefused, Sleep, SleepTimesOut,
         Prepare, TerminateTrackers, CudaLock, CudaSave, CriuDump, Publish,
         Commit, SuspendThrows, SuspendCleansUp, Rollback, WakeLevel2,
         SuspendResets, SuspendFinally, treeVars

\* A resume starts one only with criu restore or as its fallback.
LEMMA ResumeStartsNone ==
  ASSUME TypeOK, NEW t \in Threads, ResumeStep(t), ~CriuRestore(t),
         ~FallbackStarts(t)
  PROVE  NoneStarted /\ (FallbackTimesOut(t) \/ NoneAbandoned)
<1>1. tree \in [Trees -> TreeStates]
  BY DEF TypeOK, TreeOK
<1>2. CASE UNCHANGED tree
  BY <1>2, UnchangedStartsNone
<1>3. CASE ResumeCleansUp(t)
  BY <1>1, <1>3
     DEF ResumeCleansUp, TerminateRestored, Reaped, InProc, NoneStarted,
         NoneAbandoned, Running
<1>4. CASE FallbackTimesOut(t)
  BY <1>1, <1>4 DEF FallbackTimesOut, Up, NoneStarted, Running
<1>5. QED
  BY <1>2, <1>3, <1>4
     DEF ResumeStep, ResumeChecks, MarkPending, CudaRestore, MarkRequest, Adopt,
         RemoveBegins, RemoveEnds, ResumeCommits, ResumeThrows, ArchiveFailed,
         FallbackReady, FallbackFails, ResumeGivesUp, ResumeFinally,
         ResumeLosesLock, treeVars

\* Neither the reapers, the EngineCore nor signals and exits start one,
LEMMA OtherStepsStartNone ==
  ASSUME TypeOK,
         \/ \E r \in reapers : ReaperStep(r)
         \/ \E x \in Trees : EngineStep(x)
         \/ World
  PROVE  NoneStarted /\ NoneAbandoned
<1>1. tree \in [Trees -> TreeStates]
  BY DEF TypeOK, TreeOK
<1>2. ASSUME NEW r \in reapers, ReaperStep(r)
      PROVE  NoneStarted /\ NoneAbandoned
  BY <1>1, <1>2
     DEF ReaperStep, ReaperWaits, ReaperReads, ReaperSets, treeVars,
         NoneStarted, NoneAbandoned, Running
<1>3. ASSUME NEW x \in Trees, EngineStep(x) PROVE NoneStarted /\ NoneAbandoned
  BY <1>1, <1>3
     DEF EngineStep, EngineRestoreBegins, EngineRestoreDone, EngineRestoreFails,
         NoneStarted, NoneAbandoned, Running
<1>4. ASSUME NEW x \in Trees, TreeDies(x) \/ TreeStops(x)
      PROVE  NoneStarted /\ NoneAbandoned
  BY <1>1, <1>4 DEF TreeDies, TreeStops, NoneStarted, NoneAbandoned, Running
<1>5. CASE ForwardSignal
  BY <1>1, <1>5 DEF ForwardSignal, Live, NoneStarted, NoneAbandoned, Running
<1>6. CASE Crash
  BY <1>1, <1>6 DEF Crash, NoneStarted, NoneAbandoned, Running
<1>7. QED
  BY <1>2, <1>3, <1>4, <1>5, <1>6 DEF World

\* nor do the boot's first step, requests, replies and status polls.
LEMMA QuietStepsStartNone ==
  ASSUME TypeOK,
         \/ Boot \/ BootServes \/ BootFails
         \/ \E h \in Handlers : Request(h) \/ Reply(h)
         \/ \E t \in Threads : Ask(t)
  PROVE  NoneStarted /\ NoneAbandoned
<1>1. UNCHANGED treeVars
  BY DEF Boot, BootServes, BootFails, Request, Suspend, Resume, Begin, Busy,
         Reply, Ask
<1>2. QED
  BY <1>1, UnchangedStartsNone DEF treeVars

\* Unless the lock is lost, a process started afresh never comes up in front of
\* a request marker, which would run the restore-only worker bootstrap while
\* its model is resident (launcher.py:428-443, 567-579).
THEOREM FreshNeverSeesRequest == Spec => FreshSeesNoRequest
<1> DEFINE Safe == \A x \in Trees :
                     tree[x] # "live" /\ tree'[x] = "live" /\ x # slot
                       => ~request' \/ lock = Lost
<1>1. Inv /\ RequestHeld /\ [Next]_vars => [Safe]_vars
  <2> SUFFICES ASSUME Inv, RequestHeld, Next PROVE Safe
      BY DEF vars
  <2>1. CASE NoneStarted
    BY <2>1 DEF NoneStarted
  <2>2. CASE BootStarts
    <3>1. /\ ~request \/ lock = Lost
          /\ request' = request
      BY <2>2, NoRequestAtStart DEF BootStarts, markerVars
    <3>2. QED
      BY <3>1
  <2>3. ASSUME NEW t \in Threads, CriuRestore(t) PROVE Safe
    <3>1. /\ tree \in [Trees -> TreeStates]
          /\ tree' = [tree EXCEPT ![slot] = "live"]
      BY <2>3 DEF CriuRestore, Inv, TypeOK, TreeOK
    <3>2. QED
      BY <3>1
  <2>4. ASSUME NEW t \in Threads, FallbackStarts(t) PROVE Safe
    <3>1. InOp(t) /\ pc[t] \notin RequestAt /\ request' = request
      BY <2>4 DEF FallbackStarts, InOp, RequestAt, ResumeAt, markerVars
    <3>2. ~request
      BY <3>1, RequestIsMine
    <3>3. QED
      BY <3>1, <3>2
  <2>5. QED
    BY <2>1, <2>2, <2>3, <2>4, SuspendStartsNone, ResumeStartsNone,
       OtherStepsStartNone, QuietStepsStartNone
       DEF Next, BootStep, Inv
<1>2. QED
  BY <1>1, RequestInvariance, PTL DEF FreshSeesNoRequest, Spec

(***************************************************************************)
(* The image and the process it was taken from                             *)
(***************************************************************************)
RestoringAt == {"r_find", "r_cuda", "r_marker", "r_ready", "r_handshake",
                "r_local", "r_remove", "r_removed", "r_except"}

\* An image has its process beside it only within the resume that restored it,
\* and a dump is published after its process was killed.
ImageAlone ==
  slot # NoTree /\ Running(slot)
    => \E t \in Threads : pc[t] \in RestoringAt /\ opTree = slot
PublishedDead ==
  \A t \in Threads : pc[t] = "s_publish" => ~Running(opTree)
Alone == ImageAlone /\ PublishedDead

\* An operation that is not restoring finds no running process to the image.
LEMMA ImageIsMine ==
  ASSUME Inv, ImageAlone, NEW t \in Threads, InOp(t), slot # NoTree,
         Running(slot)
  PROVE  pc[t] \in RestoringAt /\ opTree = slot
<1>1. PICK u \in Threads : pc[u] \in RestoringAt /\ opTree = slot
  BY DEF ImageAlone
<1>2. InOp(u)
  BY <1>1 DEF RestoringAt, InOp, ResumeAt
<1>3. QED
  BY <1>1, <1>2, OthersRest

\* A step that starts nothing and leaves the image and the operation alone.
LEMMA FrameAlone ==
  ASSUME Inv, Alone, NoneStarted, UNCHANGED <<pc, slot, opTree>>
  PROVE  Alone'
<1>1. \A x : Running(x)' => Running(x)
  BY DEF NoneStarted, Running
<1>2. QED
  BY <1>1 DEF Alone, ImageAlone, PublishedDead

\* The main thread preserves that an image is alone.
LEMMA BootAlone ==
  ASSUME Inv, Alone, BootStep
  PROVE  Alone'
<1>1. \A t \in Threads : pc[t] \notin RestoringAt /\ pc[t] # "s_publish"
  BY DEF BootStep, Boot, BootStarts, BootServes, BootFails, Inv, ServesLast,
         RestoringAt
<1>2. \A t \in Threads : pc'[t] # "s_publish"
  BY <1>1
     DEF BootStep, Boot, BootStarts, BootServes, BootFails, Goto, Inv, TypeOK,
         LauncherOK
<1>3. slot' = slot /\ ~(slot # NoTree /\ Running(slot))
  BY <1>1
     DEF BootStep, Boot, BootStarts, BootServes, BootFails, imageVars, Alone,
         ImageAlone
<1>4. slot \in Trees => (Running(slot)' => Running(slot))
  <2>1. CASE BootStarts
    <3>1. NewTree \in Trees /\ NewTree # slot
      BY <2>1, NewTreeUnused DEF BootStarts, StartVllm, Unused
    <3>2. slot \in Trees => tree'[slot] = tree[slot]
      BY <2>1, <3>1 DEF BootStarts, StartVllm, Inv, TypeOK, TreeOK
    <3>3. QED
      BY <1>3, <3>2 DEF Running
  <2>2. CASE Boot \/ BootServes \/ BootFails
    <3>1. tree' = tree
      BY <2>2 DEF Boot, BootServes, BootFails, treeVars
    <3>2. QED
      BY <1>3, <3>1 DEF Running
  <2>3. QED
    BY <2>1, <2>2 DEF BootStep
<1>5. QED
  BY <1>2, <1>3, <1>4 DEF Alone, ImageAlone, PublishedDead, Running

\* The control server's requests and replies preserve it.
LEMMA RequestAlone ==
  ASSUME Inv, Alone, NEW h \in Handlers, Request(h) \/ Reply(h)
  PROVE  Alone'
<1>1. /\ UNCHANGED <<tree, slot, opTree>>
      /\ pc'[h] # "s_publish"
      /\ pc[h] \notin RestoringAt
      /\ \A u \in Threads : u # h => pc'[u] = pc[u]
  BY DEF Request, Suspend, Resume, Begin, Busy, Reply, Accept, Goto, Replies,
         RestoringAt, opVars, imageVars, treeVars, Inv, TypeOK, LauncherOK
<1>2. \A x : Running(x)' <=> Running(x)
  BY <1>1 DEF Running
<1>3. QED
  BY <1>1, <1>2 DEF Alone, ImageAlone, PublishedDead

\* checkpoint_vllm preserves it: the dump killed the tree it publishes.
LEMMA SuspendAlone ==
  ASSUME Inv, Alone, NEW h \in Handlers, SuspendStep(h)
  PROVE  Alone'
<1>1. /\ Moves(h) /\ TypeOK
      /\ pc \in [Threads -> Positions]
      /\ tree \in [Trees -> TreeStates]
  BY SuspendMoves DEF Inv, TypeOK, LauncherOK, TreeOK
<1>2. pc[h] \in SuspendAt
  BY DEF SuspendStep, SuspendChecks, SuspendRefused, Sleep, SleepTimesOut,
         Prepare, TerminateTrackers, CudaLock, CudaSave, CriuDump, Publish,
         Commit, SuspendThrows, SuspendCleansUp, Rollback, WakeLevel2,
         SuspendResets, SuspendFinally, SuspendAt
<1>3. ~(slot # NoTree /\ Running(slot))
  BY <1>1, <1>2, ImageIsMine DEF Moves, Alone, SuspendAt, RestoringAt
<1>4. \A x : Running(x)' => Running(x)
  BY <1>1, SuspendStartsNone DEF NoneStarted, Running
<1>5. slot' = slot \/ (slot' = opTree /\ pc[h] = "s_publish")
  <2>1. CASE Publish(h)
    BY <2>1 DEF Publish
  <2>2. CASE ~Publish(h)
    <3>1. UNCHANGED slot \/ UNCHANGED imageVars
      BY <2>2
         DEF SuspendStep, SuspendChecks, SuspendRefused, Sleep, SleepTimesOut,
             Prepare, TerminateTrackers, CudaLock, CudaSave, CriuDump,
             Commit, SuspendThrows, SuspendCleansUp, Rollback, WakeLevel2,
             SuspendResets, SuspendFinally
    <3>2. UNCHANGED imageVars => UNCHANGED slot
      BY DEF imageVars
    <3>3. QED
      BY <3>1, <3>2
  <2>3. QED
    BY <2>1, <2>2
<1>6. ImageAlone'
  BY <1>1, <1>3, <1>4, <1>5 DEF Alone, ImageAlone, PublishedDead, Running,
     Moves
<1>7. pc'[h] = "s_publish" => ~Running(opTree)'
  <2>1. CASE CriuDump(h)
    BY <1>1, <2>1 DEF CriuDump, Running, opVars
  <2>2. CASE ~CriuDump(h)
    <3>1. pc'[h] # "s_publish"
      BY <1>1, <2>2
         DEF SuspendStep, SuspendChecks, SuspendRefused, Sleep, SleepTimesOut,
             Prepare, TerminateTrackers, CudaLock, CudaSave, CriuDump, Publish,
             Commit, SuspendThrows, SuspendCleansUp, Rollback, WakeLevel2,
             SuspendResets, SuspendFinally, Goto
    <3>2. QED
      BY <3>1
  <2>3. QED
    BY <2>1, <2>2
<1>8. ASSUME NEW u \in Threads, u # h PROVE pc'[u] # "s_publish"
  BY <1>1, <1>8, OthersRest DEF Moves, InOp, SuspendAt
<1>9. QED
  BY <1>6, <1>7, <1>8 DEF Alone, PublishedDead

\* The status poll preserves it.
LEMMA AskAlone ==
  ASSUME Inv, Alone, NEW t \in Threads, Ask(t)
  PROVE  Alone'
<1>1. /\ Moves(t) /\ pc[t] \in DOMAIN Answered /\ pc'[t] = Answered[pc[t]]
      /\ pc \in [Threads -> Positions]
      /\ UNCHANGED <<tree, slot, opTree>>
  BY AskMoves DEF Ask, Inv, TypeOK, LauncherOK, treeVars, imageVars, opVars
<1>2. /\ pc'[t] # "s_publish"
      /\ pc[t] \in RestoringAt => pc'[t] \in RestoringAt
  BY <1>1 DEF Answered, RestoringAt
<1>3. \A u \in Threads : u # t => pc'[u] = pc[u]
  BY <1>1 DEF Moves
<1>4. \A x : Running(x)' <=> Running(x)
  BY <1>1 DEF Running
<1>5. QED
  BY <1>1, <1>2, <1>3, <1>4 DEF Alone, ImageAlone, PublishedDead

\* restore_vllm preserves it: the image goes before the handle is used.
LEMMA ResumeAlone ==
  ASSUME Inv, Alone, NEW t \in Threads, ResumeStep(t)
  PROVE  Alone'
<1> DEFINE Kept == slot' # NoTree /\ Running(slot)'
                     => pc'[t] \in RestoringAt /\ opTree' = slot'
<1>1. /\ Moves(t) /\ TypeOK
      /\ pc \in [Threads -> Positions]
      /\ tree \in [Trees -> TreeStates]
      /\ slot \in Trees \cup {NoTree}
  BY ResumeMoves DEF Inv, TypeOK, LauncherOK, TreeOK, ImageOK
<1>2. slot # NoTree /\ Running(slot) => pc[t] \in RestoringAt /\ opTree = slot
  BY <1>1, ImageIsMine DEF Moves, Alone
<1>3. ASSUME CriuRestore(t) PROVE Kept
  <2>1. pc'[t] = "r_find" /\ opTree' = slot /\ slot' = slot
    BY <1>1, <1>3 DEF CriuRestore, Goto, imageVars
  <2>2. Kept
    BY <2>1 DEF RestoringAt
  <2>3. QED
    BY <2>2
<1>4. ASSUME FallbackStarts(t) PROVE Kept
  <2>1. NewTree \in Trees /\ NewTree # slot /\ slot' = slot
    BY <1>4, NewTreeUnused DEF FallbackStarts, StartVllm, Unused, imageVars
  <2>2. slot \in Trees => tree'[slot] = tree[slot]
    BY <1>1, <1>4, <2>1 DEF FallbackStarts, StartVllm
  <2>3. ~(slot # NoTree /\ Running(slot))
    BY <1>2, <1>4 DEF FallbackStarts, RestoringAt
  <2>4. QED
    BY <1>1, <2>1, <2>2, <2>3 DEF Running
<1>5. ASSUME ResumeCleansUp(t) PROVE Kept
  <2>1. slot' = slot
    BY <1>5 DEF ResumeCleansUp, imageVars
  <2>2. ~Running(opTree)'
    BY <1>1, <1>5
       DEF ResumeCleansUp, TerminateRestored, Reaped, InProc, Running, opVars
  <2>3. \A x : Running(x)' => Running(x)
    BY <1>1, <1>3, <1>5, ResumeStartsNone
       DEF ResumeCleansUp, CriuRestore, FallbackStarts, NoneStarted, Running
  <2>4. opTree' = opTree
    BY <1>5 DEF ResumeCleansUp, opVars
  <2>5. QED
    BY <1>2, <2>1, <2>2, <2>3, <2>4 DEF Running
<1>6. ASSUME ~CriuRestore(t) /\ ~FallbackStarts(t) /\ ~ResumeCleansUp(t)
      PROVE  Kept
  <2>1. \A x : Running(x)' => Running(x)
    BY <1>1, <1>6, ResumeStartsNone DEF NoneStarted, Running
  <2>2. slot' = slot \/ slot' = NoTree
    BY <1>6
       DEF ResumeStep, ResumeChecks, MarkPending, CudaRestore, MarkRequest,
           Adopt, RemoveBegins, RemoveEnds, ResumeCommits, ResumeThrows,
           ArchiveFailed, FallbackReady, FallbackTimesOut, FallbackFails,
           ResumeGivesUp, ResumeFinally, ResumeLosesLock, imageVars
  <2>3. pc[t] \in RestoringAt /\ slot' # NoTree
          => pc'[t] \in RestoringAt /\ opTree' = opTree
    <3> USE <1>1, <1>6 DEF RestoringAt, Goto, opVars
    <3>1. CASE RemoveEnds(t)
      BY <3>1 DEF RemoveEnds
    <3>2. CASE ~RemoveEnds(t)
      BY <3>2
         DEF ResumeStep, ResumeChecks, MarkPending, CudaRestore, MarkRequest,
             Adopt, RemoveBegins, ResumeCommits, ResumeThrows, ArchiveFailed,
             FallbackReady, FallbackTimesOut, FallbackFails, ResumeGivesUp,
             ResumeFinally, ResumeLosesLock
    <3>3. QED
      BY <3>1, <3>2
  <2>4. QED
    BY <1>2, <2>1, <2>2, <2>3 DEF Running
<1>7. Kept
  BY <1>3, <1>4, <1>5, <1>6
<1>8. \A u \in Threads : pc'[u] # "s_publish"
  <2>1. pc'[t] # "s_publish"
    BY <1>1
       DEF ResumeStep, ResumeChecks, MarkPending, CriuRestore, CudaRestore,
           MarkRequest, Adopt, RemoveBegins, RemoveEnds, ResumeCommits,
           ResumeThrows, ResumeCleansUp, ArchiveFailed, FallbackStarts,
           FallbackReady, FallbackTimesOut, FallbackFails, ResumeGivesUp,
           ResumeFinally, ResumeLosesLock, Outcome, Goto
  <2>2. ASSUME NEW u \in Threads, u # t PROVE pc'[u] # "s_publish"
    BY <1>1, <2>2, OthersRest DEF Moves, InOp, SuspendAt
  <2>3. QED
    BY <2>1, <2>2
<1>9. QED
  BY <1>7, <1>8 DEF Alone, ImageAlone, PublishedDead

\* A crash leaves no process, so that an image is alone.
LEMMA CrashAlone == Crash => Alone'
<1> SUFFICES ASSUME Crash PROVE Alone'
    OBVIOUS
<1>1. \A x : ~Running(x)'
  BY DEF Crash, Running
<1>2. QED
  BY <1>1 DEF Alone, ImageAlone, PublishedDead

\* Every step preserves that an image is alone.
LEMMA AloneStep == Inv /\ Alone /\ [Next]_vars => Alone'
<1> SUFFICES ASSUME Inv, Alone, [Next]_vars PROVE Alone'
    OBVIOUS
<1>1. TypeOK
  BY DEF Inv
<1>2. CASE UNCHANGED vars
  <2>1. UNCHANGED <<tree, pc, slot, opTree>>
    BY <1>2 DEF vars, treeVars, opVars, imageVars
  <2>2. QED
    BY <2>1, UnchangedStartsNone, FrameAlone
<1>3. ASSUME NEW h \in Handlers, Request(h) \/ Reply(h) \/ SuspendStep(h)
      PROVE  Alone'
  BY <1>3, RequestAlone, SuspendAlone
<1>4. ASSUME NEW t \in Threads, Ask(t) \/ ResumeStep(t) PROVE Alone'
  BY <1>4, AskAlone, ResumeAlone
<1>5. CASE \/ \E r \in reapers : ReaperStep(r)
           \/ \E x \in Trees : EngineStep(x)
  BY <1>1, <1>5, OtherStepsFrame, OtherStepsStartNone, FrameAlone
<1>6. CASE World
  <2>1. CASE Crash
    BY <2>1, CrashAlone
  <2>2. CASE ~Crash
    BY <1>1, <1>6, <2>2, OtherStepsFrame, OtherStepsStartNone, FrameAlone
       DEF World
  <2>3. QED
    BY <2>1, <2>2
<1>7. QED
  BY <1>2, <1>3, <1>4, <1>5, <1>6, BootAlone DEF Next

\* Between operations no image coexists with the process it was taken from
\* (launcher.py:328-334, 412-417, 423-440; checkpoint.py:123-162).
THEOREM ImageXorProcess == Spec => []ImageOrProcess
<1>1. Init => Alone
  BY DEF Init, Alone, ImageAlone, PublishedDead
<1>2. Inv /\ Alone => ImageOrProcess
  <2> SUFFICES ASSUME Inv, Alone, lock \notin Threads, slot # NoTree
               PROVE  slot \notin Up \cup Leaving
      BY DEF ImageOrProcess
  <2>1. \A t \in Threads : ~InOp(t)
    BY DEF Inv, LockOwned
  <2>2. ~Running(slot)
    BY <2>1 DEF Alone, ImageAlone, RestoringAt, InOp, ResumeAt
  <2>3. QED
    BY <2>2 DEF Running, Up, Leaving
<1>3. QED
  BY <1>1, <1>2, InitInv, NextInv, AloneStep, PTL DEF Spec

=============================================================================
