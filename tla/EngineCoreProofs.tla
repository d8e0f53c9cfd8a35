--------------------------- MODULE EngineCoreProofs ---------------------------
(***************************************************************************)
(* Proofs that a restored EngineCore says "done" only of a worker that is  *)
(* back, and says it until the launcher has heard it, unless two threads   *)
(* were in the restore at once: for any number of socket loops and of      *)
(* suspends, any of the threads left blocked, and whatever raises.         *)
(***************************************************************************)
EXTENDS EngineCore, TLAPS

USE DEF vars, launcherVars, markVars, flagVars, supVars, loopVars

(***************************************************************************)
(* The generations                                                         *)
(***************************************************************************)
Pending == IF signal THEN 1 ELSE 0

\* The marker counts for the first generation and every resume signals one
\* more, once.
Counted ==
  /\ gen + Pending <= cycles + 1
  /\ phase # "up" \/ signal => cycles >= 1
  /\ phase \in {"image", "thawed", "asked"} => gen <= cycles
  /\ phase \in {"thawed", "asked"} => ~signal

(***************************************************************************)
(* The process-local restore                                               *)
(***************************************************************************)
\* The launcher asks only a process it has restored, and nothing else starts
\* the restore.
Asked ==
  cycles = 0 => phase = "up" /\ ~request /\ \A r \in Runners : ~Restoring(r)

\* Inside the try of run_local_restore.
Past(r) == at[r] \in {"restore", "reinit", "reload", "wake"}

\* What the stages already done have made of the worker, whatever it was.
Progress ==
  \A r \in Runners :
    /\ at[r] = "reinit" => worker.cleaned = FALSE
    /\ at[r] = "reload" => worker.cleaned = FALSE /\ worker.paused = FALSE
    /\ at[r] = "wake" => worker = Ready

\* One thread is in the restore, with the flag up, as long as nobody has
\* recovered the worker; "done" is said when somebody has.
Alone ==
  /\ \A r \in Runners :
       Restoring(r) => ~complete /\ phase \notin {"up", "image", "thawed"}
  /\ \A r, q \in Runners : Past(r) /\ q # r => ~Restoring(q)
  /\ \A r \in Runners : Past(r) => busy
  /\ Progress
  /\ status = "done" => complete
  /\ status = "done" /\ Alive => worker = Ready

Once ==
  /\ request => phase \in {"asked", "signalled", "killed"}
  /\ ~started => at[Restorer] = "none"
  /\ ~clashed => Alone

(***************************************************************************)
(* Types and generations                                                   *)
(***************************************************************************)
\* The thread that starts the restore thread only moves these two.
LEMMA StartingTypes ==
  ASSUME TypeOK, NEW t \in {Watcher, Supervisor}, NEW p \in Positions,
         StartRestore([at EXCEPT ![t] = p])
  PROVE  /\ started' \in BOOLEAN
         /\ at' \in [{Main, Restorer, Watcher, Supervisor} -> Positions]
<1> DEFINE pos == [at EXCEPT ![t] = p]
<1>1. pos \in [{Main, Restorer, Watcher, Supervisor} -> Positions]
  BY DEF TypeOK
<1>2. "test" \in Positions
  BY DEF Positions
<1> HIDE DEF pos
<1>3. [pos EXCEPT ![Restorer] = "test"]
        \in [{Main, Restorer, Watcher, Supervisor} -> Positions]
  BY <1>1, <1>2
<1>4. at' \in {pos, [pos EXCEPT ![Restorer] = "test"]} /\ started' \in BOOLEAN
  BY DEF pos, StartRestore, TypeOK
<1>5. QED
  BY <1>1, <1>3, <1>4

\* Replacing the loops leaves the type of what it changes.
LEMMA ReplacingTypes ==
  ASSUME TypeOK, NEW g \in 0..(cycles + 1), Replace(g),
         Generation(g) <= cycles + 1
  PROVE  /\ restarted' \in 0..(cycles + 1)
         /\ loopAt' \in [Loops -> LoopPositions]
  BY BoundsAssumption DEF TypeOK, Replace, Generation, LoopPositions

\* The watcher sets the generation for a request only.
LEMMA WatcherSets ==
  ASSUME WatcherWakes
  PROVE  gen' = gen \/ (gen' = 1 /\ request)
  BY DEF WatcherWakes

\* Every step keeps the types and the bound on the generations.
LEMMA TypeStep ==
  TypeOK /\ Counted /\ Asked /\ [Next]_vars => TypeOK' /\ Counted'
<1> SUFFICES ASSUME TypeOK, Counted, Asked, [Next]_vars
             PROVE  TypeOK' /\ Counted'
    OBVIOUS
<1> USE BoundsAssumption, StucksAssumption
    DEF TypeOK, Counted, Asked, Restoring, Pending, Positions, Runners, Main,
        Restorer, Watcher, Supervisor, Leave, Stays, LoopSays, Runs, LoopRuns,
        Alive, LoopPositions, Notify, Forgets, Keeps, Raises
<1>1. ASSUME Dump PROVE TypeOK' /\ Counted'
  BY <1>1 DEF Dump, Ready, Asleep
<1>2. ASSUME Thaw PROVE TypeOK' /\ Counted'
  <2>1. PICK S \in Stucks :
          /\ stuck' = S \ Kinds
          /\ blocked' = {l \in Loops : l[1] \in S /\ loopAt[l] # "none"}
    BY <1>2 DEF Thaw
  <2>2. /\ stuck' \subseteq {Main, Watcher, Supervisor}
        /\ blocked' \subseteq Loops
    BY <2>1
  <2>3. TypeOK'
    BY <1>2, <2>2 DEF Thaw
  <2>4. Counted'
    <3>1. /\ ~signal' /\ gen' = gen /\ cycles' = cycles
          /\ gen <= cycles /\ cycles >= 1
      BY <1>2 DEF Thaw
    <3>2. QED
      BY <3>1
  <2>5. QED
    BY <2>3, <2>4
<1>3. ASSUME MarkRequest PROVE TypeOK' /\ Counted'
  BY <1>3 DEF MarkRequest
<1>4. ASSUME SendSignal PROVE TypeOK' /\ Counted'
  BY <1>4 DEF SendSignal
<1>5. ASSUME EndResume PROVE TypeOK' /\ Counted'
  <2>1. phase' \in {"up", "killed"} /\ request' = FALSE
    BY <1>5 DEF EndResume
  <2>2. UNCHANGED <<cycles, stuck, blocked, markVars, flagVars, supVars,
                    loopVars, gen, restarted, at, worker>>
    BY <1>5 DEF EndResume
  <2>3. TypeOK'
    <3>1. UNCHANGED <<cycles, stuck, blocked, status, event, signal, complete,
                      busy, started, clashed, supGen, supSeen, loopAt, seen,
                      open, owner, gen, restarted, at, worker>>
      BY <2>2 DEF markVars, flagVars, supVars, loopVars
    <3>2. /\ phase' \in {"up", "image", "thawed", "asked", "signalled",
                        "killed"}
          /\ request' \in BOOLEAN
      BY <2>1
    <3>3. QED
      BY <3>1, <3>2
  <2>4. Counted'
    <3>1. gen' = gen /\ cycles' = cycles /\ (signal' <=> signal)
      BY <2>2 DEF markVars
    <3>2. phase = "signalled" /\ (signal => gen <= cycles)
          /\ (gen > 0 => cycles >= 1)
      BY <1>5 DEF EndResume
    <3>3. QED
      BY <2>1, <3>1, <3>2
  <2>5. QED
    BY <2>3, <2>4
<1>6. ASSUME HandleSignal PROVE TypeOK' /\ Counted'
  <2>1. open' \in [Loops -> BOOLEAN]
    BY <1>6 DEF HandleSignal
  <2>2. /\ phase \notin {"image", "asked", "thawed"} /\ cycles >= 1
        /\ gen' <= cycles + 1
    BY <1>6 DEF HandleSignal
  <2>3. gen' \in 0..(cycles' + 1)
    BY <1>6, <2>2 DEF HandleSignal
  <2>4. TypeOK'
    <3>1. UNCHANGED <<launcherVars, status, event, flagVars, supVars, loopAt,
                       seen, owner, restarted, at, worker>>
      BY <1>6 DEF HandleSignal
    <3>2. signal' \in BOOLEAN
      BY <1>6 DEF HandleSignal
    <3>3. QED
      BY <2>1, <2>3, <3>1, <3>2
  <2>5. Counted'
    <3>1. /\ ~signal' /\ gen' = gen + 1 /\ cycles' = cycles /\ phase' = phase
          /\ signal
      BY <1>6 DEF HandleSignal
    <3>2. QED
      BY <2>2, <3>1
  <2>6. QED
    BY <2>4, <2>5
<1>7. ASSUME MainHooks PROVE TypeOK' /\ Counted'
  BY <1>7 DEF MainHooks, Replace, Generation, Positions
<1>8. ASSUME WatcherWakes PROVE TypeOK' /\ Counted'
  <2>1. at' \in [{Main, Restorer, Watcher, Supervisor} -> Positions]
    BY <1>8 DEF WatcherWakes
  <2>2. gen' = gen \/ (gen' = 1 /\ cycles >= 1)
    BY <1>8, WatcherSets
  <2>3. gen' + Pending <= cycles + 1 /\ gen' \in Nat
    BY <2>2
  <2>4. phase \in {"image", "thawed", "asked"} => gen' <= cycles
    BY <2>2
  <2>5. gen' \in 0..(cycles' + 1)
    <3>1. cycles' = cycles
      BY <1>8 DEF WatcherWakes
    <3>2. QED
      BY <2>2, <3>1
  <2>6. TypeOK'
    <3>1. UNCHANGED <<launcherVars, status, signal, flagVars, supVars,
                      loopVars, restarted, worker>>
      BY <1>8 DEF WatcherWakes
    <3>2. event' \in BOOLEAN
      BY <1>8 DEF WatcherWakes
    <3>3. QED
      BY <2>1, <2>5, <3>1, <3>2
  <2>7. Counted'
    BY <1>8, <2>3, <2>4 DEF WatcherWakes
  <2>8. QED
    BY <2>6, <2>7
<1>9. ASSUME WatcherStarts PROVE TypeOK' /\ Counted'
  <2>1. /\ started' \in BOOLEAN
        /\ at' \in [{Main, Restorer, Watcher, Supervisor} -> Positions]
    BY <1>9, StartingTypes DEF WatcherStarts
  <2>2. /\ event' = FALSE
        /\ UNCHANGED <<launcherVars, status, signal, complete, busy, clashed,
                       supVars, loopVars, gen, restarted, worker>>
    BY <1>9 DEF WatcherStarts
  <2>3. TypeOK'
    <3>1. UNCHANGED <<phase, cycles, stuck, blocked, request, status, signal,
                      complete, busy, clashed, supGen, supSeen, loopAt, seen,
                      open, owner, gen, restarted, worker>>
      BY <2>2 DEF launcherVars, supVars, loopVars
    <3>2. QED
      BY <2>1, <2>2, <3>1
  <2>4. Counted'
    BY <2>2 DEF launcherVars
  <2>5. QED
    BY <2>3, <2>4
<1>10. ASSUME SupervisorReads PROVE TypeOK' /\ Counted'
  <2> DEFINE p == IF gen <= 0 /\ request THEN "set" ELSE SupervisorNext(gen)
  <2>1. p \in Positions
    BY DEF SupervisorNext
  <2>2. StartRestore([at EXCEPT ![Supervisor] = p])
    BY <1>10 DEF SupervisorReads
  <2> HIDE DEF p
  <2>3. /\ started' \in BOOLEAN
        /\ at' \in [{Main, Restorer, Watcher, Supervisor} -> Positions]
    BY <2>1, <2>2, StartingTypes
  <2>4. QED
    BY <1>10, <2>3 DEF SupervisorReads
<1>11. ASSUME SupervisorSets PROVE TypeOK' /\ Counted'
  <2> DEFINE p == SupervisorNext(1)
  <2>1. p \in Positions
    BY DEF SupervisorNext
  <2>2. StartRestore([at EXCEPT ![Supervisor] = p])
    BY <1>11 DEF SupervisorSets
  <2> HIDE DEF p
  <2>3. /\ started' \in BOOLEAN
        /\ at' \in [{Main, Restorer, Watcher, Supervisor} -> Positions]
    BY <2>1, <2>2, StartingTypes
  <2>4. QED
    BY <1>11, <2>3 DEF SupervisorSets
<1>12. ASSUME SupervisorReplaces PROVE TypeOK' /\ Counted'
  BY <1>12 DEF SupervisorReplaces, Replace, Generation
<1>13. ASSUME NEW r \in Runners, RunTests(r) PROVE TypeOK' /\ Counted'
  BY <1>13 DEF RunTests, Leave
<1>14. ASSUME NEW r \in Runners, RunEnters(r) PROVE TypeOK' /\ Counted'
  BY <1>14 DEF RunEnters
<1>15. ASSUME NEW r \in Runners, RunStage(r) PROVE TypeOK' /\ Counted'
  <2>1. at[r] \in {"restore", "reinit", "reload"}
    BY <1>15 DEF RunStage, Stages
  <2>2. worker' \in [memory : {"loaded", "asleep", "mapped"},
                     cleaned : BOOLEAN, paused : BOOLEAN]
    BY <1>15, <2>1 DEF RunStage, WorkerAfter
  <2>3. Stages[at[r]] \in Positions
    BY <2>1 DEF Stages
  <2>4. at' = [at EXCEPT ![r] = Stages[at[r]]]
    BY <1>15 DEF RunStage
  <2>5. at' \in [{Main, Restorer, Watcher, Supervisor} -> Positions]
    BY <2>3, <2>4
  <2>6. QED
    BY <1>15, <2>2, <2>5 DEF RunStage
<1>16. ASSUME NEW r \in Runners, RunFinishes(r) PROVE TypeOK' /\ Counted'
  BY <1>16 DEF RunFinishes, Leave
<1>17. ASSUME NEW r \in Runners, RunFails(r) PROVE TypeOK' /\ Counted'
  <2>1. at' \in [{Main, Restorer, Watcher, Supervisor} -> Positions]
    BY <1>17 DEF RunFails
  <2>2. phase' \in {phase, "killed"} /\ (phase # "up" \/ signal => cycles >= 1)
    BY <1>17 DEF RunFails
  <2>3. at[r] \in {"restore", "reinit", "reload", "wake"}
    BY <1>17 DEF RunFails, Stages
  <2>4. cycles >= 1
    BY <2>3
  <2>5. worker' \in [memory : {"loaded", "asleep", "mapped"},
                     cleaned : BOOLEAN, paused : BOOLEAN]
    <3>1. PICK p : /\ worker' = worker \/ worker' = WorkerAfter(p)
                   /\ p \in {"restore", "reinit", "reload", "wake"}
                   /\ p = "wake" => worker' = worker
      BY <1>17 DEF RunFails, Stages
    <3>2. worker \in [memory : {"loaded", "asleep", "mapped"},
                      cleaned : BOOLEAN, paused : BOOLEAN]
      BY DEF TypeOK
    <3>3. CASE worker' = worker
      BY <3>2, <3>3
    <3>4. CASE worker' = WorkerAfter(p) /\ p = "restore"
      BY <3>2, <3>4 DEF WorkerAfter
    <3>5. CASE worker' = WorkerAfter(p) /\ p = "reinit"
      BY <3>2, <3>5 DEF WorkerAfter
    <3>6. CASE worker' = WorkerAfter(p) /\ p = "reload"
      BY <3>2, <3>6 DEF WorkerAfter
    <3>7. QED
      BY <3>1, <3>3, <3>4, <3>5, <3>6
  <2>6. QED
    BY <1>17, <2>1, <2>2, <2>4, <2>5 DEF RunFails
<1>18. ASSUME NEW r \in Runners, RunRaises(r) PROVE TypeOK' /\ Counted'
  <2>1. at' \in [{Main, Restorer, Watcher, Supervisor} -> Positions]
    BY <1>18 DEF RunRaises
  <2>2. cycles >= 1
    BY <1>18 DEF RunRaises
  <2>3. QED
    BY <1>18, <2>1, <2>2 DEF RunRaises
<1>19. ASSUME NEW l \in Loops, Build(l) PROVE TypeOK' /\ Counted'
  <2>1. l[1] \in Kinds /\ owner' \in [Kinds -> Loops]
    BY <1>19 DEF Build, Loops
  <2>2. seen' \in [Loops -> Nat] /\ open' \in [Loops -> BOOLEAN]
    BY <1>19 DEF Build
  <2>3. QED
    BY <1>19, <2>1, <2>2 DEF Build
<1>20. ASSUME NEW l \in Loops, Rebuild(l) PROVE TypeOK' /\ Counted'
  BY <1>20 DEF Rebuild
<1>21. ASSUME NEW l \in Loops, InputSeesMarker(l) PROVE TypeOK' /\ Counted'
  BY <1>21 DEF InputSeesMarker
<1>22. ASSUME NEW l \in Loops, InputTriggers(l) PROVE TypeOK' /\ Counted'
  BY <1>22 DEF InputTriggers
<1>23. ASSUME NEW l \in Loops, LoopDies(l) PROVE TypeOK' /\ Counted'
  BY <1>23 DEF LoopDies
<1>24. CASE UNCHANGED vars
  BY <1>24
<1>25. QED
  BY <1>1, <1>2, <1>3, <1>4, <1>5, <1>6, <1>7, <1>8, <1>9, <1>10, <1>11,
     <1>12, <1>13, <1>14, <1>15, <1>16, <1>17, <1>18, <1>19, <1>20, <1>21,
     <1>22, <1>23, <1>24
     DEF Next, Launcher, RunStep, WatcherStep, SupervisorStep, LoopStep,
         InputStep

(***************************************************************************)
(* The restore                                                             *)
(***************************************************************************)
\* Two threads that have been in the restore at once have been.
LEMMA ClashStays == [Next]_vars /\ ~clashed' => ~clashed
  BY DEF Next, Launcher, Dump, Thaw, MarkRequest, SendSignal, EndResume,
     HandleSignal, MainHooks, RunStep, RunTests, RunEnters, RunRaises,
     RunStage, RunFinishes, RunFails, WatcherStep, WatcherWakes, WatcherStarts,
     SupervisorStep, SupervisorReads, SupervisorSets, SupervisorReplaces,
     LoopStep, InputStep, Build, Rebuild, InputSeesMarker, InputTriggers,
     LoopDies, Stays, Keeps, Raises

\* What the steps of the watcher, the supervisor, the socket loops and the main
\* loop's hook have to do with the restore: at most, a thread comes to test
\* whether to run it.
Aside ==
  /\ UNCHANGED <<launcherVars, status, complete, busy, clashed, worker>>
  /\ \A r \in Runners : \/ at'[r] = at[r]
                        \/ ~Restoring(r) /\ at'[r] = "test"
  /\ ~started' => ~started /\ at'[Restorer] = at[Restorer]

\* Such a step preserves the invariant.
LEMMA AsideOnce == Once /\ Aside => Once'
<1> SUFFICES ASSUME Once, Aside PROVE Once'
    OBVIOUS
<1>1. \A r \in Runners : Restoring(r)' => Restoring(r) /\ at'[r] = at[r]
  BY DEF Restoring, Aside
<1>2. \A r \in Runners : Past(r)' => Past(r) /\ at'[r] = at[r]
  BY DEF Past, Aside
<1>3. Alone => Alone'
  BY <1>1, <1>2 DEF Alone, Aside, Progress, Past, Alive
<1>4. QED
  BY <1>3 DEF Once, Aside

\* The thread that starts the restore thread starts it once.
LEMMA StartingIsAside ==
  ASSUME TypeOK, Once, NEW t \in {Watcher, Supervisor},
         NEW p, StartRestore([at EXCEPT ![t] = p]),
         UNCHANGED <<launcherVars, status, complete, busy, clashed, worker>>
  PROVE  Aside
<1> DEFINE pos == [at EXCEPT ![t] = p]
<1> USE DEF Main, Restorer, Watcher, Supervisor, Runners
<1>1. pos[Main] = at[Main] /\ pos[Restorer] = at[Restorer]
  BY DEF TypeOK
<1>2. /\ [pos EXCEPT ![Restorer] = "test"][Main] = at[Main]
      /\ [pos EXCEPT ![Restorer] = "test"][Restorer] = "test"
  BY DEF TypeOK
<1> HIDE DEF pos
<1>3. CASE /\ ~started /\ started'
           /\ at' = [pos EXCEPT ![Restorer] = "test"]
  <2>1. ~Restoring(Restorer)
    BY <1>3 DEF Once, Restoring
  <2>2. QED
    BY <1>2, <1>3, <2>1 DEF Aside
<1>4. CASE at' = pos /\ started' = started
  BY <1>1, <1>4 DEF Aside
<1>5. QED
  BY <1>3, <1>4 DEF StartRestore, pos

\* Every step of the process beside the restore is such a step.
LEMMA BesideOnce ==
  ASSUME TypeOK, Once,
         \/ HandleSignal \/ MainHooks \/ WatcherStep \/ SupervisorStep
         \/ \E l \in Loops : LoopStep(l) \/ LoopDies(l)
  PROVE  Once'
<1> USE DEF Main, Restorer, Watcher, Supervisor, Runners
<1>1. ASSUME HandleSignal PROVE Aside
  BY <1>1 DEF HandleSignal, Aside
<1>2. ASSUME NEW t \in {Watcher, Supervisor}, NEW p,
             at' = [at EXCEPT ![t] = p]
      PROVE  at'[Main] = at[Main] /\ at'[Restorer] = at[Restorer]
  BY <1>2 DEF TypeOK
<1>3. ASSUME WatcherWakes PROVE Aside
  <2>1. /\ UNCHANGED <<launcherVars, status, complete, busy, clashed, worker,
                       started>>
        /\ at' = at \/ at' = [at EXCEPT ![Watcher] = "start"]
    BY <1>3 DEF WatcherWakes
  <2>2. at'[Main] = at[Main] /\ at'[Restorer] = at[Restorer]
    BY <2>1, <1>2
  <2>3. QED
    BY <2>1, <2>2 DEF Aside
<1>4. ASSUME WatcherStarts PROVE Aside
  BY <1>4, StartingIsAside DEF WatcherStarts
<1>5. ASSUME SupervisorReads PROVE Aside
  BY <1>5, StartingIsAside DEF SupervisorReads
<1>6. ASSUME SupervisorSets PROVE Aside
  BY <1>6, StartingIsAside DEF SupervisorSets
<1>7. ASSUME SupervisorReplaces PROVE Aside
  <2>1. /\ UNCHANGED <<launcherVars, status, complete, busy, clashed, worker,
                       started>>
        /\ at' = [at EXCEPT ![Supervisor] = "read"]
    BY <1>7 DEF SupervisorReplaces
  <2>2. at'[Main] = at[Main] /\ at'[Restorer] = at[Restorer]
    BY <2>1, <1>2
  <2>3. QED
    BY <2>1, <2>2 DEF Aside
<1>8. ASSUME MainHooks PROVE Aside
  <2>1. /\ UNCHANGED <<launcherVars, status, complete, busy, clashed, worker,
                       started>>
        /\ at[Main] = "hook" /\ at' = [at EXCEPT ![Main] = "test"]
    BY <1>8 DEF MainHooks
  <2>2. at'[Main] = "test" /\ at'[Restorer] = at[Restorer]
    BY <2>1 DEF TypeOK
  <2>3. QED
    BY <2>1, <2>2 DEF Aside, Restoring
<1>9. ASSUME NEW l \in Loops, LoopStep(l) \/ LoopDies(l) PROVE Aside
  <2>1. UNCHANGED <<launcherVars, status, complete, busy, clashed, worker,
                    started, at>>
    BY <1>9 DEF LoopStep, InputStep, Build, Rebuild, InputSeesMarker,
       InputTriggers, LoopDies, Keeps
  <2>2. QED
    BY <2>1 DEF Aside
<1>10. QED
  BY <1>1, <1>3, <1>4, <1>5, <1>6, <1>7, <1>8, <1>9, AsideOnce
     DEF WatcherStep, SupervisorStep

\* A process is dumped when nobody is in the restore, restored, asked, and
\* heard.
LEMMA LauncherOnce ==
  ASSUME TypeOK, Once, Launcher
  PROVE  Once'
<1>1. UNCHANGED <<complete, busy, clashed, started, at>>
  BY DEF Launcher, Dump, Thaw, MarkRequest, SendSignal, EndResume
<1>2. \A r \in Runners : /\ Restoring(r)' <=> Restoring(r)
                         /\ Past(r)' <=> Past(r)
                         /\ Past(r) => Restoring(r)
  BY <1>1 DEF Restoring, Past
<1>3. request' => phase' \in {"asked", "signalled", "killed"}
  BY DEF Launcher, Dump, Thaw, MarkRequest, SendSignal, EndResume, Once
<1>4. ASSUME Alone PROVE Alone'
  <2> USE <1>1, <1>2, <1>4 DEF Alone
  <2>1. CASE Dump
    <3>1. \A r \in Runners : ~Restoring(r)
      BY <2>1 DEF Dump
    <3>2. phase' = "image" /\ status' = status
      BY <2>1 DEF Dump
    <3>3. Progress'
      BY <3>1 DEF Progress, Restoring
    <3>4. QED
      BY <3>1, <3>2, <3>3 DEF Alive
  <2>2. CASE Thaw
    <3>1. status' = "none" /\ phase = "image" /\ worker' = worker
      BY <2>2 DEF Thaw
    <3>2. Progress'
      BY <3>1 DEF Progress
    <3>3. QED
      BY <3>1, <3>2
  <2>3. CASE MarkRequest \/ SendSignal
    <3>1. /\ status' = status /\ worker' = worker
          /\ phase' \in {"asked", "signalled"} /\ Alive
      BY <2>3 DEF MarkRequest, SendSignal, Alive
    <3>2. Progress'
      BY <3>1 DEF Progress
    <3>3. QED
      BY <3>1, <3>2
  <2>4. CASE EndResume
    <3>1. /\ status' = status /\ worker' = worker /\ Alive
          /\ status = "done" \/ phase' = "killed"
      BY <2>4 DEF EndResume, Alive
    <3>2. Progress'
      BY <3>1 DEF Progress
    <3>3. QED
      BY <3>1, <3>2
  <2>5. QED
    BY <2>1, <2>2, <2>3, <2>4 DEF Launcher
<1>5. QED
  BY <1>1, <1>3, <1>4 DEF Once

\* A step of a thread that runs the restore, or tests whether to.
LEMMA RunOnce ==
  ASSUME TypeOK, Once, NEW r \in Runners, RunStep(r)
  PROVE  Once'
<1> USE DEF Runners, Main, Restorer, Watcher, Supervisor
<1>1. /\ Alive
      /\ at[r] \in {"test", "enter", "restore", "reinit", "reload", "wake"}
  BY DEF RunStep, RunTests, RunEnters, RunRaises, RunStage, RunFinishes,
     RunFails, Runs, Stages
<1>2. PICK o \in Runners : o # r /\ \A p \in Runners : p = r \/ p = o
  OBVIOUS
<1>3. UNCHANGED <<cycles, stuck, request, started>>
  BY DEF RunStep, RunTests, RunEnters, RunRaises, RunStage, RunFinishes,
     RunFails, Stays, Raises
<1>4. phase' = phase \/ phase' = "killed"
  BY DEF RunStep, RunTests, RunEnters, RunRaises, RunStage, RunFinishes,
     RunFails, Stays, Raises
<1>5. PICK q : at' = [at EXCEPT ![r] = q]
  BY DEF RunStep, RunTests, RunEnters, RunRaises, RunStage, RunFinishes,
     RunFails, Raises
<1>6. /\ at'[r] = q /\ at'[o] = at[o]
      /\ Restoring(o)' <=> Restoring(o)
      /\ Past(o)' <=> Past(o)
  BY <1>2, <1>5 DEF TypeOK, Restoring, Past
<1>7. Past(o) => Restoring(o)
  BY DEF Past, Restoring
<1>8. ~started' => at'[Restorer] = "none"
  BY <1>1, <1>2, <1>3, <1>6 DEF Once
<1>9. request' => phase' \in {"asked", "signalled", "killed"}
  BY <1>3, <1>4 DEF Once
<1>10. ASSUME Alone, ~clashed' PROVE Alone'
  <2> USE <1>2, <1>6, <1>7, <1>10 DEF Alone
  <2>1. CASE RunTests(r)
    <3>1. UNCHANGED <<phase, complete, busy, worker, status>>
      BY <2>1 DEF RunTests, Stays
    <3>2. q = Leave(r) \/ (q = "enter" /\ ~complete /\ ~busy /\ request)
      BY <2>1 DEF RunTests, TypeOK
    <3>3. ~Past(r)' /\ (Restoring(r)' => ~complete /\ ~busy /\ request)
      BY <3>2 DEF Past, Restoring, Leave
    <3>4. Progress'
      BY <3>1, <3>2 DEF Progress, Leave
    <3>5. QED
      BY <3>1, <3>3, <3>4 DEF Once, Alive
  <2>2. CASE RunEnters(r)
    <3>1. /\ UNCHANGED <<phase, complete, worker>>
          /\ status' = "none" /\ busy' = TRUE
      BY <2>2 DEF RunEnters, Stays
    <3>2. Restoring(r) /\ q = "restore" /\ ~Restoring(o)
      BY <2>2 DEF RunEnters, Restoring, TypeOK
    <3>3. Progress'
      BY <3>1, <3>2 DEF Progress
    <3>4. QED
      BY <3>1, <3>2, <3>3
  <2>3. CASE RunRaises(r)
    <3>1. /\ UNCHANGED <<complete, worker>> /\ Restoring(r)
          /\ status' \in {status, "none"} /\ busy' = TRUE
      BY <2>3 DEF RunRaises, Raises, Restoring
    <3>2. q = "ended"
      BY <2>3 DEF RunRaises, Raises, TypeOK
    <3>3. ~Past(r)' /\ ~Restoring(r)'
      BY <3>2 DEF Past, Restoring
    <3>4. Progress'
      BY <3>1, <3>2 DEF Progress
    <3>5. QED
      BY <3>1, <3>3, <3>4, <1>1, <1>4 DEF Alive
  <2>4. CASE RunStage(r)
    <3>1. UNCHANGED <<phase, complete, busy>> /\ status' = "stage"
      BY <2>4 DEF RunStage, Stays
    <3>2. at[r] \in {"restore", "reinit", "reload"}
      BY <2>4 DEF RunStage, Stages
    <3>3. Past(r) /\ Restoring(r) /\ ~Restoring(o)
      BY <3>2 DEF Restoring, Past
    <3>4. q = Stages[at[r]] /\ worker' = WorkerAfter(at[r])
      BY <2>4 DEF RunStage, TypeOK
    <3>5. at[o] \notin {"reinit", "reload", "wake"}
      BY <3>3 DEF Restoring
    <3>6. Progress'
      <4>1. CASE at[r] = "restore"
        BY <4>1, <3>4, <3>5 DEF Progress, Stages, WorkerAfter, TypeOK
      <4>2. CASE at[r] = "reinit"
        <5>1. worker' = [worker EXCEPT !.memory = "mapped", !.paused = FALSE]
          BY <4>2, <3>4 DEF WorkerAfter
        <5>2. worker.cleaned = FALSE
          BY <4>2 DEF Progress
        <5>3. /\ worker'.memory = "mapped" /\ worker'.cleaned = FALSE
              /\ worker'.paused = FALSE
          BY <5>1, <5>2 DEF TypeOK
        <5>4. q = "reload"
          BY <4>2, <3>4 DEF Stages
        <5>5. QED
          BY <5>3, <5>4, <3>5 DEF Progress
      <4>3. CASE at[r] = "reload"
        <5>1. worker' = [worker EXCEPT !.memory = "loaded"]
          BY <4>3, <3>4 DEF WorkerAfter
        <5>2. worker.cleaned = FALSE /\ worker.paused = FALSE
          BY <4>3 DEF Progress
        <5>3. worker' = Ready
          BY <5>1, <5>2 DEF Ready, TypeOK
        <5>4. q = "wake"
          BY <4>3, <3>4 DEF Stages
        <5>5. QED
          BY <5>3, <5>4, <3>5 DEF Progress
      <4>4. QED
        BY <4>1, <4>2, <4>3, <3>2
    <3>7. QED
      BY <3>1, <3>3, <3>6
  <2>5. CASE RunFinishes(r)
    <3>1. complete' /\ status' = "done" /\ phase' = phase
      BY <2>5 DEF RunFinishes, Stays
    <3>2. worker = Ready /\ ~Restoring(o)
      BY <2>5 DEF RunFinishes, Progress, Past
    <3>3. worker' = Ready
      BY <2>5, <3>2 DEF RunFinishes, Ready
    <3>4. q = Leave(r)
      BY <2>5 DEF RunFinishes, TypeOK
    <3>5. ~Restoring(r)' /\ ~Past(r)'
      BY <3>4 DEF Leave, Restoring, Past
    <3>6. Progress'
      BY <3>3 DEF Progress, Ready
    <3>7. QED
      BY <3>1, <3>2, <3>3, <3>5, <3>6
  <2>6. CASE RunFails(r)
    <3>1. UNCHANGED complete /\ status' = "failed" /\ q = "ended"
      BY <2>6 DEF RunFails, Raises, TypeOK
    <3>2. Past(r) /\ ~Restoring(o)
      BY <2>6 DEF RunFails, Past, Stages
    <3>3. ~Restoring(r)' /\ ~Past(r)'
      BY <3>1 DEF Restoring, Past
    <3>4. Progress'
      BY <3>1, <3>2 DEF Progress, Restoring
    <3>5. QED
      BY <3>1, <3>2, <3>3, <3>4
  <2>7. QED
    BY <2>1, <2>2, <2>3, <2>4, <2>5, <2>6 DEF RunStep
<1>11. QED
  BY <1>8, <1>9, <1>10, ClashStays DEF Once, Next

(***************************************************************************)
(* The invariants hold                                                     *)
(***************************************************************************)
\* Nothing restores before the launcher has asked.
LEMMA AskedStep == TypeOK /\ Counted /\ Asked /\ [Next]_vars => Asked'
<1> SUFFICES ASSUME TypeOK, Counted, Asked, [Next]_vars, cycles' = 0
             PROVE  /\ phase' = "up" /\ ~request'
                    /\ \A r \in Runners : ~Restoring(r)'
    BY DEF Asked
<1> USE BoundsAssumption DEF Runners, Main, Restorer, Watcher, Supervisor
<1>1. ASSUME cycles = 0
      PROVE  phase = "up" /\ ~request /\ \A r \in Runners : ~Restoring(r)
  BY <1>1 DEF Asked
<1>2. CASE Launcher
  BY <1>1, <1>2 DEF Launcher, Dump, Thaw, MarkRequest, SendSignal, EndResume,
     TypeOK, Counted
<1>3. ASSUME ~Launcher
      PROVE  UNCHANGED <<cycles, request>>
  BY <1>3 DEF Next, HandleSignal, MainHooks, RunStep, RunTests, RunEnters,
     RunStage, RunFinishes, RunFails, WatcherStep, WatcherWakes, WatcherStarts,
     SupervisorStep, SupervisorReads, SupervisorSets, SupervisorReplaces,
     LoopStep, InputStep, Build, Rebuild, InputSeesMarker, InputTriggers,
     LoopDies, Stays, Keeps, RunRaises, Raises
<1>4. ASSUME NEW x \in Runners, RunStep(x)
      PROVE  phase' = "up" /\ \A r \in Runners : ~Restoring(r)'
  <2>1. cycles = 0
    BY <1>4 DEF RunStep, RunTests, RunEnters, RunStage, RunFinishes, RunFails,
       RunRaises, Raises, Stays
  <2>2. RunTests(x)
    BY <1>1, <1>4, <2>1 DEF RunStep, RunEnters, RunStage, RunFinishes,
       RunFails, RunRaises, Restoring, Stages
  <2>3. phase' = phase /\ at' = [at EXCEPT ![x] = Leave(x)]
    BY <1>1, <2>1, <2>2 DEF RunTests, Stays
  <2>4. QED
    BY <1>1, <2>1, <2>3 DEF Leave, Restoring, TypeOK
<1>5. ASSUME MainHooks
      PROVE  phase' = "up" /\ \A r \in Runners : ~Restoring(r)'
  BY <1>1, <1>5 DEF MainHooks, Restoring, TypeOK
<1>6. ASSUME WatcherStep
      PROVE  phase' = "up" /\ \A r \in Runners : ~Restoring(r)'
  <2>1. cycles = 0 /\ phase' = phase
    BY <1>6 DEF WatcherStep, WatcherWakes, WatcherStarts
  <2>2. at' \in {at, [at EXCEPT ![Watcher] = "ended"]}
    BY <1>1, <1>6, <2>1 DEF WatcherStep, WatcherWakes, WatcherStarts,
       StartRestore
  <2>3. QED
    BY <1>1, <2>1, <2>2 DEF Restoring, TypeOK
<1>7. ASSUME SupervisorStep
      PROVE  phase' = "up" /\ \A r \in Runners : ~Restoring(r)'
  <2>1. cycles = 0 /\ phase' = phase
    BY <1>7 DEF SupervisorStep, SupervisorReads, SupervisorSets,
       SupervisorReplaces
  <2>2. \E p : at' = [at EXCEPT ![Supervisor] = p]
    BY <1>1, <1>7, <2>1 DEF SupervisorStep, SupervisorReads, SupervisorSets,
       SupervisorReplaces, StartRestore
  <2>3. QED
    BY <1>1, <2>1, <2>2 DEF Restoring, TypeOK
<1>8. ASSUME HandleSignal \/ \E l \in Loops : LoopStep(l) \/ LoopDies(l)
      PROVE  UNCHANGED <<cycles, phase, at>>
  BY <1>8 DEF HandleSignal, LoopStep, InputStep, Build, Rebuild,
     InputSeesMarker, InputTriggers, LoopDies, Keeps
<1>9. ASSUME UNCHANGED <<cycles, phase, at>>
      PROVE  phase' = "up" /\ \A r \in Runners : ~Restoring(r)'
  BY <1>1, <1>9 DEF Restoring
<1>10. QED
  BY <1>1, <1>2, <1>3, <1>4, <1>5, <1>6, <1>7, <1>8, <1>9 DEF Next

\* The patched process starts with them.
LEMMA InitCore == Init => TypeOK /\ Counted /\ Asked /\ Once
<1> SUFFICES ASSUME Init PROVE TypeOK /\ Counted /\ Asked /\ Once
    OBVIOUS
<1> USE BoundsAssumption DEF Init
<1>1. at = [t \in {Main, Restorer, Watcher, Supervisor} |->
             CASE t = Main -> "hook" [] t = Restorer -> "none"
               [] t = Watcher -> "watch" [] t = Supervisor -> "read"]
  OBVIOUS
<1>2. /\ at \in [{Main, Restorer, Watcher, Supervisor} -> Positions]
      /\ at[Main] = "hook" /\ at[Restorer] = "none"
  BY <1>1 DEF Main, Restorer, Watcher, Supervisor, Positions
<1>3. owner \in [Kinds -> Loops] /\ open \in [Loops -> BOOLEAN]
  BY DEF Loops
<1>4. loopAt \in [Loops -> LoopPositions] /\ seen \in [Loops -> Nat]
  BY DEF LoopPositions
<1>5. worker \in [memory : {"loaded", "asleep", "mapped"}, cleaned : BOOLEAN,
                  paused : BOOLEAN]
  BY DEF Ready
<1>6. gen \in 0..(cycles + 1) /\ cycles \in 0..MaxCycles
  OBVIOUS
<1>7. TypeOK
  BY <1>2, <1>3, <1>4, <1>5, <1>6 DEF TypeOK
<1>8. Counted
  BY DEF Counted, Pending
<1>9. \A r \in Runners : ~Restoring(r)
  BY <1>2 DEF Runners, Restoring
<1>10. Asked /\ Once
  BY <1>2, <1>9 DEF Once, Asked, Alone, Past, Progress, Runners, Restoring
<1>11. QED
  BY <1>7, <1>8, <1>10

\* All of it holds always.
LEMMA Invariance == Spec => [](TypeOK /\ Counted /\ Asked /\ Once)
<1>1. TypeOK /\ Once /\ [Next]_vars => Once'
  <2> SUFFICES ASSUME TypeOK, Once, [Next]_vars PROVE Once'
    OBVIOUS
  <2>1. CASE UNCHANGED vars
    BY <2>1 DEF Once, Alone, Past, Progress, Restoring, Alive
  <2>2. QED
    BY <2>1, LauncherOnce, BesideOnce, RunOnce DEF Next
<1>2. QED
  BY <1>1, InitCore, TypeStep, AskedStep, PTL DEF Spec

(***************************************************************************)
(* Theorems                                                                *)
(***************************************************************************)
\* Every variable of the process keeps its type, and no generation gets beyond
\* the number of resumes and one.
THEOREM CoreTypes == Spec => []TypeOK
  BY Invariance, PTL

\* Whichever threads are blocked, whatever has raised: unless two threads were
\* in the restore at once, "done" is said only of a worker that has its
\* weights, its distributed state and a scheduler that runs.
THEOREM DoneIsTrue == Spec => []DoneMeansRecovered
<1>1. Once => DoneMeansRecovered
  BY DEF Once, Alone, DoneMeansRecovered
<1>2. QED
  BY <1>1, Invariance, PTL

\* And nothing takes the answer back until the launcher has acted on it.
THEOREM AnswerIsFinal == Spec => AnswerStands
<1> DEFINE Stands ==
      Alive /\ status = "done"
        => status' = "done" \/ phase' # phase \/ clashed'
<1>1. TypeOK /\ Once /\ [Next]_vars => Stands
  <2> SUFFICES ASSUME TypeOK, Once, [Next]_vars, Alive, status = "done",
                      ~clashed'
               PROVE  status' = "done" \/ phase' # phase
    OBVIOUS
  <2>1. ~clashed
    BY ClashStays
  <2>2. \A r \in Runners : ~Restoring(r)
    BY <2>1 DEF Once, Alone
  <2>3. CASE Launcher
    BY <2>3 DEF Launcher, Dump, Thaw, MarkRequest, SendSignal, EndResume, Alive
  <2>4. ASSUME NEW r \in Runners, RunStep(r) PROVE status' = "done"
    BY <2>2, <2>4 DEF RunStep, RunTests, RunEnters, RunRaises, RunStage,
       RunFinishes, RunFails, Restoring, Stages
  <2>5. ASSUME ~Launcher, \A r \in Runners : ~RunStep(r) PROVE status' = status
    BY <2>5 DEF Next, HandleSignal, MainHooks, WatcherStep, WatcherWakes,
       WatcherStarts, SupervisorStep, SupervisorReads, SupervisorSets,
       SupervisorReplaces, LoopStep, InputStep, Build, Rebuild,
       InputSeesMarker, InputTriggers, LoopDies, Keeps
  <2>6. QED
    BY <2>3, <2>4, <2>5
<1>2. QED
  BY <1>1, Invariance, PTL DEF Spec, AnswerStands
=============================================================================
