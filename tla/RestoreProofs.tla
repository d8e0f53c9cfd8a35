---------------------------- MODULE RestoreProofs ----------------------------
(***************************************************************************)
(* Proofs about one resume: a launcher that reports "running" has a worker *)
(* that is whole and a channel that is repaired, for any calls, any set of *)
(* switches and whatever is raised, retried, lost or late.                 *)
(***************************************************************************)
EXTENDS Restore, FiniteSetTheorems, WellFoundedInduction, TLAPS

USE DEF vars, channelVars, apiVars, socketVars, genVars, inputVars, outputVars,
        engineVars, workerVars, memoryVars, runVars, Closed, Dead, None

Live(queue) == \A k \in DOMAIN queue : queue[k] # Dead

(***************************************************************************)
(* The inductive invariant                                                 *)
(***************************************************************************)
\* There is a KV cache wherever a bootstrap can give one
HasCache == kv = "mapped" \/ runner = "bare"

\* The worker can step
HasModel == weights = "loaded" /\ HasCache

\* It has its process groups, where a restore gives them back at all
Grouped == dist \/ (set.native /\ set.rebootstrap /\ set.cleanup)

\* The worker is bootstrapped
Boots == ~set.native /\ set.rebootstrap

\* What each stage of the restore finds, however many attempts there were.
Staged ==
  /\ ~Boots => dist \/ set.cleanup
  /\ at \in {"reinit", "reload", "rewrite", "wake_kv", "graphs", "finish"}
       /\ ~Boots => Grouped
  /\ at \in {"reload", "graphs", "finish"} /\ Boots => HasModel /\ dist
  /\ at = "rewrite" => weights = "partial" /\ (Boots => dist)
  /\ at \in {"reload", "rewrite"} /\ ~set.native
       => HasCache /\ (graphs = "old" => unclear)
  /\ at = "wake_kv" => set.native /\ weights = "loaded"
  /\ at \in {"graphs", "finish"} \/ status = "done"
       => HasModel /\ Grouped /\ (graphs = "old" => set.native \/ unclear)
  /\ status = "done" => at = "idle"

\* The scheduler is paused until a bootstrap has given it a model, which only
\* the reload then breaks up, and only the first attempt runs beside it.
Stepping ==
  /\ by = "thread" /\ at \in {"restore", "reinit"} => paused
  /\ ~started => by = "main" \/ (at = "idle" /\ paused)
  /\ by = "main" /\ at = "idle" => died \/ status = "done"
  /\ ~paused /\ (at = "idle" \/ by = "thread") /\ ~died /\ Boots
       => /\ HasCache
          /\ \/ weights = "loaded"
             \/ weights = "partial" /\ (at = "rewrite" \/ status = "failed")

\* How far the API's sockets are at each stage of the launcher.
Paced ==
  /\ stage \in {"thawed", "asked"} => link = "old"
  /\ stage = "reconnect" => link \in {"stopped", "cut", "bound"}
  /\ stage = "signal" => link = "bound"
  /\ stage = "ready" => link \in {"waiting", "linked", "expired"}
  /\ stage \in {"local", "running"} => link = "linked"
  /\ stage = "running" => status = "done"

\* Identities are generations that have begun.  Without a second one, a READY
\* that reached the API, or its peer, is of the one DEALER that was built since
\* the dump, and it is still open.
Identified ==
  /\ stage \in {"thawed", "asked", "reconnect"} => ~signal
  /\ signal \/ stage \in {"thawed", "asked", "reconnect"} => ~second
  /\ ~second => gen <= 1 /\ dealer <= gen
  /\ gen = 0 => dealer = 0
  /\ greeting => dealer >= 1
  /\ inbox # <<>> => gen >= 1 /\ (~second => dealer = 1)
  /\ link = "linked" => gen >= 1 /\ (~second => peer = 1 /\ dealer = 1)
  /\ \A k \in DOMAIN inbox : ~second => inbox[k] = 1

\* No sentinel is left from before the rebinding, and none is on its way to the
\* API of a live engine; the drain takes what the queue still has.
Silent ==
  /\ link = "old" => handler \in {"runs", "ended"}
  /\ link \in {"stopped", "cut"} => handler \in {"none", "ended"}
  /\ link \in {"bound", "waiting", "linked", "expired"} /\ ~died
       => ~dead /\ handler \in {"runs", "lost"} /\ Live(outs)
  /\ ~died => held # Dead /\ Live(wire)
  /\ status = "done" /\ ~died => Live(outq)

\* The output loop sends what it holds
Holds == outAt = "send" => held # None

Resumed == Holds /\ Staged /\ Stepping /\ Paced /\ Identified /\ Silent

(***************************************************************************)
(* What is left of a queue: the positions that are kept can be listed in   *)
(* order, by induction on the length (a smallest counterexample).          *)
(***************************************************************************)
Listing(S) == {f \in [1..Cardinality(S) -> S] :
                 \A i, j \in DOMAIN f : i < j => f[i] < f[j]}

\* A set of natural numbers has a smallest element.
LEMMA Least ==
  ASSUME NEW T, T \subseteq Nat, T # {}
  PROVE  \E m \in T : \A n \in T : m <= n
<1>1. \E m \in T : \A n \in T : ~(<<n, m>> \in OpToRel(<, Nat))
  BY NatLessThanWellFounded, WFMin
<1>2. \A x, y \in Nat : x < y => <<x, y>> \in OpToRel(<, Nat)
  BY DEF OpToRel
<1>3. PICK m \in T : \A n \in T : ~(<<n, m>> \in OpToRel(<, Nat))
  BY <1>1
<1> HIDE DEF OpToRel
<1>4. ASSUME NEW n \in T PROVE m <= n
  <2>1. m \in Nat /\ n \in Nat
    OBVIOUS
  <2>2. ~(n < m)
    BY <1>2, <1>3, <2>1
  <2>3. QED
    BY <2>1, <2>2
<1>5. QED
  BY <1>4

\* The ordered listings exist.
LEMMA Listed ==
  ASSUME NEW n \in Nat, NEW S \in SUBSET (1..n)
  PROVE  Listing(S) # {}
<1> DEFINE Bad == {m \in Nat : \E R \in SUBSET (1..m) : Listing(R) = {}}
<1>1. SUFFICES ASSUME Bad # {} PROVE FALSE
  OBVIOUS
<1>2. PICK m \in Bad : \A k \in Bad : m <= k
  BY <1>1, Least
<1>3. PICK R \in SUBSET (1..m) : Listing(R) = {}
  BY <1>2
<1>4. m \in Nat /\ IsFiniteSet(R)
  <2>1. IsFiniteSet(1..m)
    BY FS_Interval
  <2>2. QED
    BY <2>1, FS_Subset
<1>5. CASE R = {}
  <2>1. Cardinality(R) = 0
    BY <1>5, FS_EmptySet
  <2>2. [i \in 1..0 |-> 0] \in Listing(R)
    BY <1>5, <2>1 DEF Listing
  <2>3. QED
    BY <2>2, <1>3
<1>6. CASE m \notin R /\ R # {}
  <2>1. m - 1 \in Nat /\ R \in SUBSET (1..(m-1))
    <3>1. m # 0
      <4>1. PICK x \in R : TRUE
        BY <1>6
      <4>2. x \in 1..m
        BY <1>3, <4>1
      <4>3. QED
        BY <1>4, <4>2
    <3>2. QED
      BY <3>1, <1>4, <1>6
  <2>2. QED
    BY <2>1, <1>2, <1>3
<1>7. CASE m \in R
  <2> DEFINE Q == R \ {m}
             c == Cardinality(Q)
  <2>1. m - 1 \in Nat /\ Q \in SUBSET (1..(m-1))
    BY <1>7
  <2>2. Listing(Q) # {}
    BY <2>1, <1>2
  <2>3. PICK f \in Listing(Q) : TRUE
    BY <2>2
  <2>4. Cardinality(R) = c + 1 /\ c \in Nat
    BY <1>4, <1>7, FS_RemoveElement, FS_CardinalityType, FS_Subset
  <2> DEFINE g == [i \in 1..(c+1) |-> IF i = c + 1 THEN m ELSE f[i]]
  <2>5. f \in [1..c -> Q] /\ \A i, j \in 1..c : i < j => f[i] < f[j]
    BY <2>3 DEF Listing
  <2>6. \A i \in 1..c : f[i] \in R /\ f[i] < m /\ f[i] \in Nat
    <3>1. \A x \in Q : x \in R /\ x < m /\ x \in Nat
      BY <1>4, <2>1
    <3> HIDE DEF Q, c
    <3>2. QED
      BY <2>5, <3>1
  <2> HIDE DEF Q, c
  <2>7. ASSUME NEW i \in 1..(c + 1)
        PROVE  g[i] \in R /\ \A j \in 1..(c + 1) : i < j => g[i] < g[j]
    <3>1. CASE i = c + 1
      BY <3>1, <1>7, <2>4
    <3>2. CASE i # c + 1
      <4>1. i \in 1..c /\ g[i] = f[i]
        BY <3>2, <2>4
      <4>2. ASSUME NEW j \in 1..(c + 1), i < j PROVE f[i] < g[j]
        <5>1. CASE j = c + 1
          BY <5>1, <4>1, <2>6
        <5>2. CASE j # c + 1
          BY <5>2, <4>1, <4>2, <2>4, <2>5
        <5>3. QED
          BY <5>1, <5>2
      <4>3. QED
        BY <4>1, <4>2, <2>6
    <3>3. QED
      BY <3>1, <3>2
  <2>8. g \in Listing(R)
    <3>1. g \in [1..(c + 1) -> R]
      BY <2>7
    <3>2. \A i, j \in DOMAIN g : i < j => g[i] < g[j]
      BY <2>7
    <3> HIDE DEF g
    <3>3. QED
      BY <2>4, <3>1, <3>2 DEF Listing
  <2>9. QED
    BY <2>8, <1>3
<1>8. QED
  BY <1>5, <1>6, <1>7

\* Alive leaves a queue of the same values without a sentinel.
LEMMA AliveIsLive ==
  ASSUME NEW V, NEW q \in Seq(V)
  PROVE  Alive(q) \in Seq(V) /\ Live(Alive(q))
<1> DEFINE live == {k \in DOMAIN q : q[k] # Dead}
           nth  == CHOOSE f \in [1..Cardinality(live) -> live] :
                \A i, j \in DOMAIN f : i < j => f[i] < f[j]
<1>1. live \in SUBSET (1..Len(q)) /\ Len(q) \in Nat
  OBVIOUS
<1>2. Listing(live) # {}
  BY <1>1, Listed
<1>3. nth \in [1..Cardinality(live) -> live]
  BY <1>2 DEF Listing
<1>4. Cardinality(live) \in Nat
  <2>1. IsFiniteSet(1..Len(q))
    BY <1>1, FS_Interval
  <2>2. QED
    BY <1>1, <2>1, FS_Subset, FS_CardinalityType
<1>5. Alive(q) = [i \in 1..Cardinality(live) |-> q[nth[i]]]
  BY <1>3 DEF Alive
<1> HIDE DEF nth
<1>6. \A i \in 1..Cardinality(live) :
        nth[i] \in 1..Len(q) /\ q[nth[i]] \in V /\ q[nth[i]] # Dead
  BY <1>3
<1> HIDE DEF live
<1>7. DOMAIN Alive(q) = 1..Cardinality(live)
  BY <1>5
<1>8. \A i \in 1..Cardinality(live) : Alive(q)[i] = q[nth[i]]
  BY <1>5
<1>9. Alive(q) \in [1..Cardinality(live) -> V]
  BY <1>5, <1>6
<1>10. Alive(q) \in Seq(V)
  BY <1>4, <1>9
<1>11. QED
  BY <1>6, <1>7, <1>8, <1>10 DEF Live
(***************************************************************************)
(* Every step preserves the invariant                                      *)
(***************************************************************************)
\* The output loop only moves what is in its queue.
LEMMA OutputFrame ==
  OutputStep => UNCHANGED <<stage, apiVars, genVars, signal, inputVars, died,
                            call, workerVars>>
  BY DEF OutputStep, OutputLoop, OutputRebuilds, OutputTakes, OutputSends,
         OutputDies

\* The stages of the restore find what the ones before them left.
LEMMA StagedStep ==
  ASSUME TypeOK, Staged, Next
  PROVE  Staged'
<1> USE DEF TypeOK, WorkerOK, Switches, Staged, HasModel, HasCache, Grouped,
            Boots
<1>1. ASSUME MarkRequest PROVE Staged'
  BY <1>1 DEF MarkRequest, Advance
<1>2. ASSUME CallReconnect PROVE Staged'
  BY <1>2 DEF CallReconnect, Advance, StopHandler
<1>3. ASSUME Signal PROVE Staged'
  BY <1>3 DEF Signal, Advance
<1>4. ASSUME CallWaitReady PROVE Staged'
  BY <1>4 DEF CallWaitReady, Advance
<1>5. ASSUME Handshaken PROVE Staged'
  BY <1>5 DEF Handshaken, Advance
<1>6. ASSUME SeesDone PROVE Staged'
  BY <1>6 DEF SeesDone, Advance
<1>7. ASSUME GivesUp PROVE Staged'
  BY <1>7 DEF GivesUp, Advance
<1>8. ASSUME ReconnectStep PROVE Staged'
  BY <1>8 DEF ReconnectStep, CancelOutputTask, Rebind
<1>9. ASSUME ReadyStep PROVE Staged'
  BY <1>9 DEF ReadyStep, ReadReady, AdoptIdentity, ReadyTimesOut
<1>10. ASSUME Triggers PROVE Staged'
  BY <1>10 DEF Triggers, MarkerSeen, MarkerTriggers
<1>11. ASSUME SignalStep PROVE Staged'
  BY <1>11 DEF SignalStep, HandleSignal
<1>12. ASSUME InputStep PROVE Staged'
  BY <1>12 DEF InputStep, Build, Greet
<1>13. ASSUME RestoreBegins PROVE Staged'
  BY <1>13 DEF RestoreBegins, Begin
<1>14. ASSUME RestoreStep PROVE Staged'
  <2>1. CASE RestoreDist
    BY <1>14, <2>1 DEF RestoreDist, Stage
  <2>2. CASE NativeWake
    BY <1>14, <2>2 DEF NativeWake, Stage
  <2>3. CASE Rebound
    BY <1>14, <2>3 DEF Rebound, DropGraphs, Stage
  <2>4. CASE Bootstrap
    BY <1>14, <2>4 DEF Bootstrap, Stage, BootstrapTo
  <2>5. CASE BeginReload \/ ReloadWeights
    BY <1>14, <2>5 DEF BeginReload, ReloadWeights, Stage
  <2>6. CASE WakeKv
    BY <1>14, <2>6 DEF WakeKv, Stage
  <2>7. CASE RestoreGraphs
    BY <1>14, <2>7 DEF RestoreGraphs, Stage, Retained
  <2>8. QED
    BY <1>14, <2>1, <2>2, <2>3, <2>4, <2>5, <2>6, <2>7 DEF RestoreStep,
       Succeeds
<1>15. ASSUME RestoreRaises PROVE Staged'
  BY <1>15 DEF RestoreRaises, Failing, ReboundRaises, DropGraphs,
     BootstrapRaises,
     BootstrapTo, Fails, Raise, Die
<1>16. ASSUME RestoreEnds PROVE Staged'
  BY <1>16 DEF RestoreEnds, Finish, Drain
<1>17. ASSUME ClientSends PROVE Staged'
  BY <1>17 DEF ClientSends, Send
<1>18. ASSUME EngineServes PROVE Staged'
  BY <1>18 DEF EngineServes, Serve
<1>19. ASSUME ApiHandles PROVE Staged'
  BY <1>19 DEF ApiHandles, HandleOutput
<1>20. ASSUME EngineDies PROVE Staged'
  BY <1>20 DEF EngineDies, Die
<1>21. ASSUME Monitor PROVE Staged'
  BY <1>21 DEF Monitor, MonitorSees
<1>22. ASSUME OutputStep PROVE Staged'
  BY <1>22, OutputFrame
<1>23. ASSUME ApiReads PROVE Staged'
  BY <1>23 DEF ApiReads, Arrive
<1>24. ASSUME TriggersLate PROVE Staged'
  BY <1>24 DEF TriggersLate, MarkerTriggers
<1>25. QED
  BY <1>1, <1>2, <1>3, <1>4, <1>5, <1>6, <1>7, <1>8, <1>9, <1>10, <1>11,
     <1>12, <1>13, <1>14, <1>15, <1>16, <1>17, <1>18, <1>19, <1>20, <1>21,
     <1>22, <1>23, <1>24
     DEF Next, Launcher, ApiServer, Engine, Service

\* The scheduler does not run before it has a model.
LEMMA SteppingStep ==
  ASSUME TypeOK, Staged, Stepping, Next
  PROVE  Stepping'
<1> USE DEF TypeOK, ChannelOK, WorkerOK, Switches, Staged, Stepping, HasModel,
            HasCache, Boots, MainFree
<1>1. ASSUME MarkRequest PROVE Stepping'
  BY <1>1 DEF MarkRequest, Advance
<1>2. ASSUME CallReconnect PROVE Stepping'
  BY <1>2 DEF CallReconnect, Advance, StopHandler
<1>3. ASSUME Signal PROVE Stepping'
  BY <1>3 DEF Signal, Advance
<1>4. ASSUME CallWaitReady PROVE Stepping'
  BY <1>4 DEF CallWaitReady, Advance
<1>5. ASSUME Handshaken PROVE Stepping'
  BY <1>5 DEF Handshaken, Advance
<1>6. ASSUME SeesDone PROVE Stepping'
  BY <1>6 DEF SeesDone, Advance
<1>7. ASSUME GivesUp PROVE Stepping'
  BY <1>7 DEF GivesUp, Advance
<1>8. ASSUME ReconnectStep PROVE Stepping'
  BY <1>8 DEF ReconnectStep, CancelOutputTask, Rebind
<1>9. ASSUME ReadyStep PROVE Stepping'
  BY <1>9 DEF ReadyStep, ReadReady, AdoptIdentity, ReadyTimesOut
<1>10. ASSUME Triggers PROVE Stepping'
  BY <1>10 DEF Triggers, MarkerSeen, MarkerTriggers
<1>11. ASSUME SignalStep PROVE Stepping'
  BY <1>11 DEF SignalStep, HandleSignal
<1>12. ASSUME InputStep PROVE Stepping'
  BY <1>12 DEF InputStep, Build, Greet
<1>13. ASSUME RestoreBegins PROVE Stepping'
  BY <1>13 DEF RestoreBegins, Begin
<1>14. ASSUME RestoreStep PROVE Stepping'
  BY <1>14 DEF RestoreStep, Succeeds, RestoreDist, NativeWake, Rebound,
     DropGraphs,
     Bootstrap, BootstrapTo, BeginReload, ReloadWeights, WakeKv,
     RestoreGraphs, Retained, Stage
<1>15. ASSUME RestoreRaises PROVE Stepping'
  BY <1>15 DEF RestoreRaises, Failing, ReboundRaises, DropGraphs,
     BootstrapRaises,
     BootstrapTo, Fails, Raise, Die
<1>16. ASSUME RestoreEnds PROVE Stepping'
  BY <1>16 DEF RestoreEnds, Finish, Drain
<1>17. ASSUME ClientSends PROVE Stepping'
  BY <1>17 DEF ClientSends, Send
<1>18. ASSUME EngineServes PROVE Stepping'
  BY <1>18 DEF EngineServes, Serve
<1>19. ASSUME ApiHandles PROVE Stepping'
  BY <1>19 DEF ApiHandles, HandleOutput
<1>20. ASSUME EngineDies PROVE Stepping'
  BY <1>20 DEF EngineDies, Die
<1>21. ASSUME Monitor PROVE Stepping'
  BY <1>21 DEF Monitor, MonitorSees
<1>22. ASSUME OutputStep PROVE Stepping'
  BY <1>22, OutputFrame
<1>23. ASSUME ApiReads PROVE Stepping'
  BY <1>23 DEF ApiReads, Arrive
<1>24. ASSUME TriggersLate PROVE Stepping'
  BY <1>24 DEF TriggersLate, MarkerTriggers
<1>25. QED
  BY <1>1, <1>2, <1>3, <1>4, <1>5, <1>6, <1>7, <1>8, <1>9, <1>10, <1>11,
     <1>12, <1>13, <1>14, <1>15, <1>16, <1>17, <1>18, <1>19, <1>20, <1>21,
     <1>22, <1>23, <1>24
     DEF Next, Launcher, ApiServer, Engine, Service

\* Launcher and API server keep in step.
LEMMA PacedStep ==
  ASSUME TypeOK, Staged, Paced, Next
  PROVE  Paced'
<1> USE DEF TypeOK, ChannelOK, WorkerOK, Staged, Paced
<1>1. ASSUME MarkRequest PROVE Paced'
  BY <1>1 DEF MarkRequest, Advance
<1>2. ASSUME CallReconnect PROVE Paced'
  BY <1>2 DEF CallReconnect, Advance, StopHandler
<1>3. ASSUME Signal PROVE Paced'
  BY <1>3 DEF Signal, Advance
<1>4. ASSUME CallWaitReady PROVE Paced'
  BY <1>4 DEF CallWaitReady, Advance
<1>5. ASSUME Handshaken PROVE Paced'
  BY <1>5 DEF Handshaken, Advance
<1>6. ASSUME SeesDone PROVE Paced'
  BY <1>6 DEF SeesDone, Advance
<1>7. ASSUME GivesUp PROVE Paced'
  BY <1>7 DEF GivesUp, Advance
<1>8. ASSUME ReconnectStep PROVE Paced'
  BY <1>8 DEF ReconnectStep, CancelOutputTask, Rebind
<1>9. ASSUME ReadyStep PROVE Paced'
  BY <1>9 DEF ReadyStep, ReadReady, AdoptIdentity, ReadyTimesOut
<1>10. ASSUME Triggers PROVE Paced'
  BY <1>10 DEF Triggers, MarkerSeen, MarkerTriggers
<1>11. ASSUME SignalStep PROVE Paced'
  BY <1>11 DEF SignalStep, HandleSignal
<1>12. ASSUME InputStep PROVE Paced'
  BY <1>12 DEF InputStep, Build, Greet
<1>13. ASSUME RestoreBegins PROVE Paced'
  BY <1>13 DEF RestoreBegins, Begin
<1>14. ASSUME RestoreStep PROVE Paced'
  BY <1>14 DEF RestoreStep, Succeeds, RestoreDist, NativeWake, Rebound,
     DropGraphs,
     Bootstrap, BootstrapTo, BeginReload, ReloadWeights, WakeKv,
     RestoreGraphs, Retained, Stage
<1>15. ASSUME RestoreRaises PROVE Paced'
  BY <1>15 DEF RestoreRaises, Failing, ReboundRaises, DropGraphs,
     BootstrapRaises,
     BootstrapTo, Fails, Raise, Die
<1>16. ASSUME RestoreEnds PROVE Paced'
  BY <1>16 DEF RestoreEnds, Finish, Drain
<1>17. ASSUME ClientSends PROVE Paced'
  BY <1>17 DEF ClientSends, Send
<1>18. ASSUME EngineServes PROVE Paced'
  BY <1>18 DEF EngineServes, Serve
<1>19. ASSUME ApiHandles PROVE Paced'
  BY <1>19 DEF ApiHandles, HandleOutput
<1>20. ASSUME EngineDies PROVE Paced'
  BY <1>20 DEF EngineDies, Die
<1>21. ASSUME Monitor PROVE Paced'
  BY <1>21 DEF Monitor, MonitorSees
<1>22. ASSUME OutputStep PROVE Paced'
  BY <1>22, OutputFrame
<1>23. ASSUME ApiReads PROVE Paced'
  BY <1>23 DEF ApiReads, Arrive
<1>24. ASSUME TriggersLate PROVE Paced'
  BY <1>24 DEF TriggersLate, MarkerTriggers
<1>25. QED
  BY <1>1, <1>2, <1>3, <1>4, <1>5, <1>6, <1>7, <1>8, <1>9, <1>10, <1>11,
     <1>12, <1>13, <1>14, <1>15, <1>16, <1>17, <1>18, <1>19, <1>20, <1>21,
     <1>22, <1>23, <1>24
     DEF Next, Launcher, ApiServer, Engine, Service

\* Identities stay those of generations that have begun.
LEMMA IdentifiedStep ==
  ASSUME TypeOK, Paced, Identified, Next
  PROVE  Identified'
<1> USE DEF TypeOK, ChannelOK, Paced, Identified
<1>1. ASSUME MarkRequest PROVE Identified'
  BY <1>1 DEF MarkRequest, Advance
<1>2. ASSUME CallReconnect PROVE Identified'
  BY <1>2 DEF CallReconnect, Advance, StopHandler
<1>3. ASSUME Signal PROVE Identified'
  BY <1>3 DEF Signal, Advance
<1>4. ASSUME CallWaitReady PROVE Identified'
  BY <1>4 DEF CallWaitReady, Advance
<1>5. ASSUME Handshaken PROVE Identified'
  BY <1>5 DEF Handshaken, Advance
<1>6. ASSUME SeesDone PROVE Identified'
  BY <1>6 DEF SeesDone, Advance
<1>7. ASSUME GivesUp PROVE Identified'
  BY <1>7 DEF GivesUp, Advance
<1>8. ASSUME ReconnectStep PROVE Identified'
  BY <1>8 DEF ReconnectStep, CancelOutputTask, Rebind
<1>9. ASSUME ReadyStep PROVE Identified'
  <2>1. CASE ReadReady
    <3>1. /\ inbox # <<>> /\ inbox \in Seq(1..2) /\ inbox' = Tail(inbox)
          /\ peer' = Head(inbox)
          /\ UNCHANGED <<genVars, dealer, greeting, signal, stage>>
      BY <1>9, <2>1 DEF ReadyStep, ReadReady, AdoptIdentity
    <3>2. /\ peer' = inbox[1] /\ 1 \in DOMAIN inbox /\ peer' \in 1..2
          /\ \A k \in DOMAIN inbox' :
               k + 1 \in DOMAIN inbox /\ inbox'[k] = inbox[k + 1]
      BY <3>1
    <3>3. ~second => inbox[1] = 1
      BY <3>2 DEF Identified
    <3>4. QED
      BY <3>1, <3>2, <3>3
  <2>2. CASE ReadyTimesOut
    BY <1>9, <2>2 DEF ReadyStep, ReadyTimesOut
  <2>3. QED
    BY <1>9, <2>1, <2>2 DEF ReadyStep
<1>10. ASSUME Triggers PROVE Identified'
  BY <1>10 DEF Triggers, MarkerSeen, MarkerTriggers
<1>11. ASSUME SignalStep PROVE Identified'
  <2>1. signal /\ ~second /\ gen <= 1
    BY <1>11 DEF SignalStep, HandleSignal
  <2>2. /\ ~signal' /\ gen' = gen + 1 /\ dealer' = Closed /\ ~greeting'
        /\ (second' <=> gen = 1)
        /\ UNCHANGED <<stage, link, peer, inbox>>
    BY <1>11 DEF SignalStep, HandleSignal
  <2>3. inbox # <<>> \/ link = "linked" => second'
    BY <2>1, <2>2
  <2>4. stage \notin {"thawed", "asked", "reconnect"}
    BY <2>1
  <2>5. \A k \in DOMAIN inbox : inbox # <<>>
    OBVIOUS
  <2>6. QED
    BY <2>1, <2>2, <2>3, <2>4, <2>5
<1>12. ASSUME InputStep PROVE Identified'
  <2>1. CASE Build
    BY <1>12, <2>1 DEF InputStep, Build
  <2>2. CASE Greet
    <3>1. inbox' \in {inbox, Append(inbox, dealer)} /\ dealer \in 1..2
          /\ (~second => dealer = 1 /\ gen = 1) /\ gen >= 1
      BY <1>12, <2>2 DEF InputStep, Greet
    <3>2. \A k \in DOMAIN inbox' :
            \/ k \in DOMAIN inbox /\ inbox'[k] = inbox[k]
            \/ inbox'[k] = dealer
      <4>1. CASE inbox' = inbox
        BY <4>1
      <4>2. CASE inbox' = Append(inbox, dealer)
        <5>1. /\ DOMAIN inbox' = 1..(Len(inbox) + 1)
              /\ DOMAIN inbox = 1..Len(inbox)
              /\ inbox'[Len(inbox) + 1] = dealer
              /\ \A k \in 1..Len(inbox) : inbox'[k] = inbox[k]
          BY <4>2
        <5>2. QED
          BY <5>1
      <4>3. QED
        BY <3>1, <4>1, <4>2
    <3>3. /\ UNCHANGED <<genVars, dealer, signal, stage, link, peer>>
          /\ ~greeting'
      BY <1>12, <2>2 DEF InputStep, Greet
    <3>4. QED
      BY <3>1, <3>2, <3>3
  <2>3. QED
    BY <1>12, <2>1, <2>2 DEF InputStep
<1>13. ASSUME RestoreBegins PROVE Identified'
  BY <1>13 DEF RestoreBegins, Begin
<1>14. ASSUME RestoreStep PROVE Identified'
  BY <1>14 DEF RestoreStep, Succeeds, RestoreDist, NativeWake, Rebound,
     DropGraphs,
     Bootstrap, BootstrapTo, BeginReload, ReloadWeights, WakeKv,
     RestoreGraphs, Retained, Stage
<1>15. ASSUME RestoreRaises PROVE Identified'
  BY <1>15 DEF RestoreRaises, Failing, ReboundRaises, DropGraphs,
     BootstrapRaises,
     BootstrapTo, Fails, Raise, Die
<1>16. ASSUME RestoreEnds PROVE Identified'
  BY <1>16 DEF RestoreEnds, Finish, Drain
<1>17. ASSUME ClientSends PROVE Identified'
  BY <1>17 DEF ClientSends, Send
<1>18. ASSUME EngineServes PROVE Identified'
  BY <1>18 DEF EngineServes, Serve
<1>19. ASSUME ApiHandles PROVE Identified'
  BY <1>19 DEF ApiHandles, HandleOutput
<1>20. ASSUME EngineDies PROVE Identified'
  BY <1>20 DEF EngineDies, Die
<1>21. ASSUME Monitor PROVE Identified'
  BY <1>21 DEF Monitor, MonitorSees
<1>22. ASSUME OutputStep PROVE Identified'
  BY <1>22, OutputFrame
<1>23. ASSUME ApiReads PROVE Identified'
  BY <1>23 DEF ApiReads, Arrive
<1>24. ASSUME TriggersLate PROVE Identified'
  BY <1>24 DEF TriggersLate, MarkerTriggers
<1>25. QED
  BY <1>1, <1>2, <1>3, <1>4, <1>5, <1>6, <1>7, <1>8, <1>9, <1>10, <1>11,
     <1>12, <1>13, <1>14, <1>15, <1>16, <1>17, <1>18, <1>19, <1>20, <1>21,
     <1>22, <1>23, <1>24
     DEF Next, Launcher, ApiServer, Engine, Service

\* No sentinel of the image reaches the API.
LEMMA SilentStep ==
  ASSUME TypeOK, Staged, Paced, Silent, Next
  PROVE  Silent'
<1> USE CallsAssumption
    DEF TypeOK, ChannelOK, WorkerOK, Staged, Paced, Silent, Live,
        Marked, Asked, Up
<1>1. ASSUME MarkRequest PROVE Silent'
  BY <1>1 DEF MarkRequest, Advance
<1>2. ASSUME CallReconnect PROVE Silent'
  <2>1. link = "old" /\ link' = "stopped" /\ handler' \in {"none", "ended"}
    BY <1>2 DEF CallReconnect, Advance, StopHandler
  <2>2. QED
    BY <1>2, <2>1 DEF CallReconnect, Advance, StopHandler
<1>3. ASSUME Signal PROVE Silent'
  BY <1>3 DEF Signal, Advance
<1>4. ASSUME CallWaitReady PROVE Silent'
  BY <1>4 DEF CallWaitReady, Advance
<1>5. ASSUME Handshaken PROVE Silent'
  BY <1>5 DEF Handshaken, Advance
<1>6. ASSUME SeesDone PROVE Silent'
  BY <1>6 DEF SeesDone, Advance
<1>7. ASSUME GivesUp PROVE Silent'
  BY <1>7 DEF GivesUp, Advance
<1>8. ASSUME ReconnectStep PROVE Silent'
  BY AliveIsLive, <1>8 DEF ReconnectStep, CancelOutputTask, Rebind
<1>9. ASSUME ReadyStep PROVE Silent'
  BY <1>9 DEF ReadyStep, ReadReady, AdoptIdentity, ReadyTimesOut
<1>10. ASSUME Triggers PROVE Silent'
  BY <1>10 DEF Triggers, MarkerSeen, MarkerTriggers
<1>11. ASSUME SignalStep PROVE Silent'
  BY <1>11 DEF SignalStep, HandleSignal
<1>12. ASSUME InputStep PROVE Silent'
  BY <1>12 DEF InputStep, Build, Greet
<1>13. ASSUME RestoreBegins PROVE Silent'
  BY <1>13 DEF RestoreBegins, Begin
<1>14. ASSUME RestoreStep PROVE Silent'
  BY <1>14 DEF RestoreStep, Succeeds, RestoreDist, NativeWake, Rebound,
     DropGraphs,
     Bootstrap, BootstrapTo, BeginReload, ReloadWeights, WakeKv,
     RestoreGraphs, Retained, Stage
<1>15. ASSUME RestoreRaises PROVE Silent'
  BY <1>15 DEF RestoreRaises, Failing, ReboundRaises, DropGraphs,
     BootstrapRaises,
     BootstrapTo, Fails, Raise, Die
<1>16. ASSUME RestoreEnds PROVE Silent'
  BY AliveIsLive, <1>16 DEF RestoreEnds, Finish, Drain
<1>17. ASSUME ClientSends PROVE Silent'
  BY <1>17 DEF ClientSends, Send
<1>18. ASSUME EngineServes PROVE Silent'
  BY <1>18 DEF EngineServes, Serve
<1>19. ASSUME ApiHandles PROVE Silent'
  BY <1>19 DEF ApiHandles, HandleOutput
<1>20. ASSUME EngineDies PROVE Silent'
  BY <1>20 DEF EngineDies, Die
<1>21. ASSUME Monitor PROVE Silent'
  BY <1>21 DEF Monitor, MonitorSees
<1>22. ASSUME OutputStep PROVE Silent'
  <2>1. UNCHANGED <<stage, link, dead, outs, handler, died, status>>
    BY <1>22, OutputFrame
  <2>2. CASE OutputRebuilds \/ OutputDies
    BY <2>1, <2>2 DEF OutputRebuilds, OutputDies
  <2>3. CASE OutputTakes(Marked)
    <3>1. /\ outq # <<>> /\ outq \in Seq(Calls \cup {Dead})
          /\ outq' = Tail(outq) /\ wire' = wire
      BY <2>3 DEF OutputTakes
    <3>2. \A k \in DOMAIN outq' :
            k + 1 \in DOMAIN outq /\ outq'[k] = outq[k + 1]
      BY <3>1
    <3>3. Head(outq) = outq[1] /\ 1 \in DOMAIN outq
      BY <3>1
    <3>4. Live(outq) => Live(outq') /\ Head(outq) # Dead
      BY <3>2, <3>3
    <3>5. ~died /\ ~Marked => Live(outq)
      BY <1>22 DEF OutputStep
    <3>6. \/ held' = held
          \/ held' = Head(outq) /\ ~(Head(outq) = Dead /\ Marked)
      BY <2>3 DEF OutputTakes, Stale
    <3>7. ~died => held' # Dead
      BY <3>4, <3>5, <3>6
    <3>8. QED
      BY <2>1, <3>1, <3>4, <3>7
  <2>4. CASE OutputSends
    <3>1. /\ wire \in Seq(Calls \cup {Dead})
          /\ wire' = Append(wire, held) /\ held' = None /\ outq' = outq
      BY <2>4 DEF OutputSends
    <3>2. Live(wire) /\ held # Dead => Live(wire')
      BY <3>1
    <3>3. QED
      BY <2>1, <3>1, <3>2
  <2>5. QED
    BY <1>22, <2>2, <2>3, <2>4 DEF OutputStep, OutputLoop
<1>23. ASSUME ApiReads PROVE Silent'
  <2>1. /\ wire # <<>> /\ wire \in Seq(Calls \cup {Dead})
        /\ outs \in Seq(Calls \cup {Dead})
        /\ wire' = Tail(wire) /\ outs' = Append(outs, Head(wire))
        /\ dead' = (dead \/ Head(wire) = Dead)
        /\ UNCHANGED <<stage, link, handler, held, outq, died, status>>
    BY <1>23 DEF ApiReads, Arrive
  <2>2. \A k \in DOMAIN wire' : k + 1 \in DOMAIN wire /\ wire'[k] = wire[k + 1]
    BY <2>1
  <2>3. Head(wire) = wire[1] /\ 1 \in DOMAIN wire
    BY <2>1
  <2>4. Live(wire) => Live(wire') /\ Head(wire) # Dead
    BY <2>2, <2>3
  <2>5. Live(outs) /\ Head(wire) # Dead => Live(outs')
    BY <2>1
  <2>6. QED
    BY <2>1, <2>4, <2>5
<1>24. ASSUME TriggersLate PROVE Silent'
  BY <1>24 DEF TriggersLate, MarkerTriggers
<1>25. QED
  BY <1>1, <1>2, <1>3, <1>4, <1>5, <1>6, <1>7, <1>8, <1>9, <1>10, <1>11,
     <1>12, <1>13, <1>14, <1>15, <1>16, <1>17, <1>18, <1>19, <1>20, <1>21,
     <1>22, <1>23, <1>24
     DEF Next, Launcher, ApiServer, Engine, Service

\* What the output loop holds, it has taken from the queue.
LEMMA HoldsStep ==
  ASSUME TypeOK, Holds, Next
  PROVE  Holds'
<1> USE CallsAssumption DEF TypeOK, ChannelOK, Holds
<1>1. CASE UNCHANGED <<outAt, held>>
  BY <1>1
<1>2. CASE OutputStep
  <2>1. CASE OutputTakes(Marked)
    <3>1. /\ outq # <<>> /\ outq \in Seq(Calls \cup {Dead})
          /\ outAt' # "send" \/ held' = Head(outq)
      BY <2>1 DEF OutputTakes, Again
    <3>2. Head(outq) \in Calls \cup {Dead}
      BY <3>1
    <3>3. QED
      BY <3>1, <3>2
  <2>2. CASE OutputRebuilds \/ OutputSends \/ OutputDies
    BY <2>2 DEF OutputRebuilds, OutputSends, OutputDies, Again
  <2>3. QED
    BY <1>2, <2>1, <2>2 DEF OutputStep, OutputLoop
<1>3. Next => OutputStep \/ UNCHANGED <<outAt, held>>
  <2>1. Launcher \/ ApiServer => UNCHANGED <<outAt, held>>
    BY DEF Launcher, MarkRequest, CallReconnect, StopHandler, Signal,
           CallWaitReady, Handshaken, SeesDone, GivesUp, ApiServer,
           ReconnectStep, CancelOutputTask, Rebind, ReadyStep, ReadReady,
           ReadyTimesOut
  <2>2. Engine => OutputStep \/ UNCHANGED <<outAt, held>>
    BY DEF Engine, Triggers, TriggersLate, MarkerSeen, MarkerTriggers,
           SignalStep, HandleSignal, InputStep, Build, Greet, RestoreBegins,
           RestoreStep, RestoreRaises, Die, RestoreEnds
  <2>3. Service => UNCHANGED <<outAt, held>>
    BY DEF Service, ClientSends, Send, EngineServes, Serve, ApiReads, Arrive,
           ApiHandles, HandleOutput, EngineDies, Die, Monitor, MonitorSees
  <2>4. QED
    BY <2>1, <2>2, <2>3 DEF Next
<1>4. QED
  BY <1>1, <1>2, <1>3

\* The restore keeps the types of the worker.
LEMMA WorkerTypes ==
  ASSUME WorkerOK
  PROVE  /\ Succeeds \/ Failing \/ Finish => WorkerOK'
         /\ \A t \in {"thread", "main"} : Begin(t) => WorkerOK'
<1> USE DEF WorkerOK, Switches, Stage, Raise, BootstrapTo
<1>1. ASSUME RestoreDist PROVE WorkerOK'
  BY <1>1 DEF RestoreDist
<1>2. ASSUME NativeWake PROVE WorkerOK'
  <2>1. /\ at' = "reload" /\ status' = "stage" /\ weights' = "mapped"
        /\ UNCHANGED <<set, by, started, runner, kv, graphs, unclear, dist>>
    BY <1>2 DEF NativeWake
  <2>2. paused' \in BOOLEAN
    BY <1>2 DEF NativeWake
  <2>3. QED
    BY <2>1, <2>2
<1>3. ASSUME Rebound PROVE WorkerOK'
  BY <1>3 DEF Rebound, DropGraphs
<1>4. ASSUME Bootstrap PROVE WorkerOK'
  <2>1. /\ runner' \in {"new", "bare"} /\ weights' = "loaded"
        /\ kv' \in {"mapped", "absent"} /\ dist' \in BOOLEAN
        /\ graphs' = "none"
    BY <1>4 DEF Bootstrap
  <2>2. QED
    BY <1>4, <2>1 DEF Bootstrap
<1>5. ASSUME BeginReload \/ ReloadWeights PROVE WorkerOK'
  BY <1>5 DEF BeginReload, ReloadWeights
<1>6. ASSUME WakeKv PROVE WorkerOK'
  BY <1>6 DEF WakeKv
<1>7. ASSUME RestoreGraphs PROVE WorkerOK'
  BY <1>7 DEF RestoreGraphs, Retained
<1>8. ASSUME ReboundRaises PROVE WorkerOK'
  <2>1. /\ at' = "idle" /\ status' = "failed"
        /\ UNCHANGED <<set, by, started, runner, weights, kv, dist, paused>>
    BY <1>8 DEF ReboundRaises
  <2>2. graphs' \in {"none", graphs} /\ unclear' \in BOOLEAN
    BY <1>8 DEF ReboundRaises, DropGraphs
  <2>3. QED
    BY <2>1, <2>2
<1>9. ASSUME BootstrapRaises PROVE WorkerOK'
  BY <1>9 DEF BootstrapRaises
<1>10. ASSUME Fails PROVE WorkerOK'
  BY <1>10 DEF Fails
<1>11. ASSUME Finish PROVE WorkerOK'
  <2>1. /\ at' = "idle" /\ status' = "done" /\ paused' = FALSE
        /\ UNCHANGED <<set, by, started, memoryVars, dist>>
    BY <1>11 DEF Finish
  <2>2. paused' \in BOOLEAN
    BY <2>1
  <2>3. status' \in {"none", "stage", "done", "failed"}
    BY <2>1
  <2>4. QED
    BY <2>1, <2>2, <2>3
<1>12. ASSUME NEW t \in {"thread", "main"}, Begin(t) PROVE WorkerOK'
  BY <1>12 DEF Begin
<1>13. QED
  BY <1>1, <1>2, <1>3, <1>4, <1>5, <1>6, <1>7, <1>8, <1>9, <1>10, <1>11,
     <1>12 DEF Succeeds, Failing

\* Every variable keeps its type.
LEMMA TypeStep ==
  ASSUME TypeOK, Holds, Paced, Identified, Next
  PROVE  TypeOK'
<1> USE DEF TypeOK, ChannelOK, Links
<1>0. WorkerOK /\ (UNCHANGED workerVars => WorkerOK')
  BY DEF WorkerOK
<1>1. ASSUME MarkRequest PROVE TypeOK'
  BY <1>0, <1>1 DEF MarkRequest, Advance
<1>2. ASSUME CallReconnect PROVE TypeOK'
  BY <1>0, <1>2 DEF CallReconnect, Advance, StopHandler
<1>3. ASSUME Signal PROVE TypeOK'
  BY <1>0, <1>3 DEF Signal, Advance
<1>4. ASSUME CallWaitReady PROVE TypeOK'
  BY <1>0, <1>4 DEF CallWaitReady, Advance
<1>5. ASSUME Handshaken PROVE TypeOK'
  BY <1>0, <1>5 DEF Handshaken, Advance
<1>6. ASSUME SeesDone PROVE TypeOK'
  BY <1>0, <1>6 DEF SeesDone, Advance
<1>7. ASSUME GivesUp PROVE TypeOK'
  BY <1>0, <1>7 DEF GivesUp, Advance
<1>8. ASSUME ReconnectStep PROVE TypeOK'
  <2>1. CASE CancelOutputTask
    <3>1. Append(outs, Dead) \in Seq(Calls \cup {Dead})
      OBVIOUS
    <3>2. outs' \in Seq(Calls \cup {Dead})
      BY <1>0, <1>8, <2>1, <3>1 DEF CancelOutputTask
    <3>3. QED
      BY <1>0, <1>8, <2>1, <3>2 DEF ReconnectStep, CancelOutputTask
  <2>2. CASE Rebind
    <3>1. outs' \in Seq(Calls \cup {Dead})
      BY <1>0, <1>8, <2>2, AliveIsLive DEF Rebind
    <3>2. inbox' \in Seq(1..2) /\ handler' \in {"runs", "lost"}
      BY <1>0, <1>8, <2>2 DEF Rebind
    <3>3. /\ link' = "bound" /\ dead' \in BOOLEAN
          /\ UNCHANGED <<stage, peer, socketVars, engineVars, call,
                         workerVars>>
      BY <1>8, <2>2 DEF ReconnectStep, Rebind
    <3>4. QED
      BY <1>0, <3>1, <3>2, <3>3
  <2>3. QED
    BY <1>0, <1>8, <2>1, <2>2 DEF ReconnectStep
<1>9. ASSUME ReadyStep PROVE TypeOK'
  <2>1. CASE ReadReady
    <3>1. inbox' \in Seq(1..2) /\ peer' \in 1..2
      BY <1>0, <1>9, <2>1 DEF ReadReady, AdoptIdentity
    <3>2. QED
      BY <1>0, <1>9, <2>1, <3>1 DEF ReadyStep, ReadReady
  <2>2. CASE ReadyTimesOut
    BY <1>0, <1>9, <2>2 DEF ReadyStep, ReadyTimesOut
  <2>3. QED
    BY <1>0, <1>9, <2>1, <2>2 DEF ReadyStep
<1>10. ASSUME Triggers PROVE TypeOK'
  <2>1. gen' \in 0..2
    <3>1. gen' \in {gen, 1}
      BY <1>10 DEF Triggers, MarkerSeen, MarkerTriggers
    <3>2. QED
      BY <1>0, <3>1
  <2>2. late' \in BOOLEAN
    <3>1. late \in BOOLEAN
      BY <1>0
    <3>2. QED
      BY <1>10, <3>1, Zenon DEF Triggers, MarkerSeen, MarkerTriggers
  <2>3. UNCHANGED <<stage, second, signal, inputVars, outputVars, apiVars,
                    engineVars, call, workerVars>>
    BY <1>10 DEF Triggers, MarkerSeen, MarkerTriggers
  <2>4. QED
    BY <1>0, <2>1, <2>2, <2>3
<1>11. ASSUME SignalStep PROVE TypeOK'
  <2>1. call' \in [Calls -> {"none", "dropped", "queued", "served",
                         "answered"}]
    BY <1>0, <1>11 DEF SignalStep, HandleSignal
  <2>2. gen' \in 0..2 /\ second' \in BOOLEAN
    BY <1>0, <1>11 DEF SignalStep, HandleSignal, Identified
  <2>3. wire' \in Seq(Calls \cup {Dead})
    BY <1>0, <1>11 DEF SignalStep, HandleSignal
  <2>4. /\ signal' \in BOOLEAN /\ dealer' = Closed /\ greeting' \in BOOLEAN
        /\ push' \in BOOLEAN
    BY <1>11 DEF SignalStep, HandleSignal
  <2>5. UNCHANGED <<stage, late, outAt, outGen, held, apiVars, engineVars,
                    workerVars>>
    BY <1>11 DEF SignalStep, HandleSignal
  <2>6. QED
    BY <1>0, <2>1, <2>2, <2>3, <2>4, <2>5
<1>12. ASSUME InputStep PROVE TypeOK'
  <2>1. CASE Build
    BY <1>0, <1>12, <2>1 DEF InputStep, Build
  <2>2. CASE Greet
    <3>1. dealer \in 1..2
      BY <1>0, <1>12, <2>2 DEF Greet, Identified
    <3>2. inbox' \in Seq(1..2)
      BY <1>0, <1>12, <2>2, <3>1 DEF Greet
    <3>3. QED
      <4>1. /\ greeting' \in BOOLEAN
            /\ UNCHANGED <<stage, link, peer, dead, outs, handler, genVars,
                           signal, dealer, outputVars, engineVars, call,
                           workerVars>>
        BY <1>12, <2>2 DEF InputStep, Greet
      <4>2. QED
        BY <1>0, <3>2, <4>1
  <2>3. QED
    BY <1>0, <1>12, <2>1, <2>2 DEF InputStep
<1>13. ASSUME RestoreBegins PROVE TypeOK'
  BY <1>0, <1>13, WorkerTypes DEF RestoreBegins
<1>14. ASSUME RestoreStep PROVE TypeOK'
  BY <1>0, <1>14, WorkerTypes DEF RestoreStep
<1>15. ASSUME RestoreRaises PROVE TypeOK'
  <2>1. WorkerOK'
    BY <1>0, <1>15, WorkerTypes DEF RestoreRaises
  <2>2. ChannelOK'
    <3>1. CASE Die
      <4>1. outq' \in Seq(Calls \cup {Dead})
        BY <1>0, <1>15, <3>1 DEF Die
      <4>2. QED
        BY <1>0, <1>15, <3>1, <4>1 DEF Die
    <3>2. CASE UNCHANGED channelVars
      BY <1>0, <1>15, <3>2
    <3>3. QED
      BY <1>0, <1>15, <3>1, <3>2 DEF RestoreRaises
  <2>3. QED
    BY <1>0, <1>15, <2>1, <2>2 DEF RestoreRaises
<1>16. ASSUME RestoreEnds PROVE TypeOK'
  <2>1. WorkerOK'
    BY <1>0, <1>16, WorkerTypes DEF RestoreEnds
  <2>2. outq' \in Seq(Calls \cup {Dead})
    BY <1>0, <1>16, AliveIsLive DEF RestoreEnds, Drain
  <2>3. QED
    BY <1>0, <1>16, <2>1, <2>2 DEF RestoreEnds
<1>17. ASSUME ClientSends PROVE TypeOK'
  BY <1>0, <1>17 DEF ClientSends, Send
<1>18. ASSUME EngineServes PROVE TypeOK'
  BY <1>0, <1>18 DEF EngineServes, Serve
<1>19. ASSUME ApiHandles PROVE TypeOK'
  BY <1>0, <1>19 DEF ApiHandles, HandleOutput
<1>20. ASSUME EngineDies PROVE TypeOK'
  BY <1>0, <1>20 DEF EngineDies, Die
<1>21. ASSUME Monitor PROVE TypeOK'
  BY <1>0, <1>21 DEF Monitor, MonitorSees
<1>22. ASSUME OutputStep PROVE TypeOK'
  <2>1. UNCHANGED <<stage, apiVars, genVars, signal, inputVars, died, call,
                    workerVars>>
    BY <1>22, OutputFrame
  <2>2. /\ outAt' \in {"build", "get", "send", "ended", "lost"}
        /\ outGen' \in 0..2 /\ push' \in BOOLEAN
    BY <1>22 DEF OutputStep, OutputLoop, OutputRebuilds, OutputTakes,
                 OutputSends, OutputDies, Again
  <2>3. /\ held' \in Calls \cup {Dead, None}
        /\ outq' \in Seq(Calls \cup {Dead})
    <3>1. CASE OutputTakes(Marked)
      <4>1. outq # <<>> /\ outq' = Tail(outq) /\ held' \in {held, Head(outq)}
        BY <3>1 DEF OutputTakes
      <4>2. QED
        BY <4>1
    <3>2. CASE OutputRebuilds \/ OutputSends \/ OutputDies
      BY <3>2 DEF OutputRebuilds, OutputSends, OutputDies
    <3>3. QED
      BY <1>22, <3>1, <3>2 DEF OutputStep, OutputLoop
  <2>4. wire' \in Seq(Calls \cup {Dead})
    <3>1. CASE OutputSends
      <4>1. wire' = Append(wire, held) /\ held \in Calls \cup {Dead}
        BY <3>1 DEF OutputSends, Holds
      <4>2. QED
        BY <4>1
    <3>2. CASE OutputRebuilds \/ OutputTakes(Marked) \/ OutputDies
      BY <3>2 DEF OutputRebuilds, OutputTakes, OutputDies
    <3>3. QED
      BY <1>22, <3>1, <3>2 DEF OutputStep, OutputLoop
  <2>5. QED
    BY <1>0, <2>1, <2>2, <2>3, <2>4
<1>23. ASSUME ApiReads PROVE TypeOK'
  <2>1. /\ wire # <<>> /\ wire' = Tail(wire)
        /\ outs' = Append(outs, Head(wire))
        /\ dead' = (dead \/ Head(wire) = Dead)
        /\ UNCHANGED <<stage, link, inbox, peer, handler, genVars, signal,
                       inputVars, outAt, outGen, push, held, engineVars, call,
                       workerVars>>
    BY <1>23 DEF ApiReads, Arrive
  <2>2. /\ wire' \in Seq(Calls \cup {Dead}) /\ dead' \in BOOLEAN
        /\ outs' \in Seq(Calls \cup {Dead})
    BY <2>1
  <2>3. QED
    BY <1>0, <2>1, <2>2
<1>24. ASSUME TriggersLate PROVE TypeOK'
  <2>1. gen' \in 0..2
    <3>1. gen' \in {gen, 1}
      BY <1>24 DEF TriggersLate, MarkerTriggers
    <3>2. QED
      BY <1>0, <3>1
  <2>2. late' \in BOOLEAN
    <3>1. late \in BOOLEAN
      BY <1>0
    <3>2. QED
      BY <1>24, <3>1, Zenon DEF TriggersLate, MarkerTriggers
  <2>3. UNCHANGED <<stage, second, signal, inputVars, outputVars, apiVars,
                    engineVars, call, workerVars>>
    BY <1>24 DEF TriggersLate, MarkerTriggers
  <2>4. QED
    BY <1>0, <2>1, <2>2, <2>3
<1>25. QED
  BY <1>0, <1>1, <1>2, <1>3, <1>4, <1>5, <1>6, <1>7, <1>8, <1>9, <1>10, <1>11,
     <1>12, <1>13, <1>14, <1>15, <1>16, <1>17, <1>18, <1>19, <1>20, <1>21,
     <1>22, <1>23, <1>24
     DEF Next, Launcher, ApiServer, Engine, Service

\* The invariant, with the types it is stated on.
LEMMA TypeAndResumed == Spec => [](TypeOK /\ Resumed)
<1>1. Init => TypeOK /\ Resumed
  <2> SUFFICES ASSUME Init PROVE TypeOK /\ Resumed
    OBVIOUS
  <2> USE SettingsAssumption DEF Init, ChannelInit, WorkerInit
  <2>1. ChannelOK
    <3>1. call \in [Calls -> {"none", "dropped", "queued", "served",
                              "answered"}]
      OBVIOUS
    <3>2. <<>> \in Seq(1..2) /\ <<>> \in Seq(Calls \cup {Dead})
      OBVIOUS
    <3>3. <<Dead>> \in Seq(Calls \cup {Dead})
      OBVIOUS
    <3>4. outs \in Seq(Calls \cup {Dead}) /\ outq \in Seq(Calls \cup {Dead})
      BY <3>2, <3>3
    <3>5. inbox \in Seq(1..2)
      BY <3>2
    <3>6. gen \in 0..2 /\ peer \in 0..2 /\ dealer \in 0..2 /\ outGen \in 0..2
      OBVIOUS
    <3>7. wire \in Seq(Calls \cup {Dead})
      BY <3>2
    <3>8. QED
      BY <3>1, <3>4, <3>5, <3>6, <3>7 DEF ChannelOK, Links
  <2>2. WorkerOK
    BY DEF WorkerOK, Switches
  <2>3. Staged /\ Stepping
    BY DEF Staged, Stepping
  <2>4. Holds /\ Paced /\ Identified /\ Silent
    BY DEF Holds, Paced, Identified, Silent, Live
  <2>5. QED
    BY <2>1, <2>2, <2>3, <2>4 DEF TypeOK, Resumed
<1>2. TypeOK /\ Resumed /\ [Next]_vars => (TypeOK /\ Resumed)'
  <2> SUFFICES ASSUME TypeOK, Resumed, [Next]_vars
               PROVE  TypeOK' /\ Resumed'
    OBVIOUS
  <2>1. CASE UNCHANGED vars
    BY <2>1 DEF TypeOK, ChannelOK, WorkerOK, Resumed, Holds, Staged, Stepping,
                Paced, Identified, Silent, HasModel, HasCache, Grouped, Boots,
                Live
  <2>2. CASE Next
    BY <2>2, TypeStep, HoldsStep, StagedStep, SteppingStep, PacedStep,
       IdentifiedStep,
       SilentStep
       DEF Resumed
  <2>3. QED
    BY <2>1, <2>2
<1>3. QED
  BY <1>1, <1>2, PTL DEF Spec

(***************************************************************************)
(* Theorems                                                                *)
(***************************************************************************)
\* Every variable of launcher, channel and worker keeps its type.
THEOREM ResumeTypes == Spec => []TypeOK
  BY TypeAndResumed, PTL

\* Unless the signal made a second generation, a launcher that runs has an API
\* that addresses the one DEALER that is open.
THEOREM ChannelIsRepaired == Spec => []Repaired
<1>1. TypeOK /\ Resumed => Repaired
  BY DEF TypeOK, ChannelOK, Resumed, Paced, Identified, Repaired
<1>2. QED
  BY <1>1, TypeAndResumed, PTL

\* No sentinel that the image brought back, nor the teardown of the output
\* task, makes a rebound API declare a live engine dead.
THEOREM LiveEngineNotDeclaredDead == Spec => []NotDeclaredDead
<1>1. TypeOK /\ Resumed => NotDeclaredDead
  BY DEF TypeOK, ChannelOK, Resumed, Paced, Silent, NotDeclaredDead
<1>2. QED
  BY <1>1, TypeAndResumed, PTL

\* "running" is of a worker with weights, KV cache and process groups, for all
\* switches and after any number of attempts that raised.
THEOREM RunningIsUsable == Spec => []RunningMeansUsable
<1>1. TypeOK /\ Resumed => RunningMeansUsable
  BY DEF TypeOK, Resumed, Paced, Staged, HasModel, HasCache, Grouped,
         RunningMeansUsable
<1>2. QED
  BY <1>1, TypeAndResumed, PTL

\* A scheduler that runs beside a restore in its own thread finds a KV cache
\* and weights, of which only the reload may leave half.
THEOREM SchedulerStepsOnAModel == Spec => []SchedulerHasModel
<1>1. TypeOK /\ Resumed => SchedulerHasModel
  BY DEF TypeOK, Resumed, Stepping, HasCache, Boots, MainFree,
         SchedulerHasModel
<1>2. QED
  BY <1>1, TypeAndResumed, PTL

\* Graphs of the image are replayed only on the addresses they were captured
\* on, or where they could not be cleared.
THEOREM GraphsStillFit == Spec => []GraphsFit
<1>1. TypeOK /\ Resumed => GraphsFit
  BY DEF TypeOK, Resumed, Paced, Staged, GraphsFit
<1>2. QED
  BY <1>1, TypeAndResumed, PTL
=============================================================================
