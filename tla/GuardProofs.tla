----------------------------- MODULE GuardProofs -----------------------------
(***************************************************************************)
(* Proofs that the guard asks for no resume that the launcher would take   *)
(* while a vLLM runs, and posts one at a time: for any set of requests,    *)
(* any number of failures and of restarts of the guard.                    *)
(***************************************************************************)
EXTENDS Guard, TLAPS

USE DEF vars, serviceVars, guardVars, wakeVars, idleVars, postVars,
        launcherVars

SuspendOps == {"suspend", "slept", "dump", "dumped"}
ResumeOps  == {"resume", "restore", "recover", "fallback"}

\* An operation is under way that this guard has asked for.
MySuspend == mine /\ op \in SuspendOps
MyResume  == mine /\ op \in ResumeOps

\* A resume would find an image, or no vLLM but one that exits; or it is
\* refused, because another one is under way.
Absent   == engine \in {"gone", "stopping"}
Vacant   == image # "none" \/ Absent
Harmless == Vacant \/ op \in ResumeOps

(***************************************************************************)
(* The inductive invariant                                                 *)
(***************************************************************************)
\* How the engine and the image follow the operation.
Stages ==
  /\ op = "none" => ~mine
  /\ engine = "loading" => op = "fallback"
  /\ op \in {"suspend", "slept", "dump", "fallback"} => image = "none"
  /\ op \in {"dumped", "restore", "recover"} => image # "none"
  /\ image # "none" /\ op # "recover" => engine = "gone"
  /\ op = "fallback" => engine \in {"loading", "gone"}
  /\ op = "recover" => engine \notin {"loading", "stopping"}

\* A resume is posted, or under way for this guard, or answered: one of the
\* three, and the wake-up waits for it.
ResumeAsked ==
  /\ "resume" \in inbox \/ reply["resume"] # "none" \/ MyResume
       => wake = "resume"
  /\ "resume" \in inbox => reply["resume"] = "none" /\ ~MyResume
  /\ MyResume => reply["resume"] = "none"

\* The same of a suspend, for which the idle loop waits.
SuspendAsked ==
  /\ "suspend" \in inbox \/ reply["suspend"] # "none" \/ MySuspend
       => idle = "suspend"
  /\ "suspend" \in inbox => reply["suspend"] = "none" /\ ~MySuspend
  /\ MySuspend => reply["suspend"] = "none"
  /\ op \in SuspendOps => reply["suspend"] # "ok"

\* What the reported state says of the operation, and when the wake-up waits
\* for a resume that it did not ask for.
Reported ==
  /\ state = "checkpointed" => op \notin {"fallback", "restore", "recover"}
  /\ state = "restoring" <=> op \in {"restore", "recover"}
  /\ state = "failed" => engine = "gone"
  /\ op = "fallback" => state \in {"running", "failed"}
  /\ op = "dumped" => state = "checkpointed"
  /\ state = "checkpointing" => reply["suspend"] # "ok"
  /\ wake = "running" => health = "restoring"
  /\ op = "resume" /\ health = "restoring" => mine

\* When a resume is on its way, and what the flag that posts one may be worth:
\* true only while it does no harm, also when an answer of the launcher or a
\* restart of the guard comes late.
Flagged ==
  /\ state = "checkpointed" => Vacant
  /\ state = "checkpointing" /\ checkpointed => Harmless
  /\ op \in {"suspend", "slept", "dump"} /\ checkpointed => Absent
  /\ checkpointed /\ idle \in {"metrics", "probe", "suspend"}
       => Vacant /\ op \notin ResumeOps /\ "resume" \notin inbox
  /\ "resume" \in inbox /\ health # "null" => Harmless

Orderly ==
  /\ Stages
  /\ ResumeAsked /\ SuspendAsked
  /\ Reported

(***************************************************************************)
(* Types                                                                   *)
(***************************************************************************)
\* A call of the launcher keeps the types of the service.
LEMMA ServiceTypes ==
  ASSUME ServiceTypeOK, Stages, ServiceNext
  PROVE  ServiceTypeOK'
<1> USE ServiceAssumption
    DEF ServiceTypeOK, States, Ops, Memory, Calls, Ends, Answer
<1>0. /\ Failing => failures' \in 0..MaxFailures
      /\ OpFails => failures' \in 0..MaxFailures
  BY DEF Failing, OpFails
<1>1. ASSUME SuspendStarts PROVE ServiceTypeOK'
  BY <1>1 DEF SuspendStarts
<1>2. ASSUME SuspendRejected PROVE ServiceTypeOK'
  BY <1>2 DEF SuspendRejected
<1>3. ASSUME SuspendSleeps PROVE ServiceTypeOK'
  BY <1>3 DEF SuspendSleeps
<1>4. ASSUME SuspendFreezes PROVE ServiceTypeOK'
  BY <1>4 DEF SuspendFreezes
<1>5. ASSUME SuspendDumps PROVE ServiceTypeOK'
  BY <1>5 DEF SuspendDumps
<1>6. ASSUME SuspendReturns PROVE ServiceTypeOK'
  BY <1>6 DEF SuspendReturns
<1>7. ASSUME SuspendFails PROVE ServiceTypeOK'
  BY <1>0, <1>7 DEF SuspendFails
<1>8. ASSUME ResumeStarts PROVE ServiceTypeOK'
  BY <1>8 DEF ResumeStarts
<1>9. ASSUME ResumeBegins PROVE ServiceTypeOK'
  BY <1>9 DEF ResumeBegins
<1>10. ASSUME ResumeWithoutImage PROVE ServiceTypeOK'
  BY <1>10 DEF ResumeWithoutImage, StartsFallback
<1>11. ASSUME ResumeRestores PROVE ServiceTypeOK'
  BY <1>11 DEF ResumeRestores, Stages
<1>12. ASSUME ResumeReturns PROVE ServiceTypeOK'
  BY <1>12 DEF ResumeReturns
<1>13. ASSUME ResumeFails PROVE ServiceTypeOK'
  BY <1>0, <1>13 DEF ResumeFails, StartsFallback
<1>14. ASSUME FallbackReturns PROVE ServiceTypeOK'
  BY <1>14 DEF FallbackReturns
<1>15. ASSUME FallbackFails PROVE ServiceTypeOK'
  BY <1>0, <1>15 DEF FallbackFails
<1>16. ASSUME Exits PROVE ServiceTypeOK'
  BY <1>0, <1>16 DEF Exits
<1>17. ASSUME Stops PROVE ServiceTypeOK'
  BY <1>17 DEF Stops
<1>18. ASSUME NEW c \in Calls, Busy(c) PROVE ServiceTypeOK'
  BY <1>18 DEF Busy
<1>19. QED
  BY <1>1, <1>2, <1>3, <1>4, <1>5, <1>6, <1>7, <1>8, <1>9, <1>10, <1>11,
     <1>12, <1>13, <1>14, <1>15, <1>16, <1>17, <1>18
     DEF ServiceNext, Suspend, Resume, Failure

\* The two ways to read the reported state.
LEMMA ReconciledIs ==
  /\ state = "checkpointed" => Reconciled = TRUE
  /\ state = "running" => Reconciled = FALSE
  /\ state \notin {"checkpointed", "running"} => Reconciled = checkpointed
  BY DEF Reconciled

\* Every variable keeps its type.
LEMMA TypeStep ==
  ASSUME TypeOK, Stages, [Next]_vars
  PROVE  TypeOK'
<1> USE ServiceAssumption, GuardAssumption
    DEF TypeOK, Final, Calls, Settle, WakeGoes
<1>1. ASSUME ServiceNext, UNCHANGED guardVars PROVE TypeOK'
  BY <1>1, ServiceTypes
<1> USE DEF ServiceTypeOK
<1>2. ASSUME NEW r \in Requests, Arrive(r) PROVE TypeOK'
  <2>1. req' \in [Requests -> Final \cup {"waiting", "sent", "stream"}]
    BY <1>2 DEF Arrive
  <2>2. wake' \in {"none", "health", "resume", "recovery", "running", "probe",
                   "wake", "poll", "awake"}
    BY <1>2 DEF Arrive
  <2>3. QED
    BY <1>2, <2>1, <2>2 DEF Arrive
<1>3. ASSUME NEW r \in Requests, Forward(r) PROVE TypeOK'
  BY <1>3 DEF Forward
<1>4. ASSUME NEW r \in Requests, ForwardFails(r) PROVE TypeOK'
  <2>1. req' \in [Requests -> Final \cup {"waiting", "sent", "stream"}]
    BY <1>4 DEF ForwardFails
  <2>2. /\ long' = FALSE
        /\ UNCHANGED <<serviceVars, checkpointed, wakeVars, idle, restarts>>
    BY <1>4 DEF ForwardFails
  <2>3. ServiceTypeOK'
    BY <2>2
  <2>4. QED
    BY <2>1, <2>2, <2>3
<1>5. ASSUME NEW r \in Requests, StreamEnds(r) PROVE TypeOK'
  BY <1>5 DEF StreamEnds
<1>6. ASSUME WakeReadsHealth PROVE TypeOK'
  BY <1>6 DEF WakeReadsHealth, Post
<1>7. ASSUME WakeBlind PROVE TypeOK'
  <2>1. failures' \in 0..MaxFailures
    BY <1>7 DEF WakeBlind, Failing
  <2>2. QED
    BY <1>7, <2>1 DEF WakeBlind, Post
<1>8. ASSUME WakeResumed PROVE TypeOK'
  BY <1>8 DEF WakeResumed, Take, AfterResume
<1>9. ASSUME WakeWaits PROVE TypeOK'
  <2>1. req' \in [Requests -> Final \cup {"waiting", "sent", "stream"}]
    BY <1>9 DEF WakeWaits
  <2>2. /\ wake' \in {"none", "running", "probe"}
        /\ health' \in {"null", "restoring", "other"}
    BY <1>9 DEF WakeWaits, AfterResume
  <2>3. checkpointed' \in BOOLEAN /\ long' \in BOOLEAN
    BY <1>9 DEF WakeWaits
  <2>4. QED
    BY <1>9, <2>1, <2>2, <2>3 DEF WakeWaits
<1>10. ASSUME WakeWaitFails PROVE TypeOK'
  <2>1. failures' \in 0..MaxFailures
    BY <1>10 DEF WakeWaitFails, Failing
  <2>2. QED
    BY <1>10, <2>1 DEF WakeWaitFails
<1>11. ASSUME WakeExpires PROVE TypeOK'
  BY <1>11 DEF WakeExpires
<1>12. ASSUME WakeProbes PROVE TypeOK'
  BY <1>12 DEF WakeProbes
<1>13. ASSUME WakeEnds PROVE TypeOK'
  BY <1>13 DEF WakeEnds
<1>14. ASSUME WakeWakes PROVE TypeOK'
  BY <1>14 DEF WakeWakes, Memory
<1>15. ASSUME Elapse PROVE TypeOK'
  BY <1>15 DEF Elapse
<1>16. ASSUME IdleReconciles PROVE TypeOK'
  <2>1. checkpointed' \in BOOLEAN
    BY <1>16, ReconciledIs DEF IdleReconciles
  <2>2. idle' \in {"boot", "poll", "metrics", "probe", "suspend"}
        /\ long' \in BOOLEAN
    BY <1>16 DEF IdleReconciles, IdleLooks
  <2>3. QED
    BY <1>16, <2>1, <2>2 DEF IdleReconciles
<1>17. ASSUME IdleBlind PROVE TypeOK'
  <2>1. idle' \in {"boot", "poll", "metrics", "probe", "suspend"}
        /\ long' \in BOOLEAN
    BY <1>17 DEF IdleBlind, IdleLooks
  <2>2. failures' \in 0..MaxFailures
    BY <1>17 DEF IdleBlind, Failing
  <2>3. QED
    BY <1>17, <2>1, <2>2 DEF IdleBlind
<1>18. ASSUME IdleReadsMetrics PROVE TypeOK'
  BY <1>18 DEF IdleReadsMetrics
<1>19. ASSUME IdleProbes PROVE TypeOK'
  <2>1. inbox' \subseteq Calls /\ idle' \in {"poll", "suspend"}
    BY <1>19 DEF IdleProbes, Post
  <2>2. QED
    BY <1>19, <2>1 DEF IdleProbes
<1>20. ASSUME IdleSuspended PROVE TypeOK'
  BY <1>20 DEF IdleSuspended, Take
<1>21. ASSUME Restart PROVE TypeOK'
  <2>1. req' \in [Requests -> Final \cup {"waiting", "sent", "stream"}]
    BY <1>21 DEF Restart
  <2>2. reply' \in [Calls -> {"none", "ok", "error"}]
    BY <1>21 DEF Restart
  <2>3. restarts' \in 0..MaxRestarts
    BY <1>21 DEF Restart
  <2>4. QED
    BY <1>21, <2>1, <2>2, <2>3 DEF Restart
<1>22. CASE UNCHANGED vars
  BY <1>22
<1>23. QED
  BY <1>1, <1>2, <1>3, <1>4, <1>5, <1>6, <1>7, <1>8, <1>9, <1>10, <1>11,
     <1>12, <1>13, <1>14, <1>15, <1>16, <1>17, <1>18, <1>19, <1>20, <1>21,
     <1>22
     DEF Next, Finish, WakeStep, IdleStep

(***************************************************************************)
(* The operations and the calls                                            *)
(***************************************************************************)
\* A call of the launcher preserves the invariant.
LEMMA ServiceOrderly ==
  ASSUME TypeOK, Orderly, ServiceNext, UNCHANGED guardVars
  PROVE  Orderly'
<1> USE DEF TypeOK, ServiceTypeOK, Orderly, Stages, Reported, ResumeAsked,
            SuspendAsked, MySuspend, MyResume, SuspendOps, ResumeOps, Memory,
            Calls, Ends, Answer, Expected
<1>1. ASSUME SuspendStarts PROVE Orderly'
  BY <1>1 DEF SuspendStarts
<1>2. ASSUME SuspendRejected PROVE Orderly'
  BY <1>2 DEF SuspendRejected
<1>3. ASSUME SuspendSleeps PROVE Orderly'
  BY <1>3 DEF SuspendSleeps
<1>4. ASSUME SuspendFreezes PROVE Orderly'
  BY <1>4 DEF SuspendFreezes
<1>5. ASSUME SuspendDumps PROVE Orderly'
  BY <1>5 DEF SuspendDumps
<1>6. ASSUME SuspendReturns PROVE Orderly'
  BY <1>6 DEF SuspendReturns
<1>7. ASSUME SuspendFails PROVE Orderly'
  BY <1>7 DEF SuspendFails, OpFails
<1>8. ASSUME ResumeStarts PROVE Orderly'
  BY <1>8 DEF ResumeStarts
<1>9. ASSUME ResumeBegins PROVE Orderly'
  BY <1>9 DEF ResumeBegins
<1>10. ASSUME ResumeWithoutImage PROVE Orderly'
  BY <1>10 DEF ResumeWithoutImage, StartsFallback
<1>11. ASSUME ResumeRestores PROVE Orderly'
  BY <1>11 DEF ResumeRestores
<1>12. ASSUME ResumeReturns PROVE Orderly'
  BY <1>12 DEF ResumeReturns
<1>13. ASSUME ResumeFails PROVE Orderly'
  BY <1>13 DEF ResumeFails, StartsFallback, OpFails
<1>14. ASSUME FallbackReturns PROVE Orderly'
  BY <1>14 DEF FallbackReturns
<1>15. ASSUME FallbackFails PROVE Orderly'
  BY <1>15 DEF FallbackFails, OpFails
<1>16. ASSUME Exits PROVE Orderly'
  BY <1>16 DEF Exits
<1>17. ASSUME Stops PROVE Orderly'
  BY <1>17 DEF Stops
<1>18. ASSUME NEW c \in Calls, Busy(c) PROVE Orderly'
  BY <1>18 DEF Busy
<1>19. QED
  BY <1>1, <1>2, <1>3, <1>4, <1>5, <1>6, <1>7, <1>8, <1>9, <1>10, <1>11,
     <1>12, <1>13, <1>14, <1>15, <1>16, <1>17, <1>18
     DEF ServiceNext, Suspend, Resume, Failure

\* A step of the guard preserves it.
LEMMA GuardOrderly ==
  ASSUME TypeOK, Orderly,
         \/ \E r \in Requests : Arrive(r) \/ Finish(r)
         \/ WakeStep \/ Elapse \/ IdleStep \/ Restart
  PROVE  Orderly'
<1> USE DEF TypeOK, ServiceTypeOK, Orderly, Stages, Reported, ResumeAsked,
            SuspendAsked, MySuspend, MyResume, SuspendOps, ResumeOps, Memory,
            Calls,
            Settle, WakeGoes, AfterResume
<1>1. ASSUME NEW r \in Requests, Arrive(r) PROVE Orderly'
  BY <1>1 DEF Arrive
<1>2. ASSUME NEW r \in Requests, Forward(r) PROVE Orderly'
  BY <1>2 DEF Forward
<1>3. ASSUME NEW r \in Requests, ForwardFails(r) PROVE Orderly'
  BY <1>3 DEF ForwardFails
<1>4. ASSUME NEW r \in Requests, StreamEnds(r) PROVE Orderly'
  BY <1>4 DEF StreamEnds
<1>5. ASSUME WakeReadsHealth PROVE Orderly'
  BY <1>5 DEF WakeReadsHealth, Post
<1>6. ASSUME WakeBlind PROVE Orderly'
  BY <1>6 DEF WakeBlind, Post, Failing
<1>7. ASSUME WakeResumed PROVE Orderly'
  BY <1>7 DEF WakeResumed, Take, AfterResume
<1>8. ASSUME WakeWaits PROVE Orderly'
  BY <1>8 DEF WakeWaits, AfterResume
<1>9. ASSUME WakeWaitFails PROVE Orderly'
  BY <1>9 DEF WakeWaitFails, Failing
<1>10. ASSUME WakeExpires PROVE Orderly'
  BY <1>10 DEF WakeExpires
<1>11. ASSUME WakeProbes PROVE Orderly'
  BY <1>11 DEF WakeProbes
<1>12. ASSUME WakeEnds PROVE Orderly'
  BY <1>12 DEF WakeEnds
<1>13. ASSUME WakeWakes PROVE Orderly'
  BY <1>13 DEF WakeWakes, Memory
<1>14. ASSUME Elapse PROVE Orderly'
  BY <1>14 DEF Elapse
<1>15. ASSUME IdleReconciles PROVE Orderly'
  BY <1>15 DEF IdleReconciles, IdleLooks
<1>16. ASSUME IdleBlind PROVE Orderly'
  BY <1>16 DEF IdleBlind, IdleLooks, Failing
<1>17. ASSUME IdleReadsMetrics PROVE Orderly'
  BY <1>17 DEF IdleReadsMetrics
<1>18. ASSUME IdleProbes PROVE Orderly'
  BY <1>18 DEF IdleProbes, Post
<1>19. ASSUME IdleSuspended PROVE Orderly'
  BY <1>19 DEF IdleSuspended, Take
<1>20. ASSUME Restart PROVE Orderly'
  BY <1>20 DEF Restart
<1>21. QED
  BY <1>1, <1>2, <1>3, <1>4, <1>5, <1>6, <1>7, <1>8, <1>9, <1>10, <1>11,
     <1>12, <1>13, <1>14, <1>15, <1>16, <1>17, <1>18, <1>19, <1>20
     DEF Finish, WakeStep, IdleStep

(***************************************************************************)
(* The flag                                                                *)
(***************************************************************************)
\* A call of the launcher leaves the flag worth what it was.
LEMMA ServiceFlagged ==
  ASSUME FallbackFresh, TypeOK, Orderly, Flagged,
         ServiceNext, UNCHANGED guardVars
  PROVE  Flagged'
<1> USE DEF TypeOK, ServiceTypeOK, Orderly, Stages, Reported, ResumeAsked,
            SuspendAsked, MySuspend, MyResume, SuspendOps, ResumeOps, Memory,
            Calls, Ends, Answer, Expected,
            Flagged, Vacant, Absent, Harmless, LastResume
<1>1. ASSUME SuspendStarts PROVE Flagged'
  BY <1>1 DEF SuspendStarts
<1>2. ASSUME SuspendRejected PROVE Flagged'
  BY <1>2 DEF SuspendRejected
<1>3. ASSUME SuspendSleeps PROVE Flagged'
  BY <1>3 DEF SuspendSleeps
<1>4. ASSUME SuspendFreezes PROVE Flagged'
  BY <1>4 DEF SuspendFreezes
<1>5. ASSUME SuspendDumps PROVE Flagged'
  BY <1>5 DEF SuspendDumps
<1>6. ASSUME SuspendReturns PROVE Flagged'
  BY <1>6 DEF SuspendReturns
<1>7. ASSUME SuspendFails PROVE Flagged'
  BY <1>7 DEF SuspendFails, OpFails
<1>8. ASSUME ResumeStarts PROVE Flagged'
  BY <1>8 DEF ResumeStarts
<1>9. ASSUME ResumeBegins PROVE Flagged'
  BY <1>9 DEF ResumeBegins
<1>10. ASSUME ResumeWithoutImage PROVE Flagged'
  BY <1>10 DEF ResumeWithoutImage, StartsFallback
<1>11. ASSUME ResumeRestores PROVE Flagged'
  BY <1>11 DEF ResumeRestores
<1>12. ASSUME ResumeReturns PROVE Flagged'
  BY <1>12 DEF ResumeReturns
<1>13. ASSUME ResumeFails PROVE Flagged'
  BY <1>13 DEF ResumeFails, StartsFallback, OpFails
<1>14. ASSUME FallbackReturns PROVE Flagged'
  BY <1>14 DEF FallbackReturns
<1>15. ASSUME FallbackFails PROVE Flagged'
  BY <1>15 DEF FallbackFails, OpFails
<1>16. ASSUME Exits PROVE Flagged'
  BY <1>16 DEF Exits
<1>17. ASSUME Stops PROVE Flagged'
  BY <1>17 DEF Stops
<1>18. ASSUME NEW c \in Calls, Busy(c) PROVE Flagged'
  BY <1>18 DEF Busy
<1>19. QED
  BY <1>1, <1>2, <1>3, <1>4, <1>5, <1>6, <1>7, <1>8, <1>9, <1>10, <1>11,
     <1>12, <1>13, <1>14, <1>15, <1>16, <1>17, <1>18
     DEF ServiceNext, Suspend, Resume, Failure

\* A step of the guard sets it and acts upon it where it is worth that.
LEMMA GuardFlagged ==
  ASSUME TypeOK, Orderly, Flagged,
         \/ \E r \in Requests : Arrive(r) \/ Finish(r)
         \/ WakeStep \/ Elapse \/ IdleStep \/ Restart
  PROVE  Flagged'
<1> USE DEF TypeOK, ServiceTypeOK, Orderly, Stages, Reported, ResumeAsked,
            SuspendAsked, MySuspend, MyResume, SuspendOps, ResumeOps, Memory,
            Calls,
            Settle, WakeGoes, AfterResume, Flagged, Vacant, Absent, Harmless
<1>1. ASSUME NEW r \in Requests, Arrive(r) PROVE Flagged'
  BY <1>1 DEF Arrive
<1>2. ASSUME NEW r \in Requests, Forward(r) PROVE Flagged'
  BY <1>2 DEF Forward
<1>3. ASSUME NEW r \in Requests, ForwardFails(r) PROVE Flagged'
  BY <1>3 DEF ForwardFails
<1>4. ASSUME NEW r \in Requests, StreamEnds(r) PROVE Flagged'
  BY <1>4 DEF StreamEnds
<1>5. ASSUME WakeReadsHealth PROVE Flagged'
  <2>1. CASE Reconciled
    <3>1. /\ inbox' = inbox \cup {"resume"} /\ ~checkpointed'
          /\ UNCHANGED <<postVars, reply, idle>>
      BY <1>5, <2>1 DEF WakeReadsHealth, Post
    <3>2. state \in States /\ state # "running"
          /\ (state # "checkpointed" => checkpointed)
      BY <2>1, ReconciledIs
    <3>3. Harmless
      BY <3>2 DEF States
    <3>4. QED
      BY <3>1, <3>3
  <2>2. CASE ~Reconciled
    BY <1>5, <2>2 DEF WakeReadsHealth
  <2>3. QED
    BY <2>1, <2>2
<1>6. ASSUME WakeBlind PROVE Flagged'
  BY <1>6 DEF WakeBlind, Post, Failing
<1>7. ASSUME WakeResumed PROVE Flagged'
  BY <1>7 DEF WakeResumed, Take, AfterResume
<1>8. ASSUME WakeWaits PROVE Flagged'
  BY <1>8 DEF WakeWaits, AfterResume
<1>9. ASSUME WakeWaitFails PROVE Flagged'
  BY <1>9 DEF WakeWaitFails, Failing
<1>10. ASSUME WakeExpires PROVE Flagged'
  BY <1>10 DEF WakeExpires
<1>11. ASSUME WakeProbes PROVE Flagged'
  BY <1>11 DEF WakeProbes
<1>12. ASSUME WakeEnds PROVE Flagged'
  BY <1>12 DEF WakeEnds
<1>13. ASSUME WakeWakes PROVE Flagged'
  BY <1>13 DEF WakeWakes, Memory
<1>14. ASSUME Elapse PROVE Flagged'
  BY <1>14 DEF Elapse
<1>15. ASSUME IdleReconciles PROVE Flagged'
  <2>1. CASE Reconciled
    <3>1. idle' = "poll" /\ UNCHANGED <<serviceVars, wakeVars>>
          /\ checkpointed' \in BOOLEAN
      BY <1>15, <2>1, ReconciledIs DEF IdleReconciles, IdleLooks
    <3>2. state = "checkpointed" \/ checkpointed
      BY <2>1, ReconciledIs
    <3>3. QED
      BY <3>1, <3>2
  <2>2. CASE ~Reconciled
    <3>1. ~checkpointed' /\ UNCHANGED <<serviceVars, wakeVars>>
      BY <1>15, <2>2 DEF IdleReconciles
    <3>2. QED
      BY <3>1
  <2>3. QED
    BY <2>1, <2>2
<1>16. ASSUME IdleBlind PROVE Flagged'
  BY <1>16 DEF IdleBlind, IdleLooks, Failing
<1>17. ASSUME IdleReadsMetrics PROVE Flagged'
  BY <1>17 DEF IdleReadsMetrics
<1>18. ASSUME IdleProbes PROVE Flagged'
  BY <1>18 DEF IdleProbes, Post
<1>19. ASSUME IdleSuspended PROVE Flagged'
  BY <1>19 DEF IdleSuspended, Take
<1>20. ASSUME Restart PROVE Flagged'
  BY <1>20 DEF Restart
<1>21. QED
  BY <1>1, <1>2, <1>3, <1>4, <1>5, <1>6, <1>7, <1>8, <1>9, <1>10, <1>11,
     <1>12, <1>13, <1>14, <1>15, <1>16, <1>17, <1>18, <1>19, <1>20
     DEF Finish, WakeStep, IdleStep

(***************************************************************************)
(* The invariants of the specification                                     *)
(***************************************************************************)
\* The invariant, with the types it is stated on.
LEMMA TypeAndOrder == Spec => [](TypeOK /\ Orderly)
<1>1. Init => TypeOK /\ Orderly
  <2> USE ServiceAssumption, GuardAssumption DEF Init, ServiceInit
  <2>1. ASSUME Init PROVE TypeOK
    <3>1. ServiceTypeOK
      <4>1. failures \in 0..MaxFailures
        BY <2>1
      <4>2. QED
        BY <2>1, <4>1 DEF ServiceTypeOK, Memory, Calls, States, Ops
    <3>2. req \in [Requests -> Final \cup {"waiting", "sent", "stream"}]
      BY <2>1 DEF Final
    <3>3. restarts \in 0..MaxRestarts
      BY <2>1
    <3>4. QED
      BY <2>1, <3>1, <3>2, <3>3 DEF TypeOK
  <2>2. ASSUME Init PROVE Orderly
    BY <2>2 DEF Orderly, Stages, Reported, ResumeAsked, SuspendAsked,
                MySuspend, MyResume, SuspendOps, ResumeOps, Calls
  <2>3. QED
    BY <2>1, <2>2
<1>2. TypeOK /\ Orderly /\ [Next]_vars => (TypeOK /\ Orderly)'
  <2> SUFFICES ASSUME TypeOK, Orderly, [Next]_vars
               PROVE  TypeOK' /\ Orderly'
    OBVIOUS
  <2>1. ASSUME UNCHANGED vars PROVE Orderly'
    BY <2>1 DEF Orderly, Stages, Reported, ResumeAsked, SuspendAsked,
                MySuspend, MyResume
  <2>2. QED
    BY <2>1, TypeStep, ServiceOrderly, GuardOrderly DEF Next, Orderly
<1>3. QED
  BY <1>1, <1>2, PTL DEF Spec

\* With the fallback, the flag is worth what Flagged says.  (Without it, a
\* resume that a blind guard has posted leaves the state "checkpointed" beside
\* a vLLM that runs.)
LEMMA FlagTrusted ==
  ASSUME FallbackFresh
  PROVE  Spec => []Flagged
<1>1. Init => Flagged
  BY DEF Init, ServiceInit, Flagged
<1>2. TypeOK /\ Orderly /\ Flagged /\ [Next]_vars => Flagged'
  <2> SUFFICES ASSUME TypeOK, Orderly, Flagged, [Next]_vars
               PROVE  Flagged'
    OBVIOUS
  <2>1. ASSUME UNCHANGED vars PROVE Flagged'
    BY <2>1 DEF Flagged, Vacant, Absent, Harmless
  <2>2. QED
    BY <2>1, ServiceFlagged, GuardFlagged DEF Next
<1>3. QED
  BY <1>1, <1>2, TypeAndOrder, PTL DEF Spec

(***************************************************************************)
(* Theorems                                                                *)
(***************************************************************************)
\* Every variable of the guard and of the service keeps its type.
THEOREM GuardTypes == Spec => []TypeOK
  BY TypeAndOrder, PTL

\* For any number of requests, failures and restarts, where the fallback is
\* configured: the launcher never gets to start a resume while a vLLM runs,
\* but for a guard that could not read the state and for a vLLM that exits.
THEOREM NoResumeIsStray ==
  ASSUME FallbackFresh
  PROVE  Spec => []NoStrayResume
<1>1. Flagged => NoStrayResume
  BY DEF Flagged, Harmless, Vacant, Absent, ResumeOps, NoStrayResume
<1>2. QED
  BY <1>1, FlagTrusted, PTL

\* No second resume is posted while one is on its way or under way for this
\* guard.
THEOREM OneResumeAtATime == Spec => []OneResume
<1>1. Orderly => OneResume
  BY DEF Orderly, ResumeAsked, MyResume, ResumeOps, OneResume
<1>2. QED
  BY <1>1, TypeAndOrder, PTL
=============================================================================
