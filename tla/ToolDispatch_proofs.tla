------------------------- MODULE ToolDispatch_proofs -------------------------
(* That the tools of a run are accounted for, started, kept to their stages and  *)
(* not passed over an exception, a timeout or a cancellation, and that what was  *)
(* reported stands; and that every step of the loop takes it further: for any    *)
(* requests, specs and pytest width.                                             *)
EXTENDS ToolDispatch, TLAPS

\* Where the loop can stand at a stage.
Control ==
    /\ loop = "schedule" =>
          stage = 1 /\ (\A t \in Tools : job[t] = "absent") /\ \A n \in Names : rows[n] = {}
    /\ loop = "waiting" => stage <= 3
    /\ loop \notin {"schedule", "stage", "waiting"} => stage = 4

\* A scheduled tool that was not started waits for a stage to come, or the filter of the
\* loop does not know it.
Queued ==
    \A t \in Tools : job[t] = "pending" =>
        \/ IF loop = "waiting" THEN stage < StageOf(t) ELSE stage <= StageOf(t)
        \/ request # {} /\ t \notin Literal

\* Coroutines run in their stage, and only they wait for subprocesses.
Running ==
    \A t \in Tools :
        /\ job[t] \notin {"absent", "pending"} =>
              IF loop = "stage" THEN StageOf(t) < stage ELSE StageOf(t) <= stage
        /\ job[t] = "running" => loop = "waiting" /\ stage = StageOf(t)
        /\ procs[t] > 0 \/ dying[t] > 0 \/ extra[t] > 0 => job[t] = "running"

\* Why nobody waits for a subprocess any more.
Leftovers ==
    \A t \in Tools : stray[t] > 0 =>
        /\ stage >= StageOf(t)
        /\ StageOf(t) \in overran \/ t \in late \cap {"k6", "newman"} \/ t \in hung

\* A spec that timed out has its row, unless its coroutine is still draining the pipes or
\* was cancelled there; a tool without a row of its own has none, that of its exception
\* or, if it was cancelled, the one of the reconciliation.
Stories ==
    /\ \A t \in late :
        \/ "FAIL" \in rows[t]
        \/ t \in Reaps /\ (dying[t] > 0 \/ (job[t] = "cancelled" /\ StageOf(t) \in overran))
    /\ \A t \in Tools : t \notin own =>
        /\ job[t] \in {"pending", "running"} /\ loop \in {"schedule", "stage", "waiting"} => rows[t] = {}
        /\ job[t] = "raised" =>
              "FAIL" \in rows[t] \/ (loop = "waiting" /\ stage = StageOf(t) /\ rows[t] = {})
        /\ job[t] = "cancelled" => rows[t] \subseteq {"UNRUN"}

\* Nothing is published before its time, and a PASS is earned.
Verdict ==
    /\ status = "completed" => loop \in {"gate", "done"}
    /\ gate # "none" => loop = "done"
    /\ PassIsEarned

IInv ==
    /\ TypeOK /\ Control /\ Queued /\ Running
    /\ Leftovers /\ Stories /\ Verdict /\ ToolsAccountedFor

\* A coroutine with a place free everywhere waits for nothing.
LEMMA NotBusy ==
  ASSUME TypeOK, NEW t \in Tools, Busy(t) = 0
  PROVE  procs[t] = 0 /\ dying[t] = 0 /\ extra[t] = 0
  <1>1. procs[t] \in Nat /\ dying[t] \in Nat /\ extra[t] \in Nat BY DEF TypeOK
  <1>2. procs[t] + dying[t] + extra[t] = 0 BY DEF Busy
  <1>3. \A a, b, c \in Nat : a + b + c = 0 => a = 0 /\ b = 0 /\ c = 0 OBVIOUS
  <1> QED BY <1>1, <1>2, <1>3

\* A coroutine other than that of pytest has one subprocess at a time.
LEMMA OneAtATime ==
  ASSUME TypeOK, NEW t \in Tools, t # "pytest", extra[t] > 0
  PROVE  procs[t] = 0 /\ dying[t] = 0 /\ extra[t] = 1
  <1>1. procs[t] \in Nat /\ dying[t] \in Nat /\ extra[t] \in Nat BY DEF TypeOK
  <1>2. procs[t] + dying[t] + extra[t] <= 1 BY DEF TypeOK, Width
  <1> QED BY <1>1, <1>2

\* Every step keeps the types,
LEMMA StepType == TypeOK /\ Control /\ [Next]_vars => TypeOK'
  <1> SUFFICES ASSUME TypeOK, Control, [Next]_vars PROVE TypeOK' OBVIOUS
  <1>1. CASE Schedule
    <2>1. rows' \in [Names -> SUBSET Rows] BY <1>1 DEF Schedule, Rows, children
    <2>2. job' \in [Tools -> Jobs] BY <1>1 DEF Schedule, Jobs, children
    <2>3. left' \in [Tools -> Nat] BY <1>1, InventoriesAssumption DEF Schedule, TypeOK, children
    <2> QED BY <1>1, <2>1, <2>2, <2>3 DEF Schedule, TypeOK, input, children
  <1>2. CASE SkipStage BY <1>2 DEF SkipStage, TypeOK, input, children
  <1>3. CASE StartStage BY <1>3 DEF StartStage, TypeOK, Jobs, input, children
  <1>4. CASE EndStage BY <1>4 DEF EndStage, BackfillRaised, TypeOK, Control, Rows, input, children
  <1>5. CASE LeaveStages BY <1>5 DEF LeaveStages, TypeOK, input, children
  <1>6. CASE Reconcile BY <1>6 DEF Reconcile, TypeOK, Rows, input, children
  <1>7. CASE ZapEnds BY <1>7 DEF ZapEnds, TypeOK, input, children
  <1>8. CASE Finalize BY <1>8 DEF Finalize, TypeOK, input, children
  <1>9. CASE DecideGate BY <1>9 DEF DecideGate, TypeOK, input, children
  <1>10. CASE StageTimeout BY <1>10 DEF StageTimeout, TypeOK, Control, input, children
  <1>11. ASSUME NEW t \in Tools, StartSpec(t) PROVE TypeOK'
    <2>1. left' \in [Tools -> Nat] BY <1>11 DEF StartSpec, TypeOK, children
    <2>2. /\ procs' \in [Tools -> Nat] /\ dying' \in [Tools -> Nat] /\ extra' \in [Tools -> Nat]
          /\ \A u \in Tools : procs'[u] + dying'[u] + extra'[u] <= Width(u)
      BY <1>11, CountsAssumption DEF StartSpec, TypeOK, Width, Busy, children
    <2> QED BY <1>11, <2>1, <2>2 DEF StartSpec, TypeOK, input, children
  <1>12. ASSUME NEW t \in Tools, PassOver(t) PROVE TypeOK' BY <1>12 DEF PassOver, Append, TypeOK, Rows, input, children
  <1>13. ASSUME NEW t \in Tools, SpecEnds(t) PROVE TypeOK'
    <2>1. /\ procs' \in [Tools -> Nat] /\ dying' \in [Tools -> Nat] /\ extra' \in [Tools -> Nat]
          /\ \A u \in Tools : procs'[u] + dying'[u] + extra'[u] <= Width(u)
      BY <1>13, CountsAssumption DEF SpecEnds, TypeOK, Width, children
    <2>2. rows' \in [Names -> SUBSET Rows] /\ own' \subseteq Tools
      BY <1>13 DEF SpecEnds, Append, TypeOK, children
    <2> QED BY <1>13, <2>1, <2>2 DEF SpecEnds, TypeOK, input, children
  <1>14. ASSUME NEW t \in Tools, SpecTimesOut(t) PROVE TypeOK'
    <2>1. /\ procs' \in [Tools -> Nat] /\ dying' \in [Tools -> Nat] /\ extra' \in [Tools -> Nat]
          /\ \A u \in Tools : procs'[u] + dying'[u] + extra'[u] <= Width(u)
      BY <1>14, CountsAssumption DEF SpecTimesOut, TypeOK, Width, children
    <2>2. rows' \in [Names -> SUBSET Rows] /\ own' \subseteq Tools
      BY <1>14 DEF SpecTimesOut, Append, TypeOK, Rows, children
    <2>3. stray' \in [Tools -> Nat] BY <1>14 DEF SpecTimesOut, TypeOK, children
    <2> QED BY <1>14, <2>1, <2>2, <2>3 DEF SpecTimesOut, TypeOK, input, children
  <1>15. ASSUME NEW t \in Tools, GiveUp(t) PROVE TypeOK'
    <2>1. job' \in [Tools -> Jobs] BY <1>15 DEF GiveUp, TypeOK, Jobs, children
    <2>2. rows' \in [Names -> SUBSET Rows] /\ own' \subseteq Tools
      BY <1>15 DEF GiveUp, Append, TypeOK, Rows, children
    <2> QED BY <1>15, <2>1, <2>2 DEF GiveUp, TypeOK, input, children
  <1>16. ASSUME NEW t \in Tools, Return(t) PROVE TypeOK' BY <1>16 DEF Return, TypeOK, Jobs, input, children
  <1>17. ASSUME NEW t \in Tools, Raise(t) PROVE TypeOK' BY <1>17 DEF Raise, TypeOK, Jobs, input, children
  <1>18. ASSUME NEW t \in Tools, Cancelled(t) PROVE TypeOK'
    <2>1. /\ procs' \in [Tools -> Nat] /\ dying' \in [Tools -> Nat] /\ extra' \in [Tools -> Nat]
          /\ \A u \in Tools : procs'[u] + dying'[u] + extra'[u] <= Width(u)
      BY <1>18, CountsAssumption DEF Cancelled, TypeOK, Width, children
    <2>2. stray' \in [Tools -> Nat] BY <1>18 DEF Cancelled, TypeOK, children
    <2> QED BY <1>18, <2>1, <2>2 DEF Cancelled, TypeOK, Jobs, input, children
  <1>19. ASSUME NEW t \in Tools, StrayEnds(t) PROVE TypeOK' BY <1>19 DEF StrayEnds, TypeOK, input, children
  <1>21. ASSUME NEW t \in Tools, TimeoutTold(t) PROVE TypeOK'
    <2>1. /\ procs' \in [Tools -> Nat] /\ dying' \in [Tools -> Nat] /\ extra' \in [Tools -> Nat]
          /\ \A u \in Tools : procs'[u] + dying'[u] + extra'[u] <= Width(u)
      BY <1>21, CountsAssumption DEF TimeoutTold, TypeOK, Width, Busy, children
    <2>2. rows' \in [Names -> SUBSET Rows] /\ own' \subseteq Tools
      BY <1>21 DEF TimeoutTold, Append, TypeOK, Rows, Names, children
    <2>3. job' \in [Tools -> Jobs] /\ stray' \in [Tools -> Nat]
      BY <1>21 DEF TimeoutTold, TypeOK, Jobs, Rows, children
    <2> QED BY <1>21, <2>1, <2>2, <2>3 DEF TimeoutTold, TypeOK, input, children
  <1>22. ASSUME NEW t \in Tools, FollowUp(t) PROVE TypeOK'
    <2>1. /\ procs' \in [Tools -> Nat] /\ dying' \in [Tools -> Nat] /\ extra' \in [Tools -> Nat]
          /\ \A u \in Tools : procs'[u] + dying'[u] + extra'[u] <= Width(u)
      <3>1. CASE t = "pytest" BY <1>22, <3>1, CountsAssumption DEF FollowUp, TypeOK
      <3>2. CASE t = "playwright"
        <4>1. procs[t] = 0 /\ dying[t] = 0 /\ extra[t] = 0 BY <1>22, <3>2, NotBusy DEF FollowUp
        <4>2. procs' = procs /\ dying' = dying /\ extra' = [extra EXCEPT ![t] = @ + 1]
          BY <1>22, <3>2 DEF FollowUp
        <4> QED BY <3>2, <4>1, <4>2 DEF TypeOK, Width
      <3> QED BY <1>22, <3>1, <3>2 DEF FollowUp
    <2>2. rows' \in [Names -> SUBSET Rows] /\ own' \subseteq Tools
      BY <1>22 DEF FollowUp, Append, TypeOK, Rows, Names, children
    <2>3. job' \in [Tools -> Jobs] /\ stray' \in [Tools -> Nat]
      BY <1>22 DEF FollowUp, TypeOK, Jobs, Rows, children
    <2> QED BY <1>22, <2>1, <2>2, <2>3 DEF FollowUp, TypeOK, input, children
  <1>23. ASSUME NEW t \in Tools, FollowUpEnds(t) PROVE TypeOK'
    <2>1. /\ procs' \in [Tools -> Nat] /\ dying' \in [Tools -> Nat] /\ extra' \in [Tools -> Nat]
          /\ \A u \in Tools : procs'[u] + dying'[u] + extra'[u] <= Width(u)
      BY <1>23, CountsAssumption DEF FollowUpEnds, TypeOK, Width, Busy, children
    <2>2. rows' \in [Names -> SUBSET Rows] /\ own' \subseteq Tools
      BY <1>23 DEF FollowUpEnds, Append, TypeOK, Rows, Names, children
    <2>3. job' \in [Tools -> Jobs] /\ stray' \in [Tools -> Nat]
      BY <1>23 DEF FollowUpEnds, TypeOK, Jobs, Rows, children
    <2> QED BY <1>23, <2>1, <2>2, <2>3 DEF FollowUpEnds, TypeOK, input, children
  <1>20. CASE UNCHANGED vars BY <1>20 DEF TypeOK, input, vars, children
  <1> HIDE DEF TypeOK
  <1> QED BY <1>1, <1>2, <1>3, <1>4, <1>5, <1>6, <1>7, <1>8, <1>9, <1>10, <1>11, <1>12, <1>13, <1>14, <1>15, <1>16, <1>17, <1>18, <1>19, <1>20, <1>21, <1>22, <1>23 DEF Next, LoopStep, StageStep, ToolStep

\* what the place of the loop says of the coroutines,
LEMMA StepControl == TypeOK /\ Control /\ [Next]_vars => Control'
  <1> SUFFICES ASSUME TypeOK, Control, [Next]_vars PROVE Control' OBVIOUS
  <1>1. CASE Schedule BY <1>1 DEF Schedule, Control
  <1>2. CASE SkipStage BY <1>2 DEF SkipStage, Control
  <1>3. CASE StartStage BY <1>3 DEF StartStage, Control
  <1>4. CASE EndStage BY <1>4 DEF EndStage, Control
  <1>5. CASE LeaveStages BY <1>5 DEF LeaveStages, Control
  <1>6. CASE Reconcile BY <1>6 DEF Reconcile, Control
  <1>7. CASE ZapEnds BY <1>7 DEF ZapEnds, Control
  <1>8. CASE Finalize BY <1>8 DEF Finalize, Control
  <1>9. CASE DecideGate BY <1>9 DEF DecideGate, Control
  <1>10. CASE StageTimeout BY <1>10 DEF StageTimeout, Control
  <1>11. ASSUME NEW t \in Tools, StartSpec(t) PROVE Control' BY <1>11 DEF StartSpec, Control
  <1>12. ASSUME NEW t \in Tools, PassOver(t) PROVE Control' BY <1>12 DEF PassOver, Active, Control
  <1>13. ASSUME NEW t \in Tools, SpecEnds(t) PROVE Control' BY <1>13 DEF SpecEnds, Active, Control
  <1>14. ASSUME NEW t \in Tools, SpecTimesOut(t) PROVE Control' BY <1>14 DEF SpecTimesOut, Active, Control
  <1>15. ASSUME NEW t \in Tools, GiveUp(t) PROVE Control' BY <1>15 DEF GiveUp, Active, Control
  <1>16. ASSUME NEW t \in Tools, Return(t) PROVE Control' BY <1>16 DEF Return, Active, Control
  <1>17. ASSUME NEW t \in Tools, Raise(t) PROVE Control' BY <1>17 DEF Raise, Active, Control
  <1>18. ASSUME NEW t \in Tools, Cancelled(t) PROVE Control' BY <1>18 DEF Cancelled, Control
  <1>19. ASSUME NEW t \in Tools, StrayEnds(t) PROVE Control' BY <1>19 DEF StrayEnds, Control
  <1>21. ASSUME NEW t \in Tools, TimeoutTold(t) PROVE Control' BY <1>21 DEF TimeoutTold, Active, Control
  <1>22. ASSUME NEW t \in Tools, FollowUp(t) PROVE Control' BY <1>22 DEF FollowUp, Active, Control
  <1>23. ASSUME NEW t \in Tools, FollowUpEnds(t) PROVE Control' BY <1>23 DEF FollowUpEnds, Active, Control
  <1>20. CASE UNCHANGED vars BY <1>20 DEF Control, vars
  <1> HIDE DEF Control
  <1> QED BY <1>1, <1>2, <1>3, <1>4, <1>5, <1>6, <1>7, <1>8, <1>9, <1>10, <1>11, <1>12, <1>13, <1>14, <1>15, <1>16, <1>17, <1>18, <1>19, <1>20, <1>21, <1>22, <1>23 DEF Next, LoopStep, StageStep, ToolStep

\* which tools still wait for their stage,
LEMMA StepQueued == TypeOK /\ Control /\ Queued /\ [Next]_vars => Queued'
  <1> SUFFICES ASSUME TypeOK, Control, Queued, [Next]_vars PROVE Queued' OBVIOUS
  <1>1. CASE Schedule BY <1>1 DEF Schedule, Control, Queued, StageOf, input
  <1>2. CASE SkipStage
    <2> SUFFICES ASSUME NEW t \in Tools, job[t] = "pending", stage = StageOf(t)
                 PROVE request # {} /\ t \notin Literal
      BY <1>2 DEF SkipStage, Queued, TypeOK, input, StageOf, Literal
    <2>1. t \in Members(stage) BY DEF Members
    <2>2. request # {} /\ Literal \cap StageTools(stage) = {} BY <1>2, <2>1 DEF SkipStage
    <2>3. t \in StageTools(stage) BY DEF StageTools, StageOf, Tools
    <2> QED BY <2>2, <2>3
  <1>3. CASE StartStage BY <1>3 DEF StartStage, Queued, Members, StageOf, Literal, input
  <1>4. CASE EndStage BY <1>4 DEF EndStage, Queued, StageOf, Literal, TypeOK, input
  <1>5. CASE LeaveStages BY <1>5 DEF LeaveStages, Queued, Literal, input
  <1>6. CASE Reconcile BY <1>6 DEF Reconcile, Queued, Literal, input
  <1>7. CASE ZapEnds BY <1>7 DEF ZapEnds, Queued, Literal, input
  <1>8. CASE Finalize BY <1>8 DEF Finalize, Queued, Literal, input
  <1>9. CASE DecideGate BY <1>9 DEF DecideGate, Queued, Literal, input
  <1>10. CASE StageTimeout BY <1>10 DEF StageTimeout, Queued, Literal, input
  <1>11. ASSUME NEW t \in Tools, StartSpec(t) PROVE Queued' BY <1>11 DEF StartSpec, Queued, Literal, input
  <1>12. ASSUME NEW t \in Tools, PassOver(t) PROVE Queued' BY <1>12 DEF PassOver, Queued, Literal, input
  <1>13. ASSUME NEW t \in Tools, SpecEnds(t) PROVE Queued' BY <1>13 DEF SpecEnds, Queued, Literal, input
  <1>14. ASSUME NEW t \in Tools, SpecTimesOut(t) PROVE Queued' BY <1>14 DEF SpecTimesOut, Queued, Literal, input
  <1>15. ASSUME NEW t \in Tools, GiveUp(t) PROVE Queued' BY <1>15 DEF GiveUp, Active, Queued, Literal, input
  <1>16. ASSUME NEW t \in Tools, Return(t) PROVE Queued' BY <1>16 DEF Return, Active, Queued, Literal, input
  <1>17. ASSUME NEW t \in Tools, Raise(t) PROVE Queued' BY <1>17 DEF Raise, Active, Queued, Literal, input
  <1>18. ASSUME NEW t \in Tools, Cancelled(t) PROVE Queued' BY <1>18 DEF Cancelled, Queued, Literal, input
  <1>19. ASSUME NEW t \in Tools, StrayEnds(t) PROVE Queued' BY <1>19 DEF StrayEnds, Queued, Literal, input
  <1>21. ASSUME NEW t \in Tools, TimeoutTold(t) PROVE Queued' BY <1>21 DEF TimeoutTold, Active, Queued, Literal, input
  <1>22. ASSUME NEW t \in Tools, FollowUp(t) PROVE Queued' BY <1>22 DEF FollowUp, Active, Queued, Literal, input
  <1>23. ASSUME NEW t \in Tools, FollowUpEnds(t) PROVE Queued' BY <1>23 DEF FollowUpEnds, Active, Queued, Literal, TypeOK, input
  <1>20. CASE UNCHANGED vars BY <1>20 DEF Queued, Literal, input, vars
  <1> HIDE DEF Queued
  <1> QED BY <1>1, <1>2, <1>3, <1>4, <1>5, <1>6, <1>7, <1>8, <1>9, <1>10, <1>11, <1>12, <1>13, <1>14, <1>15, <1>16, <1>17, <1>18, <1>19, <1>20, <1>21, <1>22, <1>23 DEF Next, LoopStep, StageStep, ToolStep

\* which coroutines may have subprocesses,
LEMMA StepRunning == TypeOK /\ Control /\ Running /\ [Next]_vars => Running'
  <1> SUFFICES ASSUME TypeOK, Control, Running, [Next]_vars PROVE Running' OBVIOUS
  <1>1. CASE Schedule BY <1>1 DEF Schedule, Running, children
  <1>2. CASE SkipStage BY <1>2 DEF SkipStage, Running, StageOf, TypeOK, children
  <1>3. CASE StartStage BY <1>3 DEF StartStage, Running, Members, StageOf, children
  <1>4. CASE EndStage BY <1>4 DEF EndStage, Gathered, Running, Members, StageOf, TypeOK, children
  <1>5. CASE LeaveStages BY <1>5 DEF LeaveStages, Running, StageOf, children
  <1>6. CASE Reconcile BY <1>6 DEF Reconcile, Running, children
  <1>7. CASE ZapEnds BY <1>7 DEF ZapEnds, Running, children
  <1>8. CASE Finalize BY <1>8 DEF Finalize, Running, children
  <1>9. CASE DecideGate BY <1>9 DEF DecideGate, Running, children
  <1>10. CASE StageTimeout BY <1>10 DEF StageTimeout, Running, children
  <1>11. ASSUME NEW t \in Tools, StartSpec(t) PROVE Running' BY <1>11 DEF StartSpec, Active, Running, children
  <1>12. ASSUME NEW t \in Tools, PassOver(t) PROVE Running' BY <1>12 DEF PassOver, Running, children
  <1>13. ASSUME NEW t \in Tools, SpecEnds(t) PROVE Running' BY <1>13 DEF SpecEnds, Running, children
  <1>14. ASSUME NEW t \in Tools, SpecTimesOut(t) PROVE Running' BY <1>14 DEF SpecTimesOut, Active, Running, TypeOK, children
  <1>15. ASSUME NEW t \in Tools, GiveUp(t) PROVE Running'
    <2>1. job[t] = "running" /\ procs[t] = 0 /\ dying[t] = 0 /\ extra[t] = 0
      BY <1>15, NotBusy DEF GiveUp, Active
    <2> QED BY <1>15, <2>1 DEF GiveUp, Running, TypeOK, children
  <1>16. ASSUME NEW t \in Tools, Return(t) PROVE Running'
    <2>1. job[t] = "running" /\ procs[t] = 0 /\ dying[t] = 0 /\ extra[t] = 0
      BY <1>16, NotBusy DEF Return, Active
    <2> QED BY <1>16, <2>1 DEF Return, Running, TypeOK, children
  <1>17. ASSUME NEW t \in Tools, Raise(t) PROVE Running'
    <2>1. job[t] = "running" /\ procs[t] = 0 /\ dying[t] = 0 /\ extra[t] = 0
      BY <1>17, NotBusy DEF Raise, Active
    <2> QED BY <1>17, <2>1 DEF Raise, Running, TypeOK, children
  <1>18. ASSUME NEW t \in Tools, Cancelled(t) PROVE Running' BY <1>18 DEF Cancelled, Running, TypeOK, children
  <1>19. ASSUME NEW t \in Tools, StrayEnds(t) PROVE Running' BY <1>19 DEF StrayEnds, Running, children
  <1>21. ASSUME NEW t \in Tools, TimeoutTold(t) PROVE Running' BY <1>21 DEF TimeoutTold, Active, Running, Busy, TypeOK, children
  <1>22. ASSUME NEW t \in Tools, FollowUp(t) PROVE Running' BY <1>22 DEF FollowUp, Active, Running, Busy, TypeOK, children
  <1>23. ASSUME NEW t \in Tools, FollowUpEnds(t) PROVE Running'
    <2>2. CASE t = "pytest" BY <1>23, <2>2 DEF FollowUpEnds, Active, Append, Running, TypeOK
    <2>3. CASE t # "pytest"
      <3>1. procs[t] = 0 /\ dying[t] = 0 /\ extra[t] = 1 BY <1>23, <2>3, OneAtATime DEF FollowUpEnds
      <3>2. /\ job' = [job EXCEPT ![t] = "returned"] /\ extra' = [extra EXCEPT ![t] = @ - 1]
            /\ UNCHANGED <<loop, stage, procs, dying>>
        BY <1>23, <2>3 DEF FollowUpEnds
      <3>3. job[t] = "running" BY <1>23 DEF FollowUpEnds, Active
      <3> QED BY <3>1, <3>2, <3>3 DEF Running, TypeOK
    <2> QED BY <2>2, <2>3
  <1>20. CASE UNCHANGED vars BY <1>20 DEF Running, vars, children
  <1> HIDE DEF Running
  <1> QED BY <1>1, <1>2, <1>3, <1>4, <1>5, <1>6, <1>7, <1>8, <1>9, <1>10, <1>11, <1>12, <1>13, <1>14, <1>15, <1>16, <1>17, <1>18, <1>19, <1>20, <1>21, <1>22, <1>23 DEF Next, LoopStep, StageStep, ToolStep

\* why subprocesses are forgotten,
LEMMA StepLeftovers == TypeOK /\ Control /\ Running /\ Leftovers /\ [Next]_vars => Leftovers'
  <1> SUFFICES ASSUME TypeOK, Control, Running, Leftovers, [Next]_vars PROVE Leftovers' OBVIOUS
  <1>1. CASE Schedule BY <1>1 DEF Schedule, Leftovers, children
  <1>2. CASE SkipStage BY <1>2 DEF SkipStage, Leftovers, StageOf, TypeOK, children
  <1>3. CASE StartStage BY <1>3 DEF StartStage, Leftovers, children
  <1>4. CASE EndStage BY <1>4 DEF EndStage, Leftovers, StageOf, TypeOK, children
  <1>5. CASE LeaveStages BY <1>5 DEF LeaveStages, Leftovers, children
  <1>6. CASE Reconcile BY <1>6 DEF Reconcile, Leftovers, children
  <1>7. CASE ZapEnds BY <1>7 DEF ZapEnds, Leftovers, children
  <1>8. CASE Finalize BY <1>8 DEF Finalize, Leftovers, children
  <1>9. CASE DecideGate BY <1>9 DEF DecideGate, Leftovers, children
  <1>10. CASE StageTimeout BY <1>10 DEF StageTimeout, Leftovers, children
  <1>11. ASSUME NEW t \in Tools, StartSpec(t) PROVE Leftovers' BY <1>11 DEF StartSpec, Leftovers, children
  <1>12. ASSUME NEW t \in Tools, PassOver(t) PROVE Leftovers' BY <1>12 DEF PassOver, Leftovers, children
  <1>13. ASSUME NEW t \in Tools, SpecEnds(t) PROVE Leftovers' BY <1>13 DEF SpecEnds, Leftovers, children
  <1>14. ASSUME NEW t \in Tools, SpecTimesOut(t) PROVE Leftovers'
    <2>1. t \in Kills \/ t \in {"k6", "newman"} BY DEF Kills, Tools, children
    <2>2. stage = StageOf(t) BY <1>14 DEF SpecTimesOut, Running, children
    <2> QED BY <1>14, <2>1, <2>2 DEF SpecTimesOut, Leftovers, StageOf, children
  <1>15. ASSUME NEW t \in Tools, GiveUp(t) PROVE Leftovers' BY <1>15 DEF GiveUp, Leftovers, children
  <1>16. ASSUME NEW t \in Tools, Return(t) PROVE Leftovers' BY <1>16 DEF Return, Leftovers, children
  <1>17. ASSUME NEW t \in Tools, Raise(t) PROVE Leftovers' BY <1>17 DEF Raise, Leftovers, children
  <1>18. ASSUME NEW t \in Tools, Cancelled(t) PROVE Leftovers' BY <1>18 DEF Cancelled, Running, Leftovers, children
  <1>19. ASSUME NEW t \in Tools, StrayEnds(t) PROVE Leftovers' BY <1>19 DEF StrayEnds, Leftovers, children
  <1>21. ASSUME NEW t \in Tools, TimeoutTold(t) PROVE Leftovers' BY <1>21 DEF TimeoutTold, Active, Running, Leftovers, TypeOK, children
  <1>22. ASSUME NEW t \in Tools, FollowUp(t) PROVE Leftovers' BY <1>22 DEF FollowUp, Active, Running, Leftovers, TypeOK, children
  <1>23. ASSUME NEW t \in Tools, FollowUpEnds(t) PROVE Leftovers' BY <1>23 DEF FollowUpEnds, Active, Running, Leftovers, TypeOK, children
  <1>20. CASE UNCHANGED vars BY <1>20 DEF Leftovers, vars, children
  <1> HIDE DEF Leftovers
  <1> QED BY <1>1, <1>2, <1>3, <1>4, <1>5, <1>6, <1>7, <1>8, <1>9, <1>10, <1>11, <1>12, <1>13, <1>14, <1>15, <1>16, <1>17, <1>18, <1>19, <1>20, <1>21, <1>22, <1>23 DEF Next, LoopStep, StageStep, ToolStep

\* the rows of late specs and of tools without one of their own,
LEMMA StepStories == TypeOK /\ Control /\ Queued /\ Running /\ Stories /\ [Next]_vars => Stories'
  <1> SUFFICES ASSUME TypeOK, Control, Queued, Running, Stories, [Next]_vars PROVE Stories' OBVIOUS
  <1>1. CASE Schedule
    <2>1. late = {}
      <3> SUFFICES ASSUME NEW t \in late PROVE FALSE OBVIOUS
      <3>1. t \in Tools /\ dying[t] \in Nat BY DEF TypeOK
      <3>2. job[t] = "absent" /\ rows[t] = {} BY <1>1, <3>1 DEF Schedule, Control, Names
      <3> QED BY <3>1, <3>2 DEF Stories, Running
    <2>2. job' = [t \in Tools |-> IF t \in Scheduled THEN "pending" ELSE "absent"] BY <1>1 DEF Schedule
    <2>3. own' = {t \in Tools : Refused(t)} /\ late' = {} BY <1>1, <2>1 DEF Schedule
    <2>4. \A t \in Tools : t \notin own' => rows'[t] = {} BY <1>1, <2>3 DEF Schedule, Names, Tools
    <2> QED BY <2>2, <2>3, <2>4 DEF Stories
  <1>2. CASE SkipStage BY <1>2 DEF SkipStage, Stories, children
  <1>3. CASE StartStage BY <1>3 DEF StartStage, Running, Stories, TypeOK, Members, StageOf, children
  <1>4. CASE EndStage BY <1>4 DEF EndStage, BackfillRaised, Stories, Members, TypeOK, Names, children
  <1>5. CASE LeaveStages BY <1>5 DEF LeaveStages, Stories, children
  <1>6. CASE Reconcile
    <2>1. \A t \in Tools : rows[t] \subseteq rows'[t]
      BY <1>6 DEF Reconcile, Missing, Names, children
    <2>2. \A t \in late' :
            \/ "FAIL" \in rows'[t]
            \/ t \in Reaps /\ (dying[t] > 0 \/ (job[t] = "cancelled" /\ StageOf(t) \in overran))
      BY <1>6, <2>1 DEF Reconcile, Stories, TypeOK, children
    <2>3. ASSUME NEW t \in Tools, t \notin own PROVE
            /\ job[t] = "raised" => "FAIL" \in rows'[t]
            /\ job[t] = "cancelled" => rows'[t] \subseteq {"UNRUN"}
      BY <1>6, <2>3 DEF Reconcile, Missing, Stories, Names, children
    <2> QED BY <1>6, <2>2, <2>3 DEF Reconcile, Stories, children
  <1>7. CASE ZapEnds
    <2>1. \A t \in Tools : rows'[t] = rows[t] BY <1>7 DEF ZapEnds, TypeOK, Tools, Names, children
    <2> QED BY <1>7, <2>1 DEF ZapEnds, Stories, TypeOK, children
  <1>8. CASE Finalize BY <1>8 DEF Finalize, Stories, children
  <1>9. CASE DecideGate BY <1>9 DEF DecideGate, Stories, children
  <1>10. CASE StageTimeout BY <1>10 DEF StageTimeout, Stories, children
  <1>11. ASSUME NEW t \in Tools, StartSpec(t) PROVE Stories' BY <1>11 DEF StartSpec, Stories, children
  <1>12. ASSUME NEW t \in Tools, PassOver(t) PROVE Stories' BY <1>12 DEF PassOver, Append, Stories, TypeOK, Names, children
  <1>13. ASSUME NEW t \in Tools, SpecEnds(t) PROVE Stories' BY <1>13 DEF SpecEnds, Append, Stories, TypeOK, Names, children
  <1>14. ASSUME NEW t \in Tools, SpecTimesOut(t) PROVE Stories' BY <1>14 DEF SpecTimesOut, Active, Append, Stories, TypeOK, Names, children
  <1>15. ASSUME NEW t \in Tools, GiveUp(t) PROVE Stories'
    <2>1. job[t] = "running" /\ procs[t] = 0 /\ dying[t] = 0 /\ extra[t] = 0
      BY <1>15, NotBusy DEF GiveUp, Active
    <2> QED BY <1>15, <2>1 DEF GiveUp, Append, Stories, TypeOK, children
  <1>16. ASSUME NEW t \in Tools, Return(t) PROVE Stories'
    <2>1. job[t] = "running" /\ procs[t] = 0 /\ dying[t] = 0 /\ extra[t] = 0
      BY <1>16, NotBusy DEF Return, Active
    <2> QED BY <1>16, <2>1 DEF Return, Append, Stories, TypeOK, children
  <1>17. ASSUME NEW t \in Tools, Raise(t) PROVE Stories' BY <1>17 DEF Raise, Active, Running, Stories, children
  <1>18. ASSUME NEW t \in Tools, Cancelled(t) PROVE Stories'
    <2>1. \A u \in Tools : u # t => job'[u] = job[u] /\ dying'[u] = dying[u] BY <1>18 DEF Cancelled
    <2>2. job[t] = "running" /\ job'[t] = "cancelled" /\ StageOf(t) \in overran /\ loop = "waiting"
      BY <1>18 DEF Cancelled, TypeOK, Running
    <2>3. UNCHANGED <<loop, rows, own, late, overran>> /\ late \subseteq Tools BY <1>18 DEF Cancelled, TypeOK
    <2>4. ASSUME NEW u \in late
          PROVE  "FAIL" \in rows[u] \/ (u \in Reaps /\ (dying'[u] > 0 \/ (job'[u] = "cancelled" /\ StageOf(u) \in overran)))
      BY <2>1, <2>2, <2>3 DEF Stories
    <2>5. ASSUME NEW u \in Tools, u \notin own
          PROVE  /\ job'[u] \in {"pending", "running"} /\ loop \in {"schedule", "stage", "waiting"} => rows[u] = {}
                 /\ job'[u] = "raised" =>
                       "FAIL" \in rows[u] \/ (loop = "waiting" /\ stage = StageOf(u) /\ rows[u] = {})
                 /\ job'[u] = "cancelled" => rows[u] \subseteq {"UNRUN"}
      BY <2>1, <2>2, <2>5 DEF Stories
    <2> QED BY <1>18, <2>3, <2>4, <2>5 DEF Stories, Cancelled
  <1>19. ASSUME NEW t \in Tools, StrayEnds(t) PROVE Stories' BY <1>19 DEF StrayEnds, Stories, children
  <1>21. ASSUME NEW t \in Tools, TimeoutTold(t) PROVE Stories' BY <1>21 DEF TimeoutTold, Active, Append, Stories, Running, TypeOK, Names, children
  <1>22. ASSUME NEW t \in Tools, FollowUp(t) PROVE Stories' BY <1>22 DEF FollowUp, Active, Append, Stories, Running, TypeOK, Names, children
  <1>23. ASSUME NEW t \in Tools, FollowUpEnds(t) PROVE Stories'
    <2>1. CASE t = "pytest"
      <3>1. PICK row \in {"FAIL", "UNRUN"} :
              /\ rows' = [rows EXCEPT ![t] = @ \cup {row}] /\ own' = own \cup {t}
              /\ UNCHANGED <<loop, stage, overran, job, dying, late>>
        BY <1>23, <2>1 DEF FollowUpEnds, Append
      <3> QED BY <3>1 DEF Stories, TypeOK, Names
    <2>2. CASE t # "pytest"
      <3>1. procs[t] = 0 /\ dying[t] = 0 BY <1>23, <2>2, OneAtATime DEF FollowUpEnds
      <3>2. /\ job' = [job EXCEPT ![t] = "returned"]
            /\ UNCHANGED <<loop, stage, overran, dying, rows, own, late>>
        BY <1>23, <2>2 DEF FollowUpEnds
      <3> QED BY <1>23, <3>1, <3>2 DEF FollowUpEnds, Active, Stories, TypeOK
    <2> QED BY <2>1, <2>2
  <1>20. CASE UNCHANGED vars BY <1>20 DEF Stories, vars, children
  <1> HIDE DEF Stories
  <1> QED BY <1>1, <1>2, <1>3, <1>4, <1>5, <1>6, <1>7, <1>8, <1>9, <1>10, <1>11, <1>12, <1>13, <1>14, <1>15, <1>16, <1>17, <1>18, <1>19, <1>20, <1>21, <1>22, <1>23 DEF Next, LoopStep, StageStep, ToolStep

\* what has been published,
LEMMA StepVerdict == TypeOK /\ Control /\ Running /\ Stories /\ ToolsAccountedFor /\ Verdict /\ [Next]_vars => Verdict'
  <1> SUFFICES ASSUME TypeOK, Control, Running, Stories, ToolsAccountedFor, Verdict, [Next]_vars PROVE Verdict' OBVIOUS
  <1>1. CASE Schedule BY <1>1 DEF Schedule, Verdict, PassIsEarned
  <1>2. CASE SkipStage BY <1>2 DEF SkipStage, Verdict, PassIsEarned
  <1>3. CASE StartStage BY <1>3 DEF StartStage, Verdict, PassIsEarned
  <1>4. CASE EndStage BY <1>4 DEF EndStage, Verdict, PassIsEarned
  <1>5. CASE LeaveStages BY <1>5 DEF LeaveStages, Verdict, PassIsEarned
  <1>6. CASE Reconcile BY <1>6 DEF Reconcile, Verdict, PassIsEarned
  <1>7. CASE ZapEnds BY <1>7 DEF ZapEnds, Verdict, PassIsEarned
  <1>8. CASE Finalize BY <1>8 DEF Finalize, Verdict, PassIsEarned
  <1>9. CASE DecideGate
    <2>1. \A t \in Tools : dying[t] = 0 BY <1>9 DEF DecideGate, Running, TypeOK
    <2> QED BY <1>9, <2>1 DEF DecideGate, Stories, ToolsAccountedFor, Verdict, PassIsEarned, TypeOK, Rows, Names
  <1>10. CASE StageTimeout BY <1>10 DEF StageTimeout, Verdict, PassIsEarned
  <1>11. ASSUME NEW t \in Tools, StartSpec(t) PROVE Verdict' BY <1>11 DEF StartSpec, Verdict, PassIsEarned
  <1>12. ASSUME NEW t \in Tools, PassOver(t) PROVE Verdict' BY <1>12 DEF PassOver, Active, Append, Running, Verdict, PassIsEarned
  <1>13. ASSUME NEW t \in Tools, SpecEnds(t) PROVE Verdict' BY <1>13 DEF SpecEnds, Active, Append, Running, Verdict, PassIsEarned
  <1>14. ASSUME NEW t \in Tools, SpecTimesOut(t) PROVE Verdict' BY <1>14 DEF SpecTimesOut, Active, Append, Running, Verdict, PassIsEarned
  <1>15. ASSUME NEW t \in Tools, GiveUp(t) PROVE Verdict' BY <1>15 DEF GiveUp, Append, Active, Running, Verdict, PassIsEarned
  <1>16. ASSUME NEW t \in Tools, Return(t) PROVE Verdict' BY <1>16 DEF Return, Active, Running, Verdict, PassIsEarned
  <1>17. ASSUME NEW t \in Tools, Raise(t) PROVE Verdict' BY <1>17 DEF Raise, Active, Running, Verdict, PassIsEarned
  <1>18. ASSUME NEW t \in Tools, Cancelled(t) PROVE Verdict' BY <1>18 DEF Cancelled, Running, Verdict, PassIsEarned
  <1>19. ASSUME NEW t \in Tools, StrayEnds(t) PROVE Verdict' BY <1>19 DEF StrayEnds, Verdict, PassIsEarned
  <1>21. ASSUME NEW t \in Tools, TimeoutTold(t) PROVE Verdict' BY <1>21 DEF TimeoutTold, Active, Append, Running, Verdict, PassIsEarned
  <1>22. ASSUME NEW t \in Tools, FollowUp(t) PROVE Verdict' BY <1>22 DEF FollowUp, Active, Append, Running, Verdict, PassIsEarned
  <1>23. ASSUME NEW t \in Tools, FollowUpEnds(t) PROVE Verdict' BY <1>23 DEF FollowUpEnds, Active, Append, Running, Verdict, PassIsEarned
  <1>20. CASE UNCHANGED vars BY <1>20 DEF Verdict, PassIsEarned, vars
  <1> HIDE DEF Verdict
  <1> QED BY <1>1, <1>2, <1>3, <1>4, <1>5, <1>6, <1>7, <1>8, <1>9, <1>10, <1>11, <1>12, <1>13, <1>14, <1>15, <1>16, <1>17, <1>18, <1>19, <1>20, <1>21, <1>22, <1>23 DEF Next, LoopStep, StageStep, ToolStep

\* and that reconciled tools have rows.
LEMMA StepAccounted == TypeOK /\ Control /\ Running /\ ToolsAccountedFor /\ [Next]_vars => ToolsAccountedFor'
  <1> SUFFICES ASSUME TypeOK, Control, Running, ToolsAccountedFor, [Next]_vars PROVE ToolsAccountedFor' OBVIOUS
  <1>1. CASE Schedule BY <1>1 DEF Schedule, ToolsAccountedFor
  <1>2. CASE SkipStage BY <1>2 DEF SkipStage, ToolsAccountedFor
  <1>3. CASE StartStage BY <1>3 DEF StartStage, ToolsAccountedFor
  <1>4. CASE EndStage BY <1>4 DEF EndStage, ToolsAccountedFor
  <1>5. CASE LeaveStages BY <1>5 DEF LeaveStages, ToolsAccountedFor
  <1>6. CASE Reconcile BY <1>6 DEF Reconcile, Missing, ToolsAccountedFor, Names
  <1>7. CASE ZapEnds BY <1>7 DEF ZapEnds, ToolsAccountedFor, TypeOK, Names
  <1>8. CASE Finalize BY <1>8 DEF Finalize, ToolsAccountedFor
  <1>9. CASE DecideGate BY <1>9 DEF DecideGate, ToolsAccountedFor
  <1>10. CASE StageTimeout BY <1>10 DEF StageTimeout, ToolsAccountedFor
  <1>11. ASSUME NEW t \in Tools, StartSpec(t) PROVE ToolsAccountedFor' BY <1>11 DEF StartSpec, ToolsAccountedFor
  <1>12. ASSUME NEW t \in Tools, PassOver(t) PROVE ToolsAccountedFor' BY <1>12 DEF PassOver, Active, Running, ToolsAccountedFor
  <1>13. ASSUME NEW t \in Tools, SpecEnds(t) PROVE ToolsAccountedFor' BY <1>13 DEF SpecEnds, Running, ToolsAccountedFor
  <1>14. ASSUME NEW t \in Tools, SpecTimesOut(t) PROVE ToolsAccountedFor' BY <1>14 DEF SpecTimesOut, Active, Running, Append, ToolsAccountedFor
  <1>15. ASSUME NEW t \in Tools, GiveUp(t) PROVE ToolsAccountedFor' BY <1>15 DEF GiveUp, Active, Append, ToolsAccountedFor
  <1>16. ASSUME NEW t \in Tools, Return(t) PROVE ToolsAccountedFor' BY <1>16 DEF Return, Active, ToolsAccountedFor
  <1>17. ASSUME NEW t \in Tools, Raise(t) PROVE ToolsAccountedFor' BY <1>17 DEF Raise, Active, ToolsAccountedFor
  <1>18. ASSUME NEW t \in Tools, Cancelled(t) PROVE ToolsAccountedFor' BY <1>18 DEF Cancelled, ToolsAccountedFor
  <1>19. ASSUME NEW t \in Tools, StrayEnds(t) PROVE ToolsAccountedFor' BY <1>19 DEF StrayEnds, ToolsAccountedFor
  <1>21. ASSUME NEW t \in Tools, TimeoutTold(t) PROVE ToolsAccountedFor' BY <1>21 DEF TimeoutTold, Active, Append, Running, ToolsAccountedFor
  <1>22. ASSUME NEW t \in Tools, FollowUp(t) PROVE ToolsAccountedFor' BY <1>22 DEF FollowUp, Active, Append, Running, ToolsAccountedFor
  <1>23. ASSUME NEW t \in Tools, FollowUpEnds(t) PROVE ToolsAccountedFor' BY <1>23 DEF FollowUpEnds, Active, Append, Running, ToolsAccountedFor
  <1>20. CASE UNCHANGED vars BY <1>20 DEF ToolsAccountedFor, vars
  <1> HIDE DEF ToolsAccountedFor
  <1> QED BY <1>1, <1>2, <1>3, <1>4, <1>5, <1>6, <1>7, <1>8, <1>9, <1>10, <1>11, <1>12, <1>13, <1>14, <1>15, <1>16, <1>17, <1>18, <1>19, <1>20, <1>21, <1>22, <1>23 DEF Next, LoopStep, StageStep, ToolStep

\* The invariant holds at first.
LEMMA InitInv == Init => IInv
  BY CountsAssumption DEF Init, IInv, TypeOK, Control, Queued, Running, Leftovers, Stories, Verdict,
     ToolsAccountedFor, PassIsEarned, Width, Jobs

\* The steps together.
LEMMA StepInv == IInv /\ [Next]_vars => IInv'
  BY StepType, StepControl, StepQueued, StepRunning, StepLeftovers, StepStories, StepVerdict, StepAccounted DEF IInv

\* The coroutines, counts and rows of the tools and the verdict of the run keep their
\* types, and pytest never waits for more than its Workers subprocesses at once
\* (_real_execution_inner, _run_pytest).
THEOREM TypeCorrect == Spec => []TypeOK
  <1>1. IInv => TypeOK BY DEF IInv
  <1> QED BY <1>1, InitInv, StepInv, PTL DEF Spec

\* When the run goes on to ZAP, every tool that was scheduled has a result row: its own,
\* that of its exception, or one that the reconciliation backfilled
\* (_r214_reconcile_dispatched_tools).
THEOREM ToolsAccountedForHolds == Spec => []ToolsAccountedFor
  <1>1. IInv => ToolsAccountedFor BY DEF IInv
  <1> QED BY <1>1, InitInv, StepInv, PTL DEF Spec

\* The stage loop starts every scheduled tool that the request names as it is spelled in
\* the code, and every scheduled tool of a request without names: a stage is skipped only
\* if none of its tools is named so (_R99_E_STAGE_TO_TOOLS and the guard of the stage loop).
THEOREM NamedToolsRunHolds == Spec => []NamedToolsRun
  <1>1. IInv => NamedToolsRun
    BY DEF IInv, TypeOK, Queued, NamedToolsRun, StageOf
  <1> QED BY <1>1, InitInv, StepInv, PTL DEF Spec

\* Whatever still runs outside its stage is a subprocess that nobody waits for: of a stage
\* that overran, of a k6 or Newman spec that timed out, or a diagnosis of pytest or a merge
\* of Playwright's reports that did.  The gather of a stage ends before the next one starts
\* (_real_execution_inner).
THEOREM OnlyLeftoversOverlapHolds == Spec => []OnlyLeftoversOverlap
  <1>1. IInv => OnlyLeftoversOverlap
    BY DEF IInv, TypeOK, Running, Leftovers, OnlyLeftoversOverlap, StageOf
  <1> QED BY <1>1, InitInv, StepInv, PTL DEF Spec

\* A run passes only if every spec that timed out is one of Playwright or axe whose coroutine
\* was cancelled between the kill and the row, and if every tool that raised or was
\* cancelled has a row of its own, or the backfilled row and no other: the FAIL rows of the
\* timeouts and of the backfill after the gather, the reconciliation and the gate decision
\* (_run_playwright, _run_axe, _real_execution_inner, _r214_reconcile_dispatched_tools).
THEOREM PassIsEarnedHolds == Spec => []PassIsEarned
  <1>1. IInv => PassIsEarned BY DEF IInv, Verdict
  <1> QED BY <1>1, InitInv, StepInv, PTL DEF Spec

\* No step takes rows, counters or a verdict back.
LEMMA StepReports ==
  IInv /\ [Next]_vars =>
    /\ \A n \in Names : rows[n] \subseteq rows'[n]
    /\ status = "completed" => status' = "completed" /\ rows' = rows
    /\ gate # "none" => gate' = gate
  <1> DEFINE Kept == /\ \A n \in Names : rows[n] \subseteq rows'[n]
                     /\ status = "completed" => status' = "completed" /\ rows' = rows
                     /\ gate # "none" => gate' = gate
  <1> SUFFICES ASSUME IInv, [Next]_vars PROVE Kept OBVIOUS
  <1>0. TypeOK /\ Control /\ Running /\ Verdict BY DEF IInv
  <1>1. CASE Schedule BY <1>0, <1>1 DEF Schedule, Control, Verdict
  <1>2. CASE EndStage BY <1>0, <1>2 DEF EndStage, BackfillRaised, Verdict, TypeOK
  <1>3. CASE SkipStage \/ StartStage \/ LeaveStages
    BY <1>3 DEF SkipStage, StartStage, LeaveStages
  <1>4. CASE Reconcile BY <1>0, <1>4 DEF Reconcile, Missing, Verdict, Names
  <1>5. CASE ZapEnds BY <1>0, <1>5 DEF ZapEnds, Verdict, TypeOK, Names
  <1>6. CASE Finalize BY <1>0, <1>6 DEF Finalize, Verdict
  <1>7. CASE DecideGate BY <1>0, <1>7 DEF DecideGate, Verdict
  <1>8. CASE StageTimeout BY <1>8 DEF StageTimeout
  <1>9. ASSUME NEW t \in Tools, ToolStep(t) PROVE Kept
    <2>1. job[t] = "running" BY <1>9
      DEF ToolStep, StartSpec, PassOver, SpecEnds, SpecTimesOut, TimeoutTold, FollowUp, FollowUpEnds, GiveUp, Return, Raise, Active
    <2>2. loop = "waiting" BY <1>0, <2>1 DEF Running
    <2>3. status # "completed" /\ gate = "none" BY <1>0, <2>2 DEF Verdict
    <2>4. rows' = rows \/ \E row : rows' = [rows EXCEPT ![t] = @ \cup {row}]
      BY <1>9 DEF ToolStep, StartSpec, PassOver, SpecEnds, SpecTimesOut, TimeoutTold, FollowUp, FollowUpEnds, GiveUp, Return, Raise, Append
    <2>5. \A n \in Names : rows[n] \subseteq rows'[n] BY <1>0, <2>4 DEF TypeOK
    <2> QED BY <2>3, <2>5
  <1>10. ASSUME NEW t \in Tools, Cancelled(t) PROVE Kept BY <1>10 DEF Cancelled
  <1>11. ASSUME NEW t \in Tools, StrayEnds(t) PROVE Kept BY <1>11 DEF StrayEnds
  <1>12. CASE UNCHANGED vars BY <1>12 DEF vars
  <1> HIDE DEF Kept
  <1> QED BY <1>1, <1>2, <1>3, <1>4, <1>5, <1>6, <1>7, <1>8, <1>9, <1>10, <1>11, <1>12
    DEF Next, LoopStep, StageStep

\* What the API shows of a run's results never shrinks, and what it has shown of a
\* finished run never changes: the counters, published before the verdict, and the
\* verdict are those of the rows a reader sees later (_real_execution_inner).
THEOREM ReportsStandHolds == Spec => ReportsStand
  <1> QED BY InitInv, StepInv, StepReports, PTL DEF Spec, ReportsStand

-----------------------------------------------------------------------------
(* Why the run ends: the safety part of RunEnds.                               *)

\* How far the loop, and the coroutine of a tool, have got.
Place ==
  CASE loop = "schedule" -> 0
    [] loop = "stage" -> 2 * stage
    [] loop = "waiting" -> 2 * stage + 1
    [] loop = "reconcile" -> 9
    [] loop = "zap" -> 10
    [] loop = "finalize" -> 11
    [] loop = "gate" -> 12
    [] loop = "done" -> 13
Turn(state) ==
  CASE state = "absent" -> 0 [] state = "pending" -> 1 [] state = "running" -> 2 [] OTHER -> 3

\* Every step of _real_execution_inner takes it further and no other step moves it, so
\* that it takes at most thirteen; no stage is entered twice, no tool dispatched twice,
\* and a coroutine that has returned, raised or been cancelled stays so, also when its
\* stage's budget runs out while the others are still going (execution.py:5226-5340).
RunAdvances ==
    [][ /\ LoopStep => Place' > Place
        /\ ~LoopStep => UNCHANGED <<loop, stage>>
        /\ \A t \in Tools : \/ job'[t] = job[t]
                            \/ Turn(job'[t]) > Turn(job[t]) ]_vars

\* No tool, timeout or subprocess sends the loop or a coroutine back.
LEMMA StepAdvances ==
  IInv /\ IInv' /\ [Next]_vars =>
    \/ UNCHANGED vars
    \/ /\ LoopStep => Place' > Place
       /\ ~LoopStep => UNCHANGED <<loop, stage>>
       /\ \A t \in Tools : \/ job'[t] = job[t]
                           \/ Turn(job'[t]) > Turn(job[t])
  <1> SUFFICES ASSUME IInv, IInv', Next
               PROVE  /\ LoopStep => Place' > Place
                      /\ ~LoopStep => UNCHANGED <<loop, stage>>
                      /\ \A t \in Tools : \/ job'[t] = job[t]
                                          \/ Turn(job'[t]) > Turn(job[t])
    OBVIOUS
  <1>0. /\ TypeOK /\ Control /\ Running /\ TypeOK' /\ Control'
        /\ stage \in 1..4 /\ stage' \in 1..4 /\ job \in [Tools -> Jobs]
    BY DEF IInv, TypeOK
  <1>1. LoopStep => Place' > Place
    <2>1. CASE Schedule BY <1>0, <2>1 DEF Schedule, Place
    <2>2. CASE SkipStage BY <1>0, <2>2 DEF SkipStage, Place
    <2>3. CASE StartStage BY <1>0, <2>3 DEF StartStage, Place
    <2>4. CASE EndStage BY <1>0, <2>4 DEF EndStage, Place
    <2>5. CASE LeaveStages BY <1>0, <2>5 DEF LeaveStages, Place
    <2>6. CASE Reconcile BY <2>6 DEF Reconcile, Place
    <2>7. CASE ZapEnds BY <2>7 DEF ZapEnds, Place
    <2>8. CASE Finalize BY <2>8 DEF Finalize, Place
    <2>9. CASE DecideGate BY <2>9 DEF DecideGate, Place
    <2> QED BY <2>1, <2>2, <2>3, <2>4, <2>5, <2>6, <2>7, <2>8, <2>9 DEF LoopStep, StageStep
  <1>2. ~LoopStep => UNCHANGED <<loop, stage>>
    <2>1. CASE StageTimeout BY <2>1 DEF StageTimeout
    <2>2. ASSUME NEW t \in Tools, ToolStep(t) \/ Cancelled(t) \/ StrayEnds(t) PROVE UNCHANGED <<loop, stage>>
      BY <2>2 DEF ToolStep, StartSpec, PassOver, SpecEnds, SpecTimesOut, TimeoutTold, FollowUp, FollowUpEnds, GiveUp, Return, Raise, Cancelled, StrayEnds
    <2> QED BY <2>1, <2>2 DEF Next
  <1>3. ASSUME NEW t \in Tools PROVE job'[t] = job[t] \/ Turn(job'[t]) > Turn(job[t])
    <2>1. CASE Schedule
      <3>1. job[t] = "absent" /\ job'[t] \in {"pending", "absent"} BY <1>0, <2>1 DEF Schedule, Control
      <3>2. Turn("pending") > Turn("absent") BY DEF Turn
      <3> QED BY <3>1, <3>2
    <2>2. CASE StartStage
      <3>1. CASE t \notin Members(stage) BY <2>2, <3>1 DEF StartStage
      <3>2. CASE t \in Members(stage)
        <4>1. job[t] = "pending" BY <1>0, <2>2, <3>2 DEF StartStage, Members, Running, StageOf
        <4>2. job'[t] = "running" BY <2>2, <3>2 DEF StartStage
        <4>3. Turn("running") > Turn("pending") BY DEF Turn
        <4> QED BY <4>1, <4>2, <4>3
      <3> QED BY <3>1, <3>2
    <2>3. CASE SkipStage \/ EndStage \/ LeaveStages \/ Reconcile \/ ZapEnds \/ Finalize \/ DecideGate \/ StageTimeout
      BY <2>3 DEF SkipStage, EndStage, LeaveStages, Reconcile, ZapEnds, Finalize, DecideGate, StageTimeout
    <2>4. ASSUME NEW u \in Tools, ToolStep(u) \/ Cancelled(u) PROVE job'[t] = job[t] \/ Turn(job'[t]) > Turn(job[t])
      <3>1. job[u] = "running" BY <2>4
        DEF ToolStep, StartSpec, PassOver, SpecEnds, SpecTimesOut, TimeoutTold, FollowUp, FollowUpEnds, GiveUp, Return, Raise, Active, Cancelled
      <3>2. \/ UNCHANGED job
            \/ \E state \in {"returned", "raised", "cancelled"} : job' = [job EXCEPT ![u] = state]
        BY <2>4 DEF ToolStep, StartSpec, PassOver, SpecEnds, SpecTimesOut, TimeoutTold, FollowUp, FollowUpEnds, GiveUp, Return, Raise, Cancelled
      <3>3. \A state \in {"returned", "raised", "cancelled"} : Turn(state) > Turn("running") BY DEF Turn
      <3> QED BY <1>0, <3>1, <3>2, <3>3
    <2>5. ASSUME NEW u \in Tools, StrayEnds(u) PROVE job'[t] = job[t] BY <2>5 DEF StrayEnds
    <2> QED BY <2>1, <2>2, <2>3, <2>4, <2>5 DEF Next, LoopStep, StageStep
  <1> QED BY <1>1, <1>2, <1>3

\* For any requests, specs and pytest width: what RunEnds needs beside fairness.
THEOREM RunAdvancesHolds == Spec => RunAdvances
  <1>1. IInv /\ IInv' /\ [Next]_vars
          => [ /\ LoopStep => Place' > Place
               /\ ~LoopStep => UNCHANGED <<loop, stage>>
               /\ \A t \in Tools : \/ job'[t] = job[t]
                                   \/ Turn(job'[t]) > Turn(job[t]) ]_vars
    BY StepAdvances
  <1> QED BY <1>1, InitInv, StepInv, PTL DEF Spec, RunAdvances
=============================================================================
