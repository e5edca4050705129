-------------------------- MODULE HealTrials_proofs --------------------------
(* Type correctness of HealTrials, and that trials leave no trace in the file   *)
(* unless one of them met another trial, another writer, an old text or a stop: *)
(* for any number of proposals, places, attempts, trials and stops.             *)
EXTENDS HealTrials, TLAPS

Clean(text) == \A pl \in Places : text[pl] \in {Orig, Other} \cup blessed

InFlight(p) == phase[p] = "trying" \/ runs[p] > 0

\* While nothing is tangled at most one trial is in flight, its backup is the due
\* text, and without a trial the due text is in the file.
Untangled ==
    /\ Clean(due)
    /\ healing # None => Clean(healing)
    /\ ~Trying => file = due
    /\ \A p \in Proposals : phase[p] = "trying" => bak["analysis"] = due /\ runs[p] = 0
    /\ \A p \in Proposals : runs[p] > 0 => bak["run"] = due /\ runs[p] = 1
    /\ \A p, q \in Proposals : InFlight(p) /\ InFlight(q) => p = q

NoTrace == ~tangled => Untangled

\* A patched text is a text.
LEMMA PatchType == \A text \in Text, p \in Proposals : Patch(text, p) \in Text
  BY PlaceAssumption DEF Text, Patch, Marks

\* The fix of a proposal is the only one that its patch may add to a clean text.
LEMMA PatchClean ==
  ASSUME NEW text \in Text, NEW p \in Proposals, Clean(text), NEW B, B = blessed \cup {p}
  PROVE  \A pl \in Places : Patch(text, p)[pl] \in {Orig, Other} \cup B
  BY PlaceAssumption DEF Text, Patch, Clean

\* A generated text is a text without fixes.
LEMMA FreshType == Fresh \in Text /\ \A pl \in Places : Fresh[pl] = Orig
  BY DEF Fresh, Text, Marks

\* The initial state has the types.
LEMMA InitType == Init => TypeOK
  <1> SUFFICES ASSUME Init PROVE TypeOK OBVIOUS
  <1>1. 0 \in 0..Attempts /\ 0 \in 0..MaxTrials /\ 0 \in 0..MaxKills BY BoundsAssumption
  <1>2. Fresh \in Text /\ None \in OptText BY FreshType DEF OptText
  <1>3. file \in Text /\ due \in Text /\ healing \in OptText /\ bak \in [Trials -> OptText]
    BY <1>2 DEF Init
  <1>4. seen \in [Proposals -> OptText] /\ \A p \in Proposals : phase[p] = "idle"
    BY <1>2 DEF Init
  <1> QED BY <1>1, <1>3, <1>4 DEF Init, TypeOK

\* The end of a trial leaves a text in the file.
LEMMA EndType ==
  ASSUME TypeOK, NEW k \in Trials, EndTrial(k)
  PROVE  file' \in Text /\ bak' \in [Trials -> OptText] /\ tangled' = tangled
  BY DEF EndTrial, TypeOK, OptText

\* So does its beginning.
LEMMA BeginType ==
  ASSUME TypeOK, NEW k \in Trials, NEW text \in Text, NEW p \in Proposals, BeginTrial(k, text, p)
  PROVE  file' \in Text /\ bak' \in [Trials -> OptText] /\ tangled' \in BOOLEAN
  BY PatchType DEF BeginTrial, TypeOK, OptText

\* A proposal that is settled keeps the types.
LEMMA SettleType ==
  ASSUME TypeOK, NEW p \in Proposals, Settle(p)
  PROVE  /\ phase' \in [Proposals -> {"idle", "thinking", "trying"}]
         /\ attempt' \in [Proposals -> 0..Attempts]
         /\ seen' \in [Proposals -> OptText]
         /\ \A q \in Proposals : seen'[q] = None \/ status[q] = "absent" => phase'[q] = "idle"
  <1>1. 0 \in 0..Attempts /\ None \in OptText
    BY BoundsAssumption DEF OptText
  <1> QED BY <1>1 DEF Settle, TypeOK

\* Every step keeps the types.
LEMMA StepType == TypeOK /\ [Next]_vars => TypeOK'
  <1> SUFFICES ASSUME TypeOK, [Next]_vars PROVE TypeOK' OBVIOUS
  <1>t. "analysis" \in Trials /\ "run" \in Trials BY DEF Trials
  <1>o. Text \subseteq OptText /\ None \in OptText BY DEF OptText
  <1>1. ASSUME NEW p \in Proposals, Propose(p) PROVE TypeOK'
    <2>1. 1 \in 0..Attempts /\ file \in OptText /\ file # None
      BY <1>o, BoundsAssumption, NoneAssumption DEF TypeOK
    <2> QED BY <1>1, <2>1 DEF Propose, TypeOK
  <1>2. ASSUME NEW p \in Proposals, Try(p) PROVE TypeOK'
    <2>1. seen[p] \in Text BY <1>2 DEF Try, TypeOK, OptText
    <2>2. file' \in Text /\ bak' \in [Trials -> OptText] /\ tangled' \in BOOLEAN
      BY <1>2, <1>t, <2>1, BeginType DEF Try
    <2> QED BY <1>2, <2>2 DEF Try, TypeOK
  <1>3. ASSUME NEW p \in Proposals, Skip(p) \/ GiveUp(p) PROVE TypeOK'
    <2>1. Settle(p) BY <1>3 DEF Skip, GiveUp
    <2>2. fits' \in [Proposals -> BOOLEAN] BY <1>3 DEF Skip, GiveUp, TypeOK
    <2> QED BY <1>3, <2>1, <2>2, SettleType DEF Skip, GiveUp, TypeOK
  <1>4. ASSUME NEW p \in Proposals, TestFails(p) PROVE TypeOK'
    <2>1. file' \in Text /\ bak' \in [Trials -> OptText] /\ tangled' = tangled
      BY <1>4, <1>t, EndType DEF TestFails
    <2>2. CASE attempt[p] < Attempts
      <3>1. attempt[p] + 1 \in 0..Attempts BY <2>2, BoundsAssumption DEF TypeOK
      <3>2. seen[p] # None BY <1>4 DEF TestFails, TypeOK
      <3> QED BY <1>4, <2>1, <2>2, <3>1, <3>2 DEF TestFails, TypeOK
    <2>3. CASE ~(attempt[p] < Attempts)
      <3>1. Settle(p) BY <1>4, <2>3 DEF TestFails
      <3> QED BY <1>4, <2>1, <3>1, SettleType DEF TestFails, TypeOK
    <2> QED BY <2>2, <2>3
  <1>5. ASSUME NEW p \in Proposals, TestSettles(p) PROVE TypeOK'
    <2>1. file' \in Text /\ bak' \in [Trials -> OptText] /\ tangled' = tangled
      BY <1>5, <1>t, EndType DEF TestSettles
    <2> QED BY <1>5, <2>1, SettleType DEF TestSettles, TypeOK
  <1>6. ASSUME NEW p \in Proposals, StartRun(p) PROVE TypeOK'
    <2>1. file' \in Text /\ bak' \in [Trials -> OptText] /\ tangled' \in BOOLEAN
      BY <1>6, <1>t, BeginType DEF StartRun, TypeOK
    <2>2. runs[p] + 1 \in 0..MaxTrials BY <1>6, BoundsAssumption DEF StartRun, TypeOK
    <2> QED BY <1>6, <2>1, <2>2 DEF StartRun, TypeOK, storeVars
  <1>7. ASSUME NEW p \in Proposals, EndRun(p) PROVE TypeOK'
    <2>1. file' \in Text /\ bak' \in [Trials -> OptText] /\ tangled' = tangled
      BY <1>7, <1>t, EndType DEF EndRun
    <2>2. runs[p] - 1 \in 0..MaxTrials BY <1>7, BoundsAssumption DEF EndRun, TypeOK
    <2> QED BY <1>7, <2>1, <2>2 DEF EndRun, TypeOK, storeVars
  <1>8. ASSUME NEW p \in Proposals, NEW dbUp \in BOOLEAN, Approve(p, dbUp) PROVE TypeOK'
    <2>1. Patch(file, p) \in Text BY PatchType DEF TypeOK
    <2>2. status' \in [Proposals -> {"absent", "pending", "approved", "rejected"}]
      BY <1>8 DEF Approve, Decide, TypeOK
    <2>3. file' \in Text /\ due' \in Text /\ blessed' \subseteq Proposals /\ tangled' \in BOOLEAN
      BY <1>8, <2>1 DEF Approve, TypeOK
    <2>4. \A q \in Proposals : status'[q] = "absent" => status[q] = "absent"
      BY <1>8 DEF Approve, Decide, TypeOK
    <2>5. UNCHANGED <<bak, fits, phase, attempt, seen, runs, healing, kills>> BY <1>8 DEF Approve
    <2> QED BY <2>2, <2>3, <2>4, <2>5 DEF TypeOK
  <1>9. ASSUME NEW p \in Proposals, NEW dbUp \in BOOLEAN, Reject(p, dbUp) PROVE TypeOK'
    BY <1>9 DEF Reject, Decide, TypeOK
  <1>10. CASE HealStart BY <1>10, <1>o DEF HealStart, TypeOK, storeVars
  <1>11. CASE HealWrite
    <2>1. healing \in Text BY <1>11 DEF HealWrite, TypeOK, OptText
    <2>2. file' \in Text BY <1>11, <2>1 DEF HealWrite, Text, Marks
    <2> QED BY <1>11, <1>o, <2>2 DEF HealWrite, TypeOK, storeVars
  <1>12. CASE HealFail BY <1>12, <1>o DEF HealFail, TypeOK, storeVars
  <1>13. CASE Regenerate
    <2>1. file' \in Text BY <1>13 DEF Regenerate, Text, Marks
    <2> QED BY <1>13, <2>1 DEF Regenerate, TypeOK, storeVars
  <1>14. CASE Kill
    <2>1. 0 \in 0..Attempts /\ 0 \in 0..MaxTrials /\ kills + 1 \in 0..MaxKills
      BY <1>14, BoundsAssumption DEF Kill, TypeOK
    <2> QED BY <1>14, <1>o, <2>1 DEF Kill, TypeOK
  <1>15. CASE UNCHANGED vars BY <1>15 DEF vars, storeVars, TypeOK
  <1> HIDE DEF TypeOK
  <1> QED BY <1>1, <1>2, <1>3, <1>4, <1>5, <1>6, <1>7, <1>8, <1>9, <1>10, <1>11, <1>12, <1>13, <1>14, <1>15
        DEF Next, Think, TestEnds

\* Every variable keeps to its type, and a proposal is analysed with the text it read.
THEOREM TypeCorrect == Spec => []TypeOK
  BY InitType, StepType, PTL DEF Spec

-----------------------------------------------------------------------------
(* Trials leave no trace.                                                      *)

\* A trial that meets nothing is alone and its backup is the due text.
LEMMA BeginUntangled ==
  ASSUME TypeOK, NoTrace, NEW k \in Trials, NEW text \in Text, NEW p \in Proposals,
         BeginTrial(k, text, p), ~tangled'
  PROVE  /\ ~tangled /\ Untangled /\ text = due
         /\ \A q \in Proposals : phase[q] # "trying" /\ runs[q] = 0
         /\ bak'[k] = due
  <1>1. ~tangled /\ ~Trying /\ text = due BY DEF BeginTrial
  <1>2. Untangled BY <1>1 DEF NoTrace
  <1>3. \A q \in Proposals : phase[q] # "trying" /\ ~(runs[q] > 0) BY <1>1 DEF Trying
  <1>4. \A q \in Proposals : runs[q] \in Nat BY DEF TypeOK
  <1>5. \A q \in Proposals : runs[q] = 0 BY <1>3, <1>4
  <1>6. bak'[k] = text BY DEF BeginTrial, TypeOK
  <1> QED BY <1>1, <1>2, <1>3, <1>5, <1>6

\* The end of the only trial puts the due text back.
LEMMA EndUntangled ==
  ASSUME TypeOK, NEW k \in Trials, EndTrial(k), bak[k] = due
  PROVE  file' = due
  BY NoneAssumption DEF EndTrial, TypeOK

\* No trial has begun in the initial state.
LEMMA InitNoTrace == Init => NoTrace
  <1> SUFFICES ASSUME Init PROVE Untangled BY DEF NoTrace
  <1>1. Clean(due) BY FreshType DEF Init, Clean
  <1> QED BY <1>1 DEF Init, Untangled, Trying, InFlight

\* Steps that leave trials, the file and its history alone.
LEMMA StillUntangled ==
  ASSUME NoTrace, UNCHANGED <<file, bak, runs, due, blessed, tangled>>,
         healing' = healing \/ healing' = None,
         \A p \in Proposals : phase'[p] = "trying" <=> phase[p] = "trying"
  PROVE  NoTrace'
  <1> SUFFICES ASSUME ~tangled' PROVE Untangled' BY DEF NoTrace
  <1>1. Untangled BY DEF NoTrace
  <1>2. Trying' <=> Trying BY DEF Trying
  <1>3. \A p \in Proposals : InFlight(p)' <=> InFlight(p) BY DEF InFlight
  <1>4. Clean(due)' /\ (healing' # None => Clean(healing)') BY <1>1 DEF Untangled, Clean
  <1> QED BY <1>1, <1>2, <1>3, <1>4 DEF Untangled

\* Every step keeps NoTrace.
LEMMA StepNoTrace == TypeOK /\ NoTrace /\ [Next]_vars => NoTrace'
  <1> SUFFICES ASSUME TypeOK, NoTrace, [Next]_vars PROVE NoTrace' OBVIOUS
  <1>t. "analysis" \in Trials /\ "run" \in Trials BY DEF Trials
  <1>n. \A q \in Proposals : runs[q] \in Nat BY DEF TypeOK
  <1>q. Untangled /\ ~Trying => /\ file = due /\ Clean(due)
                                /\ \A q \in Proposals : phase[q] # "trying" /\ runs[q] = 0
    BY <1>n DEF Untangled, Trying
  <1>1. ASSUME NEW p \in Proposals, Propose(p) PROVE NoTrace'
    <2>1. phase[p] = "idle" BY <1>1 DEF Propose, TypeOK
    <2>2. \A q \in Proposals : phase'[q] = "trying" <=> phase[q] = "trying"
      BY <1>1, <2>1 DEF Propose, TypeOK
    <2> QED BY <1>1, <2>2, StillUntangled DEF Propose
  <1>2. ASSUME NEW p \in Proposals, Try(p) PROVE NoTrace'
    <2> SUFFICES ASSUME ~tangled' PROVE Untangled' BY DEF NoTrace
    <2>1. seen[p] \in Text BY <1>2 DEF Try, TypeOK, OptText
    <2>2. BeginTrial("analysis", seen[p], p) BY <1>2 DEF Try
    <2>3. /\ Untangled /\ bak'["analysis"] = due
          /\ \A q \in Proposals : phase[q] # "trying" /\ runs[q] = 0
      BY <1>t, <2>1, <2>2, BeginUntangled
    <2>4. \A q \in Proposals : runs'[q] = 0 /\ (phase'[q] = "trying" <=> q = p)
      BY <1>2, <2>3 DEF Try, TypeOK
    <2>5. due' = due /\ healing' = healing /\ blessed' = blessed BY <1>2 DEF Try
    <2>6. Trying' BY <2>4 DEF Trying
    <2> QED BY <2>3, <2>4, <2>5, <2>6 DEF Untangled, Clean, InFlight
  <1>3. ASSUME NEW p \in Proposals, Skip(p) \/ GiveUp(p) PROVE NoTrace'
    <2>1. \A q \in Proposals : phase'[q] = "trying" <=> phase[q] = "trying"
      BY <1>3 DEF Skip, GiveUp, Settle, TypeOK
    <2> QED BY <1>3, <2>1, StillUntangled DEF Skip, GiveUp
  <1>4. ASSUME NEW p \in Proposals, TestEnds(p) PROVE NoTrace'
    <2> SUFFICES ASSUME ~tangled' PROVE Untangled' BY DEF NoTrace
    <2>1. EndTrial("analysis") /\ phase[p] = "trying" /\ runs' = runs
      BY <1>4 DEF TestEnds, TestFails, TestSettles
    <2>2. Untangled BY <2>1 DEF EndTrial, NoTrace
    <2>3. bak["analysis"] = due /\ InFlight(p) BY <2>1, <2>2 DEF Untangled, InFlight
    <2>4. file' = due BY <1>t, <2>1, <2>3, EndUntangled
    <2>5. \A q \in Proposals : phase'[q] # "trying"
      <3>1. \A q \in Proposals : q # p => phase'[q] = phase[q]
        BY <1>4 DEF TestEnds, TestFails, TestSettles, Settle, TypeOK
      <3>2. phase'[p] # "trying"
        BY <1>4 DEF TestEnds, TestFails, TestSettles, Settle, TypeOK
      <3> QED BY <2>2, <2>3, <3>1, <3>2 DEF Untangled, InFlight
    <2>6. \A q \in Proposals : ~(runs[q] > 0) BY <2>1, <2>2, <2>3 DEF Untangled, InFlight
    <2>7. due' = due /\ healing' = healing /\ blessed' = blessed
      BY <1>4 DEF TestEnds, TestFails, TestSettles
    <2> QED BY <2>1, <2>2, <2>4, <2>5, <2>6, <2>7 DEF Untangled, Clean, InFlight
  <1>6. ASSUME NEW p \in Proposals, StartRun(p) PROVE NoTrace'
    <2> SUFFICES ASSUME ~tangled' PROVE Untangled' BY DEF NoTrace
    <2>2. BeginTrial("run", file, p) /\ file \in Text BY <1>6 DEF StartRun, TypeOK
    <2>3. /\ Untangled /\ bak'["run"] = due
          /\ \A q \in Proposals : phase[q] # "trying" /\ runs[q] = 0
      BY <1>t, <2>2, BeginUntangled
    <2>4. \A q \in Proposals : phase'[q] # "trying" /\ runs'[q] = IF q = p THEN 1 ELSE 0
      BY <1>6, <2>3 DEF StartRun, TypeOK, storeVars
    <2>5. due' = due /\ healing' = healing /\ blessed' = blessed BY <1>6 DEF StartRun
    <2>6. Trying' BY <2>4 DEF Trying
    <2> QED BY <2>3, <2>4, <2>5, <2>6 DEF Untangled, Clean, InFlight
  <1>7. ASSUME NEW p \in Proposals, EndRun(p) PROVE NoTrace'
    <2> SUFFICES ASSUME ~tangled' PROVE Untangled' BY DEF NoTrace
    <2>1. EndTrial("run") /\ runs[p] > 0 /\ phase' = phase BY <1>7 DEF EndRun, storeVars
    <2>2. Untangled BY <2>1 DEF EndTrial, NoTrace
    <2>3. bak["run"] = due /\ InFlight(p) /\ runs[p] = 1 BY <2>1, <2>2 DEF Untangled, InFlight
    <2>4. file' = due BY <1>t, <2>1, <2>3, EndUntangled
    <2>5. \A q \in Proposals : ~(runs'[q] > 0)
      <3>1. \A q \in Proposals : q # p => runs'[q] = runs[q] BY <1>7 DEF EndRun, TypeOK
      <3>2. runs'[p] = 0 BY <1>7, <2>3 DEF EndRun, TypeOK
      <3> QED BY <2>2, <2>3, <3>1, <3>2 DEF Untangled, InFlight
    <2>6. \A q \in Proposals : phase[q] # "trying" BY <2>1, <2>2, <2>3 DEF Untangled, InFlight
    <2>7. due' = due /\ healing' = healing /\ blessed' = blessed BY <1>7 DEF EndRun
    <2> QED BY <2>1, <2>2, <2>4, <2>5, <2>6, <2>7 DEF Untangled, Clean, InFlight
  <1>8. ASSUME NEW p \in Proposals, NEW dbUp \in BOOLEAN, Approve(p, dbUp) PROVE NoTrace'
    <2>1. CASE fits[p] /\ CanPatch(file, p)
      <3> SUFFICES ASSUME ~tangled' PROVE Untangled' BY DEF NoTrace
      <3>1. ~tangled /\ ~Trying BY <1>8, <2>1 DEF Approve
      <3>2. Untangled BY <3>1 DEF NoTrace
      <3>3. file = due /\ Clean(file) /\ file \in Text
        BY <1>q, <3>1, <3>2 DEF Clean, TypeOK
      <3>4. due' = Patch(file, p) /\ file' = due' /\ blessed' = blessed \cup {p}
        BY <1>8, <2>1 DEF Approve
      <3>5. Clean(due)'
        <4>1. \A pl \in Places : Patch(file, p)[pl] \in {Orig, Other} \cup blessed'
          BY <3>3, <3>4, PatchClean
        <4> QED BY <3>4, <4>1 DEF Clean
      <3>6. healing' = healing /\ phase' = phase /\ runs' = runs BY <1>8 DEF Approve
      <3>7. (healing # None => Clean(healing))'
        BY <3>2, <3>4, <3>6 DEF Untangled, Clean
      <3> QED BY <1>q, <3>1, <3>2, <3>4, <3>5, <3>6, <3>7 DEF Untangled, InFlight, Trying
    <2>2. CASE ~(fits[p] /\ CanPatch(file, p))
      BY <1>8, <2>2, StillUntangled DEF Approve
    <2> QED BY <2>1, <2>2
  <1>9. ASSUME NEW p \in Proposals, NEW dbUp \in BOOLEAN, Reject(p, dbUp) PROVE NoTrace'
    BY <1>9, StillUntangled DEF Reject
  <1>10. CASE HealStart
    <2> SUFFICES ASSUME ~tangled' PROVE Untangled' BY DEF NoTrace
    <2>1. ~tangled /\ ~Trying BY <1>10 DEF HealStart
    <2>2. Untangled BY <2>1 DEF NoTrace
    <2>3. healing' = due /\ UNCHANGED <<file, due, blessed, phase, runs>>
      BY <1>10, <1>q, <2>1, <2>2 DEF HealStart, storeVars
    <2> QED BY <1>q, <2>1, <2>2, <2>3 DEF Untangled, Clean, InFlight, Trying
  <1>11. CASE HealWrite
    <2> SUFFICES ASSUME ~tangled' PROVE Untangled' BY DEF NoTrace
    <2>1. ~tangled /\ ~Trying BY <1>11 DEF HealWrite
    <2>2. Untangled BY <2>1 DEF NoTrace
    <2>3. UNCHANGED <<blessed, phase, runs>> /\ healing' = None /\ due' = file'
      BY <1>11 DEF HealWrite, storeVars
    <2>4. \A pl \in Places : file'[pl] \in {Orig, Other} \cup blessed
      <3>1. \A pl \in Places : file'[pl] = Other \/ file'[pl] = healing[pl]
        BY <1>11 DEF HealWrite
      <3> QED BY <1>11, <2>2, <3>1 DEF Untangled, Clean, HealWrite
    <2> QED BY <1>q, <2>1, <2>2, <2>3, <2>4 DEF Untangled, Clean, InFlight, Trying
  <1>12. CASE HealFail
    BY <1>12, StillUntangled DEF HealFail, storeVars
  <1>13. CASE Regenerate
    <2> SUFFICES ASSUME ~tangled' PROVE Untangled' BY DEF NoTrace
    <2>1. ~tangled /\ ~Trying BY <1>13 DEF Regenerate
    <2>2. Untangled BY <2>1 DEF NoTrace
    <2>3. UNCHANGED <<blessed, phase, runs, healing>> /\ due' = file'
      BY <1>13 DEF Regenerate, storeVars
    <2>4. \A pl \in Places : file'[pl] \in {Orig, Other} BY <1>13 DEF Regenerate
    <2> QED BY <1>q, <2>1, <2>2, <2>3, <2>4 DEF Untangled, Clean, InFlight, Trying
  <1>14. CASE Kill
    <2> SUFFICES ASSUME ~tangled' PROVE Untangled' BY DEF NoTrace
    <2>1. ~tangled /\ ~Trying BY <1>14 DEF Kill
    <2>2. Untangled BY <2>1 DEF NoTrace
    <2>3. \A q \in Proposals : phase'[q] # "trying" /\ runs'[q] = 0 BY <1>14 DEF Kill
    <2>4. UNCHANGED <<file, due, blessed>> /\ healing' = None BY <1>14 DEF Kill
    <2> QED BY <1>q, <2>1, <2>2, <2>3, <2>4 DEF Untangled, Clean, InFlight, Trying
  <1>15. CASE UNCHANGED vars BY <1>15, StillUntangled DEF vars, storeVars
  <1> HIDE DEF NoTrace
  <1> QED BY <1>1, <1>2, <1>3, <1>4, <1>6, <1>7, <1>8, <1>9, <1>10, <1>11, <1>12, <1>13, <1>14, <1>15
        DEF Next, Think

\* When no trial is in flight and nothing was tangled, the file is what decisions,
\* heals and generations made of it.
THEOREM TrialsLeaveNoTraceHolds == Spec => []TrialsLeaveNoTrace
  <1>1. TypeOK /\ NoTrace => TrialsLeaveNoTrace
    BY DEF NoTrace, Untangled, Clean, TrialsLeaveNoTrace
  <1> QED BY <1>1, InitType, StepType, InitNoTrace, StepNoTrace, PTL DEF Spec

-----------------------------------------------------------------------------
(* Backups.                                                                    *)

\* Every step keeps the trials of the backups.
LEMMA StepBackups == TypeOK /\ BackupsHaveTrials /\ [Next]_vars => BackupsHaveTrials'
  <1> SUFFICES ASSUME TypeOK, BackupsHaveTrials, [Next]_vars PROVE BackupsHaveTrials' OBVIOUS
  <1>t. "analysis" \in Trials /\ "run" \in Trials /\ "analysis" # "run" BY DEF Trials
  <1>s. ASSUME UNCHANGED <<bak, runs, kills>>,
               \A q \in Proposals : phase[q] = "trying" => phase'[q] = "trying"
        PROVE  BackupsHaveTrials'
    BY <1>s DEF BackupsHaveTrials
  <1>1. ASSUME NEW p \in Proposals, Propose(p) PROVE BackupsHaveTrials'
    <2>1. phase[p] = "idle" BY <1>1 DEF Propose, TypeOK
    <2> QED BY <1>s, <1>1, <2>1 DEF Propose, TypeOK
  <1>2. ASSUME NEW p \in Proposals, Try(p) PROVE BackupsHaveTrials'
    <2>1. phase'[p] = "trying" /\ bak'["run"] = bak["run"] /\ runs' = runs /\ kills' = kills
      BY <1>2, <1>t DEF Try, BeginTrial, TypeOK
    <2> QED BY <2>1 DEF BackupsHaveTrials
  <1>3. ASSUME NEW p \in Proposals, Skip(p) \/ GiveUp(p) PROVE BackupsHaveTrials'
    <2>1. \A q \in Proposals : phase[q] = "trying" => phase'[q] = "trying"
      BY <1>3 DEF Skip, GiveUp, Settle, TypeOK
    <2> QED BY <1>s, <1>3, <2>1 DEF Skip, GiveUp
  <1>4. ASSUME NEW p \in Proposals, TestEnds(p) PROVE BackupsHaveTrials'
    <2>1. EndTrial("analysis") /\ runs' = runs /\ kills' = kills
      BY <1>4 DEF TestEnds, TestFails, TestSettles
    <2>2. bak'["analysis"] = None /\ bak'["run"] = bak["run"] BY <1>t, <2>1 DEF EndTrial, TypeOK
    <2> QED BY <2>1, <2>2 DEF BackupsHaveTrials
  <1>6. ASSUME NEW p \in Proposals, StartRun(p) PROVE BackupsHaveTrials'
    <2>1. runs'[p] > 0 BY <1>6, BoundsAssumption DEF StartRun, TypeOK
    <2>2. bak'["analysis"] = bak["analysis"] /\ phase' = phase /\ kills' = kills
      BY <1>6, <1>t DEF StartRun, BeginTrial, TypeOK, storeVars
    <2> QED BY <2>1, <2>2 DEF BackupsHaveTrials
  <1>7. ASSUME NEW p \in Proposals, EndRun(p) PROVE BackupsHaveTrials'
    <2>1. EndTrial("run") /\ phase' = phase /\ kills' = kills BY <1>7 DEF EndRun, storeVars
    <2>2. bak'["run"] = None /\ bak'["analysis"] = bak["analysis"] BY <1>t, <2>1 DEF EndTrial, TypeOK
    <2> QED BY <2>1, <2>2 DEF BackupsHaveTrials
  <1>8. ASSUME NEW p \in Proposals, NEW dbUp \in BOOLEAN, Approve(p, dbUp) \/ Reject(p, dbUp)
        PROVE  BackupsHaveTrials'
    BY <1>s, <1>8 DEF Approve, Reject
  <1>9. CASE HealStart \/ HealWrite \/ HealFail \/ Regenerate
    BY <1>s, <1>9 DEF HealStart, HealWrite, HealFail, Regenerate, storeVars
  <1>10. CASE Kill
    <2>1. kills' # 0 BY <1>10 DEF Kill, TypeOK
    <2> QED BY <2>1 DEF BackupsHaveTrials
  <1>11. CASE UNCHANGED vars BY <1>s, <1>11 DEF vars, storeVars
  <1> HIDE DEF BackupsHaveTrials
  <1> QED BY <1>1, <1>2, <1>3, <1>4, <1>6, <1>7, <1>8, <1>9, <1>10, <1>11 DEF Next, Think

\* Overlapping trials may restore the wrong text, but no backup outlives the trials.
THEOREM BackupsHaveTrialsHolds == Spec => []BackupsHaveTrials
  <1>1. Init => BackupsHaveTrials BY DEF Init, BackupsHaveTrials, Trials
  <1> QED BY <1>1, InitType, StepType, StepBackups, PTL DEF Spec
=============================================================================
