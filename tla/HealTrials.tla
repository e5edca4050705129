----------------------------- MODULE HealTrials -----------------------------
(***************************************************************************)
(* Healing of one generated spec file (api/routers/healing.py and the      *)
(* inline patch of agents/self_healing.py).                                *)
(*                                                                         *)
(* A proposal replaces one place of the file.  Its fix is tried out in the *)
(* file itself, because Playwright's testDir refuses a copy: by the        *)
(* analysis of the proposal, up to three times, from the text it was       *)
(* proposed on, and by POST /run, from the text that is there.  Both put   *)
(* their backup beside the file under a fixed name and write it back when  *)
(* the test has ended.  Meanwhile approvals, the inline healer and the     *)
(* generation pipelines write the same file, and the process may stop.     *)
(* A step is the code between two awaits.                                  *)
(***************************************************************************)
EXTENDS Naturals

CONSTANTS
    Proposals,    \* heal proposal ids of this file
    Places,       \* the places of the file that fixes replace
    PlaceOf,      \* the place of each proposal: where its current_code stands
    Orig, Other,  \* a place as generated, and rewritten so that no fix fits
    None,         \* no text
    Attempts,     \* MAX_ATTEMPTS
    MaxTrials,    \* bound: POST /run trials in flight at once
    MaxKills      \* bound: how often the process stops

ASSUME PlaceAssumption == PlaceOf \in [Proposals -> Places]
ASSUME MarksAssumption == Orig \notin Proposals /\ Other \notin Proposals /\ Orig # Other
ASSUME BoundsAssumption == Attempts \in Nat \ {0} /\ MaxTrials \in Nat /\ MaxKills \in Nat

VARIABLES
    file,     \* the text of the file
    bak,      \* the text of <file>.spec.ts.bak ("run") and .spec.ts.agentic.bak ("analysis")
    status,   \* PENDING_APPROVALS[p].status
    fits,     \* whether the current_code of PENDING_APPROVALS[p]._fix is text of its place
    phase,    \* where the analysis of p stands
    attempt,  \* its attempt
    seen,     \* the file_content it was started with
    runs,     \* the POST /run trials of p in flight
    healing,  \* the text the inline healer works on
    due,      \* history: what approvals, heals and generations have made of the file
    blessed,  \* history: the proposals whose fix an approval has written
    tangled,  \* history: a trial has met another trial, another writer, an old text or a stop
    kills     \* history: how often the process has stopped

storeVars == <<status, fits, phase, attempt, seen>>
vars == <<file, bak, storeVars, runs, healing, due, blessed, tangled, kills>>

Trials == {"run", "analysis"}
Marks == {Orig, Other} \cup Proposals       \* p: the fix of p stands here
Text == [Places -> Marks]                   \* what stands in each place
OptText == Text \cup {None}

TypeOK ==
    /\ file \in Text /\ due \in Text /\ healing \in OptText
    /\ bak \in [Trials -> OptText]
    /\ status \in [Proposals -> {"absent", "pending", "approved", "rejected"}]
    /\ fits \in [Proposals -> BOOLEAN]
    /\ phase \in [Proposals -> {"idle", "thinking", "trying"}]
    /\ attempt \in [Proposals -> 0..Attempts]
    /\ seen \in [Proposals -> OptText]
    /\ \A p \in Proposals : seen[p] = None \/ status[p] = "absent" => phase[p] = "idle"
    /\ runs \in [Proposals -> 0..MaxTrials]
    /\ blessed \subseteq Proposals
    /\ tangled \in BOOLEAN
    /\ kills \in 0..MaxKills

Fresh == [pl \in Places |-> Orig]

Init ==
    /\ file = Fresh /\ due = Fresh /\ healing = None
    /\ bak = [k \in Trials |-> None]
    /\ status = [p \in Proposals |-> "absent"]
    /\ fits = [p \in Proposals |-> FALSE]
    /\ phase = [p \in Proposals |-> "idle"]
    /\ attempt = [p \in Proposals |-> 0]
    /\ seen = [p \in Proposals |-> None]
    /\ runs = [p \in Proposals |-> 0]
    /\ blessed = {} /\ tangled = FALSE /\ kills = 0

\* A trial has patched the file and not yet ended.
Trying == \E p \in Proposals : phase[p] = "trying" \/ runs[p] > 0

\* current_code in text, and text.replace(current_code, proposed_code, 1).
CanPatch(text, p) == text[PlaceOf[p]] = Orig
Patch(text, p) == [text EXCEPT ![PlaceOf[p]] = p]

ASSUME NoneAssumption == None \notin Text

-----------------------------------------------------------------------------
(* Trials.                                                                  *)

\* Mutant: the patched text is backed up.
BeginTrialLate(kind, text, p) ==
    /\ bak' = [bak EXCEPT ![kind] = Patch(text, p)]
    /\ file' = Patch(text, p)
    /\ tangled' = (tangled \/ Trying \/ text # due)

\* Back up the given text and write it patched; the test starts.
BeginTrial(kind, text, p) ==
    /\ bak' = [bak EXCEPT ![kind] = text]
    /\ file' = Patch(text, p)
    /\ tangled' = (tangled \/ Trying \/ text # due)

\* Mutant: the backup is restored and not removed.
EndTrialKept(kind) ==
    /\ file' = IF bak[kind] = None THEN file ELSE bak[kind]
    /\ UNCHANGED <<bak, tangled>>

\* The finally block: write the backup back, if one is still there, and remove it.
EndTrial(kind) ==
    /\ file' = IF bak[kind] = None THEN file ELSE bak[kind]
    /\ bak' = [bak EXCEPT ![kind] = None]
    /\ UNCHANGED tangled

\* POST /propose: the rule-based fix is there at once, the analysis starts.
Propose(p) ==
    /\ status[p] = "absent"
    /\ status' = [status EXCEPT ![p] = "pending"]
    /\ \E fit \in BOOLEAN : fits' = [fits EXCEPT ![p] = fit]
    /\ phase' = [phase EXCEPT ![p] = "thinking"]
    /\ attempt' = [attempt EXCEPT ![p] = 1]
    /\ seen' = [seen EXCEPT ![p] = file]
    /\ UNCHANGED <<file, bak, runs, healing, due, blessed, tangled, kills>>

\* The analysis ends with the best fix so far; the decision on p does not matter to it.
Settle(p) ==
    /\ phase' = [phase EXCEPT ![p] = "idle"]
    /\ attempt' = [attempt EXCEPT ![p] = 0]
    /\ seen' = [seen EXCEPT ![p] = None]

\* The LLM answers with a fix whose current_code is in the text it was given.
Try(p) ==
    /\ phase[p] = "thinking"
    /\ CanPatch(seen[p], p)
    /\ fits' = [fits EXCEPT ![p] = TRUE]
    /\ phase' = [phase EXCEPT ![p] = "trying"]
    /\ BeginTrial("analysis", seen[p], p)
    /\ UNCHANGED <<status, attempt, seen, runs, healing, due, blessed, kills>>

\* It answers with one whose current_code is not there: taken without a trial.
Skip(p) ==
    /\ phase[p] = "thinking"
    /\ fits' = [fits EXCEPT ![p] = FALSE]
    /\ Settle(p)
    /\ UNCHANGED <<file, bak, status, runs, healing, due, blessed, tangled, kills>>

\* It fails or times out: the fix of the last attempt, or the rule-based one, stays.
GiveUp(p) ==
    /\ phase[p] = "thinking"
    /\ Settle(p)
    /\ UNCHANGED <<file, bak, status, fits, runs, healing, due, blessed, tangled, kills>>

\* Mutant: one attempt too many.
TestFailsOnceMore(p) ==
    /\ phase[p] = "trying"
    /\ EndTrial("analysis")
    /\ IF attempt[p] <= Attempts
       THEN /\ phase' = [phase EXCEPT ![p] = "thinking"]
            /\ attempt' = [attempt EXCEPT ![p] = @ + 1]
            /\ UNCHANGED seen
       ELSE Settle(p)
    /\ UNCHANGED <<status, fits, runs, healing, due, blessed, kills>>

\* The test of an attempt fails or times out: the next attempt, if there is one.
TestFails(p) ==
    /\ phase[p] = "trying"
    /\ EndTrial("analysis")
    /\ IF attempt[p] < Attempts
       THEN /\ phase' = [phase EXCEPT ![p] = "thinking"]
            /\ attempt' = [attempt EXCEPT ![p] = @ + 1]
            /\ UNCHANGED seen
       ELSE Settle(p)
    /\ UNCHANGED <<status, fits, runs, healing, due, blessed, kills>>

\* It passes, or the environment does not let it run.
TestSettles(p) ==
    /\ phase[p] = "trying"
    /\ EndTrial("analysis")
    /\ Settle(p)
    /\ UNCHANGED <<status, fits, runs, healing, due, blessed, kills>>

\* POST /run: neither the status of p nor a trial in flight matters.
StartRun(p) ==
    /\ status[p] # "absent" /\ fits[p] /\ CanPatch(file, p)
    /\ runs[p] < MaxTrials
    /\ BeginTrial("run", file, p)
    /\ runs' = [runs EXCEPT ![p] = @ + 1]
    /\ UNCHANGED <<storeVars, healing, due, blessed, kills>>

\* Its test ends, after 120 seconds at the latest.
EndRun(p) ==
    /\ runs[p] > 0
    /\ EndTrial("run")
    /\ runs' = [runs EXCEPT ![p] = @ - 1]
    /\ UNCHANGED <<storeVars, healing, due, blessed, kills>>

-----------------------------------------------------------------------------
(* Decisions.  No code inserts rows into healing_proposals, so the proposal *)
(* read is the one in memory; but with the database up its status is        *)
(* "updated" there, in no row, and the one in memory stays pending.         *)

Decide(p, decision, dbUp) ==
    /\ status[p] = "pending"
    /\ status' = IF dbUp THEN status ELSE [status EXCEPT ![p] = decision]

\* approve_proposal: the fix is applied to the file as it is now, if it still fits.
Approve(p, dbUp) ==
    /\ Decide(p, "approved", dbUp)
    /\ IF fits[p] /\ CanPatch(file, p)
       THEN /\ file' = Patch(file, p)
            /\ due' = file'
            /\ blessed' = blessed \cup {p}
            /\ tangled' = (tangled \/ Trying)
       ELSE UNCHANGED <<file, due, blessed, tangled>>
    /\ UNCHANGED <<bak, fits, phase, attempt, seen, runs, healing, kills>>

Reject(p, dbUp) ==
    /\ Decide(p, "rejected", dbUp)
    /\ UNCHANGED <<file, bak, fits, phase, attempt, seen, runs, healing, due, blessed, tangled, kills>>

-----------------------------------------------------------------------------
(* Other writers of the file.                                               *)

\* _attempt_inline_selector_patch reads the file and asks the LLM.
HealStart ==
    /\ healing = None
    /\ healing' = file
    /\ tangled' = (tangled \/ Trying)
    /\ UNCHANGED <<file, bak, storeVars, runs, due, blessed, kills>>

\* The whole corrected text is written: the text read, with places rewritten.
HealWrite ==
    /\ healing # None
    /\ \E fixed \in SUBSET Places :
          file' = [pl \in Places |-> IF pl \in fixed THEN Other ELSE healing[pl]]
    /\ due' = file' /\ healing' = None
    /\ tangled' = (tangled \/ Trying)
    /\ UNCHANGED <<bak, storeVars, runs, blessed, kills>>

HealFail ==
    /\ healing # None
    /\ healing' = None
    /\ UNCHANGED <<file, bak, storeVars, runs, due, blessed, tangled, kills>>

\* A generation pipeline writes a new script; it has the old code in some places.
Regenerate ==
    /\ \E kept \in SUBSET Places :
          file' = [pl \in Places |-> IF pl \in kept THEN Orig ELSE Other]
    /\ due' = file'
    /\ tangled' = (tangled \/ Trying)
    /\ UNCHANGED <<bak, storeVars, runs, healing, blessed, kills>>

\* The process stops and starts again: proposals and trials are gone, files stay.
Kill ==
    /\ kills < MaxKills
    /\ kills' = kills + 1
    /\ status' = [p \in Proposals |-> "absent"]
    /\ fits' = [p \in Proposals |-> FALSE]
    /\ phase' = [p \in Proposals |-> "idle"]
    /\ attempt' = [p \in Proposals |-> 0]
    /\ seen' = [p \in Proposals |-> None]
    /\ runs' = [p \in Proposals |-> 0]
    /\ healing' = None
    /\ tangled' = (tangled \/ Trying)
    /\ UNCHANGED <<file, bak, due, blessed>>

-----------------------------------------------------------------------------
Think(p) == Try(p) \/ Skip(p) \/ GiveUp(p)
TestEnds(p) == TestFails(p) \/ TestSettles(p)

Next ==
    \/ \E p \in Proposals :
          \/ Propose(p) \/ Think(p) \/ TestEnds(p)
          \/ StartRun(p) \/ EndRun(p)
          \/ \E dbUp \in BOOLEAN : Approve(p, dbUp) \/ Reject(p, dbUp)
    \/ HealStart \/ HealWrite \/ HealFail
    \/ Regenerate
    \/ Kill

Spec == Init /\ [][Next]_vars

-----------------------------------------------------------------------------
(* Properties.                                                              *)

\* When no trial is in flight the file is what decisions, heals and generations made
\* of it and holds no fix that nobody approved, as long as no trial has met another
\* trial, a writer, a text that is no longer there or a stop (healing.py:278-283
\* "always restored in the finally block").
TrialsLeaveNoTrace ==
    (~Trying /\ ~tangled) =>
        /\ file = due
        /\ \A pl \in Places : file[pl] \in {Orig, Other} \cup blessed

\* A backup is on disk only while a trial of its kind is in flight, or after a stop.
BackupsHaveTrials ==
    kills = 0 =>
        /\ bak["analysis"] # None => \E p \in Proposals : phase[p] = "trying"
        /\ bak["run"] # None => \E p \in Proposals : runs[p] > 0

\* "Backup original, write patched version in-place" (healing.py:550): what the
\* analysis backs up, to write it back later, is what the file holds.  The code
\* violates it: it backs up the text the proposal was made on, and a script that was
\* generated or approved since then is undone by the trial.
BackupIsOriginal ==
    [][\A p \in Proposals : (phase[p] = "thinking" /\ phase'[p] = "trying") => bak'["analysis"] = file]_vars
=============================================================================
