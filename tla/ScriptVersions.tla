--------------------------- MODULE ScriptVersions ---------------------------
(***************************************************************************)
(* The tests of one requirement and their version history                  *)
(* (api/routers/tests_versions.py, and its callers in api/routers/         *)
(* tests.py).                                                              *)
(*                                                                         *)
(* A test is a row of test_cases, with its text (gherkin and metadata) and *)
(* a copy of its script.  What is executed is a script file: one per tool, *)
(* which the tests of all acceptance criteria share.  A generation writes  *)
(* the files, upserts the rows in a transaction and lets the source gate   *)
(* stamp the metadata in another; a forced generate-all clears rows and    *)
(* files before; a revert, rollback or restore brings a version back.  All *)
(* but the stamp snapshot the rows they are about to replace.  Rows and    *)
(* versions appear when the transaction commits, files at once; any        *)
(* transaction may fail.  A step is the code between two awaits that       *)
(* others can observe.                                                     *)
(***************************************************************************)
EXTENDS Naturals, Sequences, FiniteSets

CONSTANTS
    Tests,        \* test ids of the requirement, in their order
    Files,        \* its script files, one per tool
    FileOf,       \* script_path: the file of each test
    Renamed,      \* the files a forced clear renames: of playwright, newman and k6
    Clients,      \* what can have a transaction open: pipelines, jobs, requests
    None,         \* no row, no file, no transaction
    MaxGen,       \* bound: texts and scripts ever written
    MaxVersions   \* bound: versions of a test

ASSUME BoundsAssumption == MaxGen \in Nat \ {0} /\ MaxVersions \in Nat
ASSUME FilesAssumption ==
    /\ Tests \subseteq Nat /\ Renamed \subseteq Files
    /\ FileOf \in [Tests -> Files] /\ \A f \in Files : \E t \in Tests : FileOf[t] = f

VARIABLES
    row,       \* the row of each test in test_cases: its text, its copy of the script
    disk,      \* the script files
    hist,      \* the rows of test_case_versions, oldest first
    last,      \* the version of each test in the latest pre_regen batch, 0 for none
    tx,        \* the open transaction of each client
    made,      \* how many texts and scripts have been written so far
    replaced,  \* history: the texts of each test that a snapshotting commit has replaced
    tangled,   \* history: tests with overlapping writers, or a failed write or snapshot
    cleared    \* history: the tests a forced clear has deleted, while nothing came after it

histVars == <<replaced, tangled, cleared>>
vars == <<row, disk, hist, last, tx, made, histVars>>

Ids == 1..MaxGen
Row == [text : Ids, script : Ids]                 \* of test_cases or test_case_versions
Kinds == {"written", "persist", "gate", "clear", "revert", "restore"}
\* on: the tests it writes; todo: those of a restore still to come; rows: their rows
\* after the commit; adds: their new versions.
Tx == [kind : Kinds, on : SUBSET Tests, todo : SUBSET Tests,
       rows : [Tests -> Row \cup {None}], adds : [Tests -> Seq(Row)]]

ASSUME NoneAssumption == None \notin Ids \cup Row \cup Tx

TypeOK ==
    /\ row \in [Tests -> Row \cup {None}]
    /\ disk \in [Files -> Ids \cup {None}]
    /\ hist \in [Tests -> Seq(Row)]
    /\ last \in [Tests -> Nat]
    /\ tx \in [Clients -> Tx \cup {None}]
    /\ made \in Ids
    /\ replaced \in [Tests -> SUBSET Ids]
    /\ tangled \subseteq Tests /\ cleared \subseteq Tests

Init ==
    /\ row = [t \in Tests |-> [text |-> 1, script |-> 1]]
    /\ disk = [f \in Files |-> 1]
    /\ hist = [t \in Tests |-> <<>>]
    /\ last = [t \in Tests |-> 0]
    /\ tx = [c \in Clients |-> None]
    /\ made = 1
    /\ replaced = [t \in Tests |-> {}]
    /\ tangled = {} /\ cleared = {}

\* The tests of file f.
Of(f) == {t \in Tests : FileOf[t] = f}

\* Somebody has a transaction open, or files written, for t.
Busy(t) == \E c \in Clients : tx[c] # None /\ t \in tx[c].on

NoAdds == [t \in Tests |-> <<>>]

\* A transaction of c for the tests ts begins; snapshots of the tests of failed fail.
Open(c, ts, failed) ==
    /\ tx[c] = None
    /\ tangled' = tangled \cup failed \cup {t \in ts : Busy(t)}

-----------------------------------------------------------------------------
(* Snapshots.                                                               *)

\* Mutant: there is no fallback for a missing file.
CanonicalFile(t) == disk[FileOf[t]]

\* Mutant: the copy in the row is taken for the script.
CanonicalCopy(t) == row[t].script

\* _canonical_script: the file, or the copy in the row when there is none.
Canonical(t) == IF disk[FileOf[t]] = None THEN row[t].script ELSE disk[FileOf[t]]

Snapshot(t) == [text |-> row[t].text, script |-> Canonical(t)]

\* Mutant: the fingerprint covers the script only.
SameAsLatestScript(t) == hist[t] # <<>> /\ hist[t][Len(hist[t])].script = Canonical(t)

\* The fingerprint of the row equals that of its latest version, but for the title and
\* the other columns that only a deleted row gets back.
SameAsLatest(t) ==
    /\ hist[t] # <<>>
    /\ LET v == hist[t][Len(hist[t])] IN v.text = row[t].text /\ v.script = Canonical(t)

\* What snapshot_test_cases may add for the tests ts: nothing for a test without a
\* row; nothing for an unchanged one, unless the rest of its row is different; nothing
\* for a test of failed, whose error is logged.
Snapshots(ts, failed) ==
    {adds \in [Tests -> {<<>>} \cup {<<Snapshot(t)>> : t \in {u \in ts : row[u] # None}}] :
        \A t \in Tests :
            IF t \notin ts \/ row[t] = None \/ t \in failed THEN adds[t] = <<>>
            ELSE adds[t] = <<Snapshot(t)>> \/ (adds[t] = <<>> /\ SameAsLatest(t))}

-----------------------------------------------------------------------------
(* Generation.                                                              *)

\* generate_tests writes the files of the tests ts, under a new id.  A file may keep its
\* content: an invalid script is not written, nor is a smaller collection (R142.A), nor
\* one without permission; or be quarantined, renamed to .broken-dryrun.  The rows get
\* the new script whatever became of it.
WriteScripts(c, ts, outcome) ==
    /\ made < MaxGen /\ ts # {}
    /\ Open(c, ts, {})
    /\ made' = made + 1
    /\ disk' = [f \in Files |->
                  IF f \notin DOMAIN outcome THEN disk[f]
                  ELSE CASE outcome[f] = "written" -> made + 1
                         [] outcome[f] = "quarantined" -> None
                         [] outcome[f] = "kept" -> disk[f]]
    /\ tx' = [tx EXCEPT ![c] =
                [kind |-> "written", on |-> ts, todo |-> {},
                 rows |-> [t \in Tests |-> IF t \in ts THEN [text |-> made + 1, script |-> made + 1] ELSE None],
                 adds |-> NoAdds]]
    /\ UNCHANGED <<row, hist, last, replaced, cleared>>

\* _persist_tests_to_db opens its transaction and snapshots the rows.
PersistBegin(c, failed) ==
    /\ tx[c] # None /\ tx[c].kind = "written"
    /\ failed \subseteq tx[c].on
    /\ \E adds \in Snapshots(tx[c].on, failed) :
          tx' = [tx EXCEPT ![c] = [@ EXCEPT !.kind = "persist", !.adds = adds]]
    /\ tangled' = tangled \cup failed
    /\ UNCHANGED <<row, disk, hist, last, made, replaced, cleared>>

\* The source gate has judged the tests, persisted or not, and merges its verdicts into
\* the metadata of those of ts, in a transaction of its own and without a snapshot.
Stamp(c, ts) ==
    /\ tx[c] # None /\ tx[c].kind = "gate"
    /\ ts \subseteq tx[c].on
    /\ IF ts = {} THEN UNCHANGED <<made, row>>
       ELSE /\ made < MaxGen /\ made' = made + 1
            /\ row' = [t \in Tests |-> IF t \in ts /\ row[t] # None
                                      THEN [row[t] EXCEPT !.text = made + 1] ELSE row[t]]
    /\ tx' = [tx EXCEPT ![c] = None]
    /\ UNCHANGED <<disk, hist, last, histVars>>

\* A forced generate-all snapshots and deletes the rows of the requirement.
ClearBegin(c, failed) ==
    /\ Open(c, Tests, failed)
    /\ \E adds \in Snapshots(Tests, failed) :
          tx' = [tx EXCEPT ![c] = [kind |-> "clear", on |-> Tests, todo |-> {},
                                   rows |-> [t \in Tests |-> None], adds |-> adds]]
    /\ UNCHANGED <<row, disk, hist, last, made, replaced, cleared>>

\* After the transaction of a clear, also a failed one, files are renamed to .r215.bak;
\* those of the other tools stay.
Rename(c) ==
    disk' = [f \in Files |-> IF tx[c].kind = "clear" /\ f \in Renamed THEN None ELSE disk[f]]

-----------------------------------------------------------------------------
(* Going back.                                                              *)

\* The file of t gets its script, unless the write fails.
Restored(t, version, wrote) == [disk EXCEPT ![FileOf[t]] = IF wrote THEN version.script ELSE @]

\* apply_version_to_test_case in the transaction open of c: snapshot the row of t, if
\* there is one and the snapshot does not fail, bring the row back or into being, write
\* the file, unless that fails, and record the new version.
Apply(c, open, t, failed, wrote) ==
    /\ disk' = Restored(t, open.rows[t], wrote)
    /\ tx' = [tx EXCEPT ![c] = [open EXCEPT !.todo = @ \ {t}, !.adds = [@ EXCEPT ![t] =
                (IF row[t] = None \/ failed THEN <<>> ELSE <<Snapshot(t)>>) \o <<open.rows[t]>>]]]
    /\ UNCHANGED <<row, hist, last, made, replaced, cleared>>

\* revert_to_version, and rollback_test with a version or a trace id.
Revert(c, t, i, failed, wrote) ==
    /\ i \in 1..Len(hist[t])
    /\ Open(c, {t}, IF failed THEN {t} ELSE {})
    /\ Apply(c, [kind |-> "revert", on |-> {t}, todo |-> {t}, adds |-> NoAdds,
                 rows |-> [u \in Tests |-> IF u = t THEN hist[t][i] ELSE None]], t, failed, wrote)

\* rollback_test without a version: the latest but one.
Rollback(c, t, failed, wrote) == Len(hist[t]) > 1 /\ Revert(c, t, Len(hist[t]) - 1, failed, wrote)

\* restore_previous_generation finds the tests that have a version in the latest batch,
RestoreBegin(c) ==
    LET ts == {t \in Tests : last[t] # 0}
    IN  /\ ts # {}
        /\ Open(c, ts, {})
        /\ tx' = [tx EXCEPT ![c] =
                    [kind |-> "restore", on |-> ts, todo |-> ts, adds |-> NoAdds,
                     rows |-> [t \in Tests |-> IF t \in ts THEN hist[t][last[t]] ELSE None]]]
        /\ UNCHANGED <<row, disk, hist, last, made, replaced, cleared>>

\* t is the one it comes to next,
Turn(c, t) == tx[c] # None /\ t \in tx[c].todo /\ \A u \in tx[c].todo : t <= u

\* and reverts one after the other,
RestoreOne(c, t, failed, wrote) ==
    /\ Turn(c, t)
    /\ tangled' = IF failed THEN tangled \cup {t} ELSE tangled
    /\ Apply(c, tx[c], t, failed, wrote)

\* or skips: an error rolls back to the savepoint of t, but its file may be written.
RestoreSkip(c, t, wrote) ==
    /\ Turn(c, t)
    /\ disk' = Restored(t, tx[c].rows[t], wrote)
    /\ LET open == tx[c] IN tx' = [tx EXCEPT ![c] = [open EXCEPT !.on = @ \ {t}, !.todo = @ \ {t}]]
    /\ tangled' = tangled \cup {t}
    /\ UNCHANGED <<row, hist, last, made, replaced, cleared>>

-----------------------------------------------------------------------------
(* The end of a transaction.                                                *)

\* c is done with its transaction; a generation goes on to the gate.
Done(c) ==
    tx' = [tx EXCEPT ![c] = IF @.kind = "persist" THEN [@ EXCEPT !.kind = "gate", !.adds = NoAdds] ELSE None]

Commit(c) ==
    /\ tx[c] # None /\ tx[c].kind \notin {"written", "gate"} /\ tx[c].todo = {}
    /\ LET on == tx[c].on
       IN  /\ \A t \in on : Len(hist[t]) + Len(tx[c].adds[t]) <= MaxVersions
           /\ row' = [t \in Tests |-> IF t \in on THEN tx[c].rows[t] ELSE row[t]]
           /\ hist' = [t \in Tests |-> IF t \in on THEN hist[t] \o tx[c].adds[t] ELSE hist[t]]
           /\ replaced' = [t \in Tests |-> IF t \in on /\ row[t] # None THEN replaced[t] \cup {row[t].text} ELSE replaced[t]]
    /\ last' = IF tx[c].kind \in {"persist", "clear"} /\ \E t \in Tests : tx[c].adds[t] # <<>>
               THEN [t \in Tests |-> IF tx[c].adds[t] = <<>> THEN 0 ELSE Len(hist[t]) + 1]
               ELSE last
    /\ cleared' = IF tx[c].kind = "clear" THEN {t \in Tests : row[t] # None} ELSE {}
    /\ Rename(c)
    /\ Done(c)
    /\ UNCHANGED <<made, tangled>>

\* The database fails, a persist three times; or the generation raises before it.
Abort(c) ==
    /\ tx[c] # None /\ tx[c].kind # "gate"
    /\ tangled' = tangled \cup tx[c].on
    /\ Rename(c)
    /\ Done(c)
    /\ UNCHANGED <<row, hist, last, made, replaced, cleared>>

\* A heal is approved or the file edited: the rows and their copies stay.
EditFile(f) ==
    /\ disk[f] # None /\ made < MaxGen
    /\ made' = made + 1
    /\ disk' = [disk EXCEPT ![f] = made + 1]
    /\ tangled' = tangled \cup {t \in Of(f) : Busy(t)}
    /\ UNCHANGED <<row, hist, last, tx, replaced, cleared>>

-----------------------------------------------------------------------------
Next ==
    \/ \E c \in Clients :
          \/ \E ts \in SUBSET Tests :
                \/ \E outcome \in [{FileOf[t] : t \in ts} -> {"written", "kept", "quarantined"}] :
                      WriteScripts(c, ts, outcome)
                \/ PersistBegin(c, ts) \/ ClearBegin(c, ts) \/ Stamp(c, ts)
          \/ RestoreBegin(c)
          \/ \E t \in Tests, failed, wrote \in BOOLEAN :
                \/ Rollback(c, t, failed, wrote)
                \/ \E i \in 1..MaxVersions : Revert(c, t, i, failed, wrote)
                \/ RestoreOne(c, t, failed, wrote)
                \/ RestoreSkip(c, t, wrote)
          \/ Commit(c) \/ Abort(c)
    \/ \E f \in Files : EditFile(f)

Spec == Init /\ [][Next]_vars

-----------------------------------------------------------------------------
(* Properties.                                                              *)

\* A text that an upsert, a forced clear or a way back replaced is in the version
\* history, unless writers of the test overlapped or a snapshot or write of it failed
\* (tests_versions.py:71-78: a gate on gherkin and script only would skip changes).  The
\* metadata that the source gate replaces without a snapshot is not claimed to be.
TextsKept ==
    \A t \in Tests \ tangled : \A text \in replaced[t] :
        \E i \in 1..Len(hist[t]) : hist[t][i].text = text

HasScript(versions, script) == \E i \in 1..Len(versions) : versions[i].script = script

\* A script that a revert, rollback, restore or forced clear takes out of a file is in
\* the history of one of its tests or on its way there with an open transaction,
\* provided all its tests have rows, their writers did not overlap and nothing of them
\* failed (tests_versions.py:178-180: "snapshot the CURRENT row first (pre_revert) so
\* the revert is itself undoable").
ScriptsTakenAreKept ==
    [][\A f \in Files :
          (/\ disk[f] # None /\ disk'[f] # disk[f] /\ made' = made
           /\ \A t \in Of(f) : row[t] # None /\ t \notin tangled')
              => \E t \in Of(f) :
                    \/ HasScript(hist'[t], disk[f])
                    \/ \E c \in Clients : tx'[c] # None /\ t \in tx'[c].on /\ HasScript(tx'[c].adds[t], disk[f])]_vars

\* "Atomic + REVERSIBLE restore of a test case": the same without asking for rows.  The
\* code violates it: bringing a deleted test back overwrites the file its siblings share
\* and, there being no row, snapshots nothing.
ScriptsTakenReversibly ==
    [][\A f \in Files :
          (/\ disk[f] # None /\ disk'[f] # disk[f] /\ made' = made
           /\ \A t \in Of(f) : t \notin tangled')
              => \E t \in Of(f) :
                    \/ HasScript(hist'[t], disk[f])
                    \/ \E c \in Clients : tx'[c] # None /\ t \in tx'[c].on /\ HasScript(tx'[c].adds[t], disk[f])]_vars

\* c commits what a generation made.
Persists(c) == tx[c] # None /\ tx[c].kind = "persist" /\ tx'[c].kind = "gate"

\* "downstream stages (Fix FF dry-run, _save_tests_json) see the preserved version"
\* (tests.py:4616-4618).  The code violates it: a script that was not written to the
\* file gets into the row, although nothing failed or overlapped.
RowsSeeFile ==
    [][\A c \in Clients : Persists(c) => \A t \in tx[c].on \ tangled' :
          disk[FileOf[t]] # None => row'[t].script = disk[FileOf[t]]]_vars

\* "so a (force or non-force) sync regen no longer destroys the prior gen"
\* (tests.py:4917-4918).  The code violates it for the script: the file is overwritten
\* before the snapshot reads it.
ScriptsKept ==
    [][\A c \in Clients : Persists(c) => \A t \in tx[c].on \ tangled' :
          row[t] # None => HasScript(hist'[t], row[t].script)]_vars

\* "restore EVERY test case of a requirement to the state captured just before the LAST
\* force-regen" (tests_versions.py:529-530), when nothing has been generated since.  The
\* code violates it: the snapshot of an unchanged test is skipped, and then it is not
\* part of the batch.
RestoreUndoesForce ==
    [][\A c \in Clients :
          (/\ tx[c] # None /\ tx[c].kind = "restore" /\ tx'[c] = None
           /\ tangled' = {})
              => \A t \in cleared : row'[t] # None]_vars
=============================================================================
