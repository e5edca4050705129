------------------------ MODULE ScriptVersions_proofs ------------------------
(***************************************************************************)
(* Type correctness of ScriptVersions, and what its history holds of texts *)
(* and scripts whose writers did not overlap or fail, for any tests, files,*)
(* clients and bounds.                                                     *)
(*                                                                         *)
(* The invariant, Inv, says of a transaction that it is the only one on an *)
(* untangled test (OneWriter), that the history holds the text it is about *)
(* to replace, or will with it (Backed), and the script of a file it is    *)
(* about to rename (ClearDue).                                             *)
(***************************************************************************)
EXTENDS ScriptVersions, SequenceTheorems, TLAPS

OptRow == Row \cup {None}
Adds == [Tests -> Seq(Row)]

\* Client c has an open transaction, or written files, for t.
Works(c, t) == tx[c] # None /\ t \in tx[c].on

\* What the types do not say of a transaction.
Shaped(x) ==
    /\ x.todo \subseteq x.on /\ (x.kind # "restore" => x.todo = {})
    /\ \A t \in Tests : t \notin x.on \/ t \in x.todo => x.adds[t] = <<>>
    /\ x.kind = "clear" => x.on = Tests /\ \A t \in Tests : x.rows[t] = None
    /\ x.kind = "restore" => \A t \in x.on : x.rows[t] \in Row

Typed ==
    /\ TypeOK
    /\ \A c \in Clients : tx[c] # None => Shaped(tx[c])
    /\ \A t \in Tests : last[t] <= Len(hist[t])

Has(versions, text) == \E i \in 1..Len(versions) : versions[i].text = text

OneWriter == \A t \in Tests \ tangled, c, d \in Clients : Works(c, t) /\ Works(d, t) => c = d

\* The text that transaction x replaces is in the history, or comes into it.
BacksText(x, t) ==
    x.kind \notin {"written", "gate"} /\ t \notin x.todo /\ row[t] # None =>
        Has(hist[t], row[t].text) \/ Has(x.adds[t], row[t].text)

Backed == \A t \in Tests \ tangled, c \in Clients : Works(c, t) => BacksText(tx[c], t)

\* File f is not the business of overlapping or failing writers.
Calm(f) == \A t \in Of(f) : t \notin tangled

\* The script of file f is in the history, or comes into it with transaction x.
HoldsScript(x, f) ==
    disk[f] # None => \A t \in Of(f) : row[t] # None =>
        HasScript(hist[t], disk[f]) \/ HasScript(x.adds[t], disk[f])

ClearDue ==
    \A f \in Files, c \in Clients :
        Calm(f) /\ tx[c] # None /\ tx[c].kind = "clear" => HoldsScript(tx[c], f)

Inv == Typed /\ OneWriter /\ Backed /\ TextsKept /\ ClearDue

\* What ScriptsTakenAreKept says of a step.
Kept ==
    \A f \in Files :
       (/\ disk[f] # None /\ disk'[f] # disk[f] /\ made' = made
        /\ \A t \in Of(f) : row[t] # None /\ t \notin tangled')
           => \E t \in Of(f) :
                 \/ HasScript(hist'[t], disk[f])
                 \/ \E c \in Clients : tx'[c] # None /\ t \in tx'[c].on /\ HasScript(tx'[c].adds[t], disk[f])

-----------------------------------------------------------------------------
(* Files, versions and snapshots                                             *)

\* Every test has a file, and every file a test.
LEMMA FileFacts ==
    /\ \A t \in Tests : FileOf[t] \in Files /\ t \in Of(FileOf[t])
    /\ \A f \in Files : Of(f) # {} /\ Of(f) \subseteq Tests
    /\ \A f \in Files : \A t \in Of(f) : FileOf[t] = f
  BY FilesAssumption DEF Of

\* An open transaction has the type of one.
LEMMA TxFacts ==
    ASSUME TypeOK, NEW c \in Clients, tx[c] # None
    PROVE  /\ tx[c] \in Tx /\ tx[c].kind \in Kinds /\ tx[c].on \subseteq Tests
           /\ tx[c].rows \in [Tests -> OptRow] /\ tx[c].adds \in Adds
  BY DEF TypeOK, Tx, OptRow, Adds

\* Fields of the right types make a transaction, which is not None.
LEMMA NewTx ==
    ASSUME NEW kind \in Kinds, NEW on \in SUBSET Tests, NEW todo \in SUBSET Tests,
           NEW rows \in [Tests -> OptRow], NEW adds \in Adds
    PROVE  [kind |-> kind, on |-> on, todo |-> todo, rows |-> rows, adds |-> adds] \in Tx
  BY DEF Tx, OptRow, Adds

\* A snapshot of a row is a version with the row's text.
LEMMA SnapshotType ==
    ASSUME TypeOK, NEW t \in Tests, row[t] # None
    PROVE  Snapshot(t) \in Row /\ Snapshot(t).text = row[t].text /\ Snapshot(t).script = Canonical(t)
<1>1. row[t] \in Row
  BY DEF TypeOK
<1>2. Canonical(t) \in Ids
  BY <1>1, FileFacts DEF Canonical, TypeOK, Row
<1> QED BY <1>1, <1>2 DEF Snapshot, Row

\* One record makes a sequence, and so does none.
LEMMA ShortSeqs ==
    ASSUME NEW r \in Row
    PROVE  <<r>> \in Seq(Row) /\ Len(<<r>>) = 1 /\ <<r>>[1] = r
  OBVIOUS

\* The snapshots of tests are versions, for those tests only.
LEMMA SnapshotsType ==
    ASSUME TypeOK, NEW ts \in SUBSET Tests, NEW failed, NEW adds \in Snapshots(ts, failed)
    PROVE  adds \in Adds /\ \A t \in Tests \ ts : adds[t] = <<>>
<1>1. adds \in [Tests -> {<<>>} \cup {<<Snapshot(t)>> : t \in {u \in ts : row[u] # None}}]
  BY DEF Snapshots
<1>2. \A t \in Tests \ ts : adds[t] = <<>>
  BY DEF Snapshots
<1>3. {<<>>} \cup {<<Snapshot(t)>> : t \in {u \in ts : row[u] # None}} \subseteq Seq(Row)
  <2>1. \A t \in {u \in ts : row[u] # None} : <<Snapshot(t)>> \in Seq(Row)
    BY SnapshotType, ShortSeqs
  <2>2. <<>> \in Seq(Row)
    BY EmptySeq
  <2> QED BY <2>1, <2>2, Zenon
<1> QED BY <1>1, <1>2, <1>3 DEF Adds

\* A version followed by another is a history that begins with the first.
LEMMA PairSeq ==
    ASSUME NEW s \in Seq(Row), Len(s) = 1, NEW u \in Seq(Row), Len(u) = 1
    PROVE  s \o u \in Seq(Row) /\ Len(s \o u) = 2 /\ (s \o u)[1] = s[1]
<1>1. /\ s \o u \in Seq(Row) /\ Len(s \o u) = Len(s) + Len(u)
      /\ \A i \in 1..(Len(s) + Len(u)) : (s \o u)[i] = IF i <= Len(s) THEN s[i] ELSE u[i - Len(s)]
  BY ConcatProperties
<1> QED BY <1>1

\* Nothing is lost when versions are appended.
LEMMA ConcatKeeps ==
    ASSUME NEW u \in Seq(Row), NEW v \in Seq(Row)
    PROVE  /\ \A i \in 1..Len(u) : \E k \in 1..Len(u \o v) : (u \o v)[k] = u[i]
           /\ \A i \in 1..Len(v) : \E k \in 1..Len(u \o v) : (u \o v)[k] = v[i]
<1>1. /\ Len(u) \in Nat /\ Len(v) \in Nat /\ Len(u \o v) = Len(u) + Len(v)
      /\ \A i \in 1..(Len(u) + Len(v)) : (u \o v)[i] = IF i <= Len(u) THEN u[i] ELSE v[i - Len(u)]
  BY ConcatProperties, LenProperties
<1> DEFINE w == u \o v
<1> HIDE DEF w
<1>2. ASSUME NEW i \in 1..Len(u) PROVE \E k \in 1..Len(w) : w[k] = u[i]
  <2>1. i \in 1..Len(w) /\ w[i] = u[i]
    BY <1>1 DEF w
  <2> QED BY <2>1
<1>3. ASSUME NEW i \in 1..Len(v) PROVE \E k \in 1..Len(w) : w[k] = v[i]
  <2> DEFINE k == i + Len(u)
  <2>1. k \in 1..Len(w) /\ k > Len(u) /\ k - Len(u) = i
    BY <1>1 DEF w
  <2>2. w[k] = v[i]
    BY <1>1, <2>1 DEF w
  <2> HIDE DEF k
  <2> QED BY <2>1, <2>2
<1> QED BY <1>2, <1>3 DEF w

\* A text of either part is one of the whole.
LEMMA HasConcat ==
    ASSUME NEW u \in Seq(Row), NEW v \in Seq(Row), NEW text, Has(u, text) \/ Has(v, text)
    PROVE  Has(u \o v, text)
<1> DEFINE w == u \o v
<1>1. /\ \A i \in 1..Len(u) : \E k \in 1..Len(w) : w[k] = u[i]
      /\ \A i \in 1..Len(v) : \E k \in 1..Len(w) : w[k] = v[i]
  BY ConcatKeeps
<1> HIDE DEF w
<1>2. Has(w, text)
  BY <1>1 DEF Has
<1> QED BY <1>2 DEF w

\* The first version is one.
LEMMA HasFirst ==
    ASSUME NEW u \in Seq(Row), 1 \in DOMAIN u, NEW text, u[1].text = text
    PROVE  Has(u, text)
  BY LenProperties DEF Has

\* So is a script.
LEMMA HasScriptConcat ==
    ASSUME NEW u \in Seq(Row), NEW v \in Seq(Row), NEW script, HasScript(u, script) \/ HasScript(v, script)
    PROVE  HasScript(u \o v, script)
<1> DEFINE w == u \o v
<1>1. /\ \A i \in 1..Len(u) : \E k \in 1..Len(w) : w[k] = u[i]
      /\ \A i \in 1..Len(v) : \E k \in 1..Len(w) : w[k] = v[i]
  BY ConcatKeeps
<1> HIDE DEF w
<1>2. HasScript(w, script)
  BY <1>1 DEF HasScript
<1> QED BY <1>2 DEF w

\* A snapshot that did not fail leaves the text of the row in the history.
LEMMA SnapshotsBack ==
    ASSUME Typed, NEW ts \in SUBSET Tests, NEW failed, NEW adds \in Snapshots(ts, failed),
           NEW t \in ts \ failed, row[t] # None
    PROVE  Has(hist[t], row[t].text) \/ Has(adds[t], row[t].text)
<1>1. adds[t] = <<Snapshot(t)>> \/ SameAsLatest(t)
  BY DEF Snapshots
<1>2. CASE adds[t] = <<Snapshot(t)>>
  <2>1. Snapshot(t) \in Row /\ Snapshot(t).text = row[t].text
    BY SnapshotType DEF Typed
  <2>2. <<Snapshot(t)>> \in Seq(Row) /\ Len(<<Snapshot(t)>>) = 1 /\ <<Snapshot(t)>>[1] = Snapshot(t)
    BY <2>1, ShortSeqs
  <2> QED BY <1>2, <2>1, <2>2 DEF Has
<1>3. CASE SameAsLatest(t)
  <2>1. hist[t] \in Seq(Row) /\ hist[t] # <<>> /\ hist[t][Len(hist[t])].text = row[t].text
    BY <1>3 DEF SameAsLatest, Typed, TypeOK
  <2>2. Len(hist[t]) \in 1..Len(hist[t])
    BY <2>1, LenProperties, EmptySeq
  <2> QED BY <2>1, <2>2 DEF Has
<1> QED BY <1>1, <1>2, <1>3

\* ... and the script of its file.
LEMMA SnapshotsHoldScript ==
    ASSUME Typed, NEW ts \in SUBSET Tests, NEW failed, NEW adds \in Snapshots(ts, failed),
           NEW t \in ts \ failed, row[t] # None, disk[FileOf[t]] # None
    PROVE  HasScript(hist[t], disk[FileOf[t]]) \/ HasScript(adds[t], disk[FileOf[t]])
<1>1. adds[t] = <<Snapshot(t)>> \/ SameAsLatest(t)
  BY DEF Snapshots
<1>2. Canonical(t) = disk[FileOf[t]]
  BY DEF Canonical
<1>3. CASE adds[t] = <<Snapshot(t)>>
  <2>1. Snapshot(t) \in Row /\ Snapshot(t).script = disk[FileOf[t]]
    BY <1>2, SnapshotType DEF Typed
  <2>2. <<Snapshot(t)>> \in Seq(Row) /\ Len(<<Snapshot(t)>>) = 1 /\ <<Snapshot(t)>>[1] = Snapshot(t)
    BY <2>1, ShortSeqs
  <2> QED BY <1>3, <2>1, <2>2 DEF HasScript
<1>4. CASE SameAsLatest(t)
  <2>1. hist[t] \in Seq(Row) /\ hist[t] # <<>> /\ hist[t][Len(hist[t])].script = disk[FileOf[t]]
    BY <1>2, <1>4 DEF SameAsLatest, Typed, TypeOK
  <2>2. Len(hist[t]) \in 1..Len(hist[t])
    BY <2>1, LenProperties, EmptySeq
  <2> QED BY <2>1, <2>2 DEF HasScript
<1> QED BY <1>1, <1>3, <1>4

\* Whatever is brought back is a version of the test.
LEMMA TargetsAreRows ==
    ASSUME Typed
    PROVE  /\ \A t \in Tests, i \in Nat : i \in 1..Len(hist[t]) => hist[t][i] \in Row
           /\ \A t \in Tests : last[t] # 0 => hist[t][last[t]] \in Row
<1>1. ASSUME NEW t \in Tests
      PROVE  hist[t] \in Seq(Row) /\ last[t] \in Nat /\ last[t] <= Len(hist[t]) /\ Len(hist[t]) \in Nat
  BY LenProperties DEF Typed, TypeOK
<1>2. ASSUME NEW t \in Tests, NEW i \in 1..Len(hist[t]) PROVE hist[t][i] \in Row
  BY <1>1, ElementOfSeq
<1>3. \A t \in Tests : last[t] # 0 => last[t] \in 1..Len(hist[t])
  BY <1>1
<1> QED BY <1>2, <1>3

-----------------------------------------------------------------------------
(* A transaction begins or goes on                                           *)

\* Client c's transaction is now new, and no row or version has changed.
Proceeds(c, new) ==
    /\ tx' = [tx EXCEPT ![c] = new] /\ Shaped(new)
    /\ UNCHANGED <<row, hist, last, replaced, cleared>>
    /\ tangled \subseteq tangled' /\ tangled' \subseteq Tests
    /\ made' \in Ids /\ disk' \in [Files -> Ids \cup {None}]
    /\ \A t \in new.on \ tangled' : BacksText(new, t) /\ \A d \in Clients \ {c} : ~Works(d, t)
    /\ \A f \in Files : disk'[f] # disk[f] =>
          /\ new.kind # "clear" /\ \E t \in Of(f) : t \in new.on \cup tangled'
          /\ (/\ disk[f] # None /\ made' = made
              /\ \A t \in Of(f) : row[t] # None /\ t \notin tangled')
                => \E t \in Of(f) : t \in new.on /\ HasScript(new.adds[t], disk[f])
    /\ new.kind = "clear" => \A f \in Files : (\A t \in Of(f) : t \notin tangled') => HoldsScript(new, f)

\* Somebody is busy with a test when some client works on it.
LEMMA BusyWorks == \A t : Busy(t) <=> \E c \in Clients : Works(c, t)
  BY DEF Busy, Works

\* To begin a transaction tangles its tests that are busy, or whose snapshot fails.
LEMMA OpenTangles ==
    ASSUME TypeOK, NEW c \in Clients, NEW ts \in SUBSET Tests, NEW failed \in SUBSET Tests, Open(c, ts, failed)
    PROVE  /\ tx[c] = None /\ tangled \subseteq tangled' /\ tangled' \subseteq Tests
           /\ \A t \in ts \ tangled' : t \notin failed /\ \A d \in Clients : ~Works(d, t)
  BY BusyWorks DEF Open, TypeOK

\* Such a step keeps the invariant and takes no script that is not kept.
LEMMA ProceedsInv ==
    ASSUME Inv, NEW c \in Clients, NEW new \in Tx, Proceeds(c, new)
    PROVE  Inv' /\ Kept
<1>1. /\ tx' \in [Clients -> Tx \cup {None}] /\ tx'[c] = new /\ \A d \in Clients \ {c} : tx'[d] = tx[d]
      /\ new # None
  BY NoneAssumption DEF Proceeds, Inv, Typed, TypeOK
<1>2. /\ UNCHANGED <<row, hist, last, replaced, cleared>> /\ Shaped(new)
      /\ tangled \subseteq tangled' /\ tangled' \subseteq Tests
      /\ made' \in Ids /\ disk' \in [Files -> Ids \cup {None}]
      /\ \A t \in new.on \ tangled' : BacksText(new, t) /\ \A d \in Clients \ {c} : ~Works(d, t)
  BY DEF Proceeds
<1>3. Typed'
  <2>1. TypeOK'
    BY <1>1, <1>2 DEF Inv, Typed, TypeOK
  <2>2. \A d \in Clients : tx'[d] # None => Shaped(tx[d])'
    <3>1. \A d \in Clients : tx'[d] # None => Shaped(tx'[d])
      BY <1>1, <1>2 DEF Inv, Typed
    <3> QED BY <3>1 DEF Shaped
  <2>3. \A t \in Tests : last'[t] <= Len(hist'[t])
    BY <1>2 DEF Inv, Typed
  <2> QED BY <2>1, <2>2, <2>3 DEF Typed
<1>4. ASSUME NEW t \in Tests \ tangled', NEW d \in Clients, Works(d, t)'
      PROVE  /\ t \in Tests \ tangled
             /\ IF d = c THEN t \in new.on ELSE Works(d, t) /\ tx'[d] = tx[d] /\ t \notin new.on
  BY <1>1, <1>2, <1>4 DEF Works
<1>5. OneWriter'
  BY <1>4 DEF OneWriter, Inv
<1>6. Backed'
  <2> SUFFICES ASSUME NEW t \in Tests \ tangled', NEW d \in Clients, Works(d, t)'
               PROVE  BacksText(tx[d], t)'
    BY DEF Backed
  <2>1. BacksText(tx'[d], t)
    BY <1>1, <1>2, <1>4 DEF Inv, Backed
  <2> QED BY <1>2, <2>1 DEF BacksText
<1>7. TextsKept'
  BY <1>2 DEF Inv, TextsKept
<1>8. ClearDue'
  <2> SUFFICES ASSUME NEW f \in Files, NEW d \in Clients, \A t \in Of(f) : t \notin tangled',
                      tx'[d] # None, tx'[d].kind = "clear"
               PROVE  HoldsScript(tx[d], f)'
    BY DEF ClearDue, Calm, Of
  <2>1. HoldsScript(tx'[d], f) /\ disk'[f] = disk[f]
    <3>1. CASE d = c
      BY <1>1, <3>1 DEF Proceeds
    <3>2. CASE d # c
      <4>1. tx'[d] = tx[d] /\ tx[d].on = Tests
        BY <1>1, <3>2 DEF Inv, Typed, Shaped
      <4>2. \A t \in Of(f) : Works(d, t) /\ t \notin new.on
        BY <1>1, <1>2, <3>2, <4>1, FileFacts DEF Works
      <4>3. disk'[f] = disk[f]
        BY <4>2 DEF Proceeds
      <4>4. Calm(f)
        BY <1>2 DEF Calm
      <4> QED BY <4>1, <4>3, <4>4 DEF Inv, ClearDue
    <3> QED BY <3>1, <3>2
  <2> QED BY <1>2, <2>1 DEF HoldsScript, Of
<1>9. Kept
  <2> SUFFICES ASSUME NEW f \in Files, disk[f] # None, disk'[f] # disk[f], made' = made,
                      \A t \in Of(f) : row[t] # None /\ t \notin tangled'
               PROVE  \E t \in Of(f) : tx'[c] # None /\ t \in tx'[c].on /\ HasScript(tx'[c].adds[t], disk[f])
    BY DEF Kept
  <2>1. \E t \in Of(f) : t \in new.on /\ HasScript(new.adds[t], disk[f])
    BY DEF Proceeds
  <2> QED BY <1>1, <2>1
<1> QED BY <1>3, <1>5, <1>6, <1>7, <1>8, <1>9 DEF Inv

\* A generation's files are new: it need not keep what it overwrites.
LEMMA WriteScriptsProceeds ==
    ASSUME Inv, NEW c \in Clients, NEW ts \in SUBSET Tests,
           NEW outcome \in [{FileOf[t] : t \in ts} -> {"written", "kept", "quarantined"}],
           WriteScripts(c, ts, outcome)
    PROVE  \E new \in Tx : Proceeds(c, new)
<1> DEFINE rows == [t \in Tests |-> IF t \in ts THEN [text |-> made + 1, script |-> made + 1] ELSE None]
           new == [kind |-> "written", on |-> ts, todo |-> {}, rows |-> rows, adds |-> NoAdds]
<1>1. /\ made' = made + 1 /\ made' \in Ids /\ made' # made /\ tx' = [tx EXCEPT ![c] = new]
      /\ UNCHANGED <<row, hist, last, replaced, cleared>>
  BY BoundsAssumption DEF WriteScripts, Inv, Typed, TypeOK, Ids
<1>2. rows \in [Tests -> OptRow]
  BY <1>1 DEF OptRow, Row
<1>3. NoAdds \in Adds /\ \A t \in Tests : NoAdds[t] = <<>>
  BY EmptySeq DEF NoAdds, Adds
<1>4. new \in Tx
  <2> HIDE DEF rows
  <2> QED BY <1>2, <1>3, NewTx DEF Kinds
<1>5. Shaped(new)
  BY <1>3 DEF Shaped
<1>6. disk' \in [Files -> Ids \cup {None}] /\ \A f \in Files : disk'[f] # disk[f] => \E t \in ts : FileOf[t] = f
  <2>1. disk' = [f \in Files |-> IF f \notin DOMAIN outcome THEN disk[f]
                                 ELSE CASE outcome[f] = "written" -> made + 1
                                        [] outcome[f] = "quarantined" -> None
                                        [] outcome[f] = "kept" -> disk[f]]
    BY DEF WriteScripts
  <2>2. DOMAIN outcome = {FileOf[t] : t \in ts} /\ \A f \in DOMAIN outcome : outcome[f] \in {"written", "kept", "quarantined"}
    OBVIOUS
  <2>3. \A f \in Files : disk[f] \in Ids \cup {None}
    BY DEF Inv, Typed, TypeOK
  <2>4. \A f \in Files : (disk'[f] \in Ids \cup {None}) /\ (f \notin DOMAIN outcome => disk'[f] = disk[f])
    BY <1>1, <2>1, <2>2, <2>3
  <2> QED BY <2>1, <2>2, <2>4
<1>7. \A f \in Files : disk'[f] # disk[f] => \E t \in Of(f) : t \in ts
  BY <1>6, FileFacts DEF Of
<1>8. /\ tangled \subseteq tangled' /\ tangled' \subseteq Tests
      /\ \A t \in ts \ tangled' : \A d \in Clients : ~Works(d, t)
  BY OpenTangles DEF WriteScripts, Inv, Typed
<1>9. new.kind = "written" /\ new.on = ts
  OBVIOUS
<1> HIDE DEF new
<1>10. Proceeds(c, new)
  BY <1>1, <1>5, <1>6, <1>7, <1>8, <1>9 DEF Proceeds, BacksText
<1> QED BY <1>4, <1>10

\* The snapshots of a persist hold the texts that it replaces.
LEMMA PersistProceeds ==
    ASSUME Inv, NEW c \in Clients, NEW failed \in SUBSET Tests, PersistBegin(c, failed)
    PROVE  \E new \in Tx : Proceeds(c, new)
<1>1. PICK adds \in Snapshots(tx[c].on, failed) : tx' = [tx EXCEPT ![c] = [@ EXCEPT !.kind = "persist", !.adds = adds]]
  BY DEF PersistBegin
<1> DEFINE new == [tx[c] EXCEPT !.kind = "persist", !.adds = adds]
<1>2. /\ tx[c] # None /\ tx[c].kind = "written" /\ tangled' = tangled \cup failed
      /\ UNCHANGED <<row, disk, hist, last, made, replaced, cleared>>
  BY DEF PersistBegin
<1>3. tx[c] \in Tx /\ tx[c].on \subseteq Tests /\ Shaped(tx[c])
  BY <1>2, TxFacts DEF Inv, Typed
<1>4. adds \in Adds /\ \A t \in Tests \ tx[c].on : adds[t] = <<>>
  BY <1>3, SnapshotsType DEF Inv, Typed
<1>5. /\ new \in Tx /\ new.kind = "persist" /\ new.on = tx[c].on /\ new.todo = tx[c].todo /\ new.adds = adds
      /\ tx' = [tx EXCEPT ![c] = new]
  BY <1>1, <1>3, <1>4 DEF Tx, Adds, Kinds, Inv, Typed, TypeOK
<1>6. new.todo = {}
  BY <1>2, <1>3, <1>5 DEF Shaped
<1> HIDE DEF new
<1>7. Shaped(new)
  BY <1>4, <1>5, <1>6 DEF Shaped
<1>8. ASSUME NEW t \in new.on \ tangled'
      PROVE  BacksText(new, t) /\ \A d \in Clients \ {c} : ~Works(d, t)
  <2>1. t \in Tests \ tangled /\ t \in tx[c].on \ failed /\ Works(c, t)
    BY <1>2, <1>3, <1>5, <1>8 DEF Works
  <2>2. row[t] # None => Has(hist[t], row[t].text) \/ Has(adds[t], row[t].text)
    BY <1>3, <2>1, SnapshotsBack DEF Inv
  <2> QED BY <1>5, <2>1, <2>2 DEF Inv, OneWriter, BacksText
<1>9. Proceeds(c, new)
  BY <1>2, <1>5, <1>7, <1>8 DEF Proceeds, Inv, Typed, TypeOK
<1> QED BY <1>5, <1>9

\* Those of a clear hold the texts and the scripts.
LEMMA ClearProceeds ==
    ASSUME Inv, NEW c \in Clients, NEW failed \in SUBSET Tests, ClearBegin(c, failed)
    PROVE  \E new \in Tx : Proceeds(c, new)
<1> DEFINE rows == [t \in Tests |-> None]
<1>1. PICK adds \in Snapshots(Tests, failed) :
         tx' = [tx EXCEPT ![c] = [kind |-> "clear", on |-> Tests, todo |-> {}, rows |-> rows, adds |-> adds]]
  BY DEF ClearBegin
<1> DEFINE new == [kind |-> "clear", on |-> Tests, todo |-> {}, rows |-> rows, adds |-> adds]
<1>2. UNCHANGED <<row, disk, hist, last, made, replaced, cleared>>
  BY DEF ClearBegin
<1>3. adds \in Adds
  BY SnapshotsType DEF Inv, Typed
<1>4. rows \in [Tests -> OptRow] /\ \A t \in Tests : rows[t] = None
  BY DEF OptRow
<1>5. new \in Tx
  <2> HIDE DEF rows
  <2> QED BY <1>3, <1>4, NewTx DEF Kinds
<1>6. /\ tx' = [tx EXCEPT ![c] = new] /\ new.kind = "clear" /\ new.on = Tests /\ new.todo = {}
      /\ new.adds = adds /\ \A t \in Tests : new.rows[t] = None
  BY <1>1, <1>4
<1> HIDE DEF new, rows
<1>7. Shaped(new)
  BY <1>6 DEF Shaped
<1>8. /\ tangled \subseteq tangled' /\ tangled' \subseteq Tests
      /\ \A t \in Tests \ tangled' : t \notin failed /\ \A d \in Clients : ~Works(d, t)
  BY OpenTangles DEF ClearBegin, Inv, Typed
<1>9. ASSUME NEW t \in new.on \ tangled'
      PROVE  BacksText(new, t) /\ \A d \in Clients \ {c} : ~Works(d, t)
  <2>1. row[t] # None => Has(hist[t], row[t].text) \/ Has(adds[t], row[t].text)
    BY <1>6, <1>8, <1>9, SnapshotsBack DEF Inv
  <2> QED BY <1>6, <1>8, <1>9, <2>1 DEF BacksText
<1>10. ASSUME NEW f \in Files, \A t \in Of(f) : t \notin tangled'
       PROVE  HoldsScript(new, f)
  <2>1. ASSUME NEW t \in Of(f), row[t] # None, disk[f] # None
        PROVE  HasScript(hist[t], disk[f]) \/ HasScript(adds[t], disk[f])
    <3>1. t \in Tests \ failed /\ FileOf[t] = f
      BY <1>8, <1>10, FileFacts
    <3> QED BY <2>1, <3>1, SnapshotsHoldScript DEF Inv
  <2> QED BY <1>6, <2>1 DEF HoldsScript
<1>11. Proceeds(c, new)
  BY <1>2, <1>6, <1>7, <1>8, <1>9, <1>10 DEF Proceeds, Inv, Typed, TypeOK
<1> QED BY <1>5, <1>11

\* What apply_version_to_test_case adds for a test: if there is a row, its text and the
\* script of its file, before the version it brings back.
LEMMA ApplySeq ==
    ASSUME Typed, NEW t \in Tests, NEW target \in Row, NEW failed \in BOOLEAN
    PROVE  LET seq == (IF row[t] = None \/ failed THEN <<>> ELSE <<Snapshot(t)>>) \o <<target>>
           IN  /\ seq \in Seq(Row)
               /\ row[t] # None /\ ~failed => Has(seq, row[t].text) /\ HasScript(seq, Canonical(t))
<1>1. <<target>> \in Seq(Row) /\ Len(<<target>>) = 1
  BY ShortSeqs
<1>2. CASE row[t] = None \/ failed
  <2>1. <<>> \in Seq(Row)
    BY EmptySeq
  <2>2. <<>> \o <<target>> \in Seq(Row)
    BY <1>1, <2>1, ConcatProperties
  <2> QED BY <1>2, <2>2
<1>3. CASE row[t] # None /\ ~failed
  <2> DEFINE s == <<Snapshot(t)>>
             w == s \o <<target>>
  <2>1. Snapshot(t) \in Row /\ Snapshot(t).text = row[t].text /\ Snapshot(t).script = Canonical(t)
    BY <1>3, SnapshotType DEF Typed
  <2>2. s \in Seq(Row) /\ Len(s) = 1 /\ s[1] = Snapshot(t)
    BY <2>1, ShortSeqs
  <2> HIDE DEF s
  <2>3. w \in Seq(Row) /\ Len(w) = 2 /\ w[1] = s[1]
    BY <1>1, <2>2, PairSeq
  <2> HIDE DEF w
  <2>4. Has(w, row[t].text) /\ HasScript(w, Canonical(t))
    BY <2>1, <2>2, <2>3 DEF Has, HasScript
  <2> QED BY <1>3, <2>3, <2>4 DEF w, s
<1> QED BY <1>2, <1>3

\* To bring a version of t back, in a transaction that is open for it.
LEMMA ApplyProceeds ==
    ASSUME Inv, NEW c \in Clients, NEW open \in Tx, NEW t \in open.todo, NEW failed \in BOOLEAN, NEW wrote,
           Apply(c, open, t, failed, wrote),
           open.kind \in {"revert", "restore"}, open.todo \subseteq open.on,
           open.kind = "revert" => open.todo = {t},
           \A u \in Tests : u \notin open.on \/ u \in open.todo => open.adds[u] = <<>>,
           \A u \in open.on : open.rows[u] \in Row,
           tangled \subseteq tangled', tangled' \subseteq Tests, failed => t \in tangled',
           \A u \in open.on \ tangled' :
              /\ \A d \in Clients \ {c} : ~Works(d, u)
              /\ u # t => BacksText(open, u)
    PROVE  \E new \in Tx : Proceeds(c, new)
<1> DEFINE seq == (IF row[t] = None \/ failed THEN <<>> ELSE <<Snapshot(t)>>) \o <<open.rows[t]>>
           new == [open EXCEPT !.todo = @ \ {t}, !.adds = [@ EXCEPT ![t] = seq]]
<1>1. /\ open.on \subseteq Tests /\ open.todo \subseteq Tests /\ t \in Tests /\ t \in open.on
      /\ open.adds \in [Tests -> Seq(Row)] /\ open.rows[t] \in Row /\ FileOf[t] \in Files
  BY FileFacts DEF Tx
<1>2. /\ seq \in Seq(Row)
      /\ row[t] # None /\ ~failed => Has(seq, row[t].text) /\ HasScript(seq, Canonical(t))
  BY <1>1, ApplySeq DEF Inv
<1>3. /\ tx' = [tx EXCEPT ![c] = new] /\ UNCHANGED <<row, hist, last, made, replaced, cleared>>
      /\ disk' = [disk EXCEPT ![FileOf[t]] = IF wrote THEN open.rows[t].script ELSE @]
  BY DEF Apply, Restored
<1> HIDE DEF seq
<1>4. /\ new \in Tx /\ new.kind = open.kind /\ new.on = open.on /\ new.todo = open.todo \ {t}
      /\ new.rows = open.rows /\ new.adds = [open.adds EXCEPT ![t] = seq]
  BY <1>1, <1>2 DEF Tx
<1>5. new.adds[t] = seq /\ \A u \in Tests \ {t} : new.adds[u] = open.adds[u]
  BY <1>1, <1>4
<1> HIDE DEF new
<1>6. Shaped(new)
  BY <1>1, <1>4, <1>5 DEF Shaped
<1>7. /\ disk' \in [Files -> Ids \cup {None}] /\ made' \in Ids
      /\ \A f \in Files : disk'[f] # disk[f] => f = FileOf[t]
  <2>1. open.rows[t].script \in Ids
    BY <1>1 DEF Row
  <2> QED BY <1>1, <1>3, <2>1 DEF Inv, Typed, TypeOK
<1>8. ASSUME NEW u \in new.on \ tangled'
      PROVE  BacksText(new, u) /\ \A d \in Clients \ {c} : ~Works(d, u)
  <2>1. CASE u = t
    BY <1>2, <1>4, <1>5, <1>8, <2>1 DEF BacksText
  <2>2. CASE u # t
    <3>1. u \in Tests
      BY <1>1, <1>4
    <3> QED BY <1>4, <1>5, <1>8, <2>2, <3>1 DEF BacksText
  <2> QED BY <2>1, <2>2
<1>9. ASSUME NEW f \in Files, disk'[f] # disk[f]
      PROVE  /\ new.kind # "clear" /\ \E u \in Of(f) : u \in new.on \cup tangled'
             /\ (/\ disk[f] # None /\ made' = made
                 /\ \A u \in Of(f) : row[u] # None /\ u \notin tangled')
                   => \E u \in Of(f) : u \in new.on /\ HasScript(new.adds[u], disk[f])
  <2>1. f = FileOf[t] /\ t \in Of(f) /\ t \in new.on
    BY <1>1, <1>4, <1>7, <1>9, FileFacts
  <2>2. disk[f] # None => Canonical(t) = disk[f]
    BY <2>1 DEF Canonical
  <2> QED BY <1>2, <1>4, <1>5, <2>1, <2>2
<1>10. new.kind # "clear"
  BY <1>4
<1>11. Proceeds(c, new)
  BY <1>3, <1>6, <1>7, <1>8, <1>9, <1>10 DEF Proceeds
<1> QED BY <1>4, <1>11

\* A revert or rollback is a transaction for one test.
LEMMA RevertProceeds ==
    ASSUME Inv, NEW c \in Clients, NEW t \in Tests, NEW i \in Nat, NEW failed \in BOOLEAN, NEW wrote,
           Revert(c, t, i, failed, wrote)
    PROVE  \E new \in Tx : Proceeds(c, new)
<1> DEFINE rows == [u \in Tests |-> IF u = t THEN hist[t][i] ELSE None]
           open == [kind |-> "revert", on |-> {t}, todo |-> {t}, rows |-> rows, adds |-> NoAdds]
<1>1. i \in 1..Len(hist[t]) /\ Open(c, {t}, IF failed THEN {t} ELSE {})
  BY DEF Revert
<1>2. Apply(c, open, t, failed, wrote)
  BY Zenon DEF Revert
<1>3. hist[t][i] \in Row
  BY <1>1, TargetsAreRows DEF Inv
<1>4. rows \in [Tests -> OptRow] /\ rows[t] \in Row
  BY <1>3 DEF OptRow
<1>5. NoAdds \in Adds /\ \A u \in Tests : NoAdds[u] = <<>>
  BY EmptySeq DEF NoAdds, Adds
<1>6. open \in Tx
  <2> HIDE DEF rows
  <2> QED BY <1>4, <1>5, NewTx DEF Kinds
<1>7. open.kind = "revert" /\ open.on = {t} /\ open.todo = {t} /\ open.rows = rows /\ open.adds = NoAdds
  OBVIOUS
<1>8. /\ tangled \subseteq tangled' /\ tangled' \subseteq Tests
      /\ \A u \in {t} \ tangled' : u \notin (IF failed THEN {t} ELSE {}) /\ \A d \in Clients : ~Works(d, u)
  <2> DEFINE bad == IF failed THEN {t} ELSE {}
  <2>1. bad \in SUBSET Tests /\ {t} \in SUBSET Tests /\ Open(c, {t}, bad) /\ TypeOK
    BY <1>1 DEF Inv, Typed
  <2> HIDE DEF bad
  <2>2. /\ tangled \subseteq tangled' /\ tangled' \subseteq Tests
        /\ \A u \in {t} \ tangled' : u \notin bad /\ \A d \in Clients : ~Works(d, u)
    BY <2>1, OpenTangles
  <2> QED BY <2>2 DEF bad
<1>9. failed => t \in tangled'
  BY <1>8
<1> HIDE DEF open, rows
<1>10. /\ \A u \in Tests : u \notin open.on \/ u \in open.todo => open.adds[u] = <<>>
       /\ \A u \in open.on : open.rows[u] \in Row
       /\ \A u \in open.on \ tangled' : u = t /\ \A d \in Clients \ {c} : ~Works(d, u)
  BY <1>4, <1>5, <1>7, <1>8
<1> QED BY <1>2, <1>6, <1>7, <1>8, <1>9, <1>10, ApplyProceeds

\* A restore begins with all its tests still to come,
LEMMA RestoreBeginProceeds ==
    ASSUME Inv, NEW c \in Clients, RestoreBegin(c)
    PROVE  \E new \in Tx : Proceeds(c, new)
<1> DEFINE ts == {t \in Tests : last[t] # 0}
           rows == [t \in Tests |-> IF t \in ts THEN hist[t][last[t]] ELSE None]
           new == [kind |-> "restore", on |-> ts, todo |-> ts, rows |-> rows, adds |-> NoAdds]
<1>1. /\ Open(c, ts, {}) /\ tx' = [tx EXCEPT ![c] = new]
      /\ UNCHANGED <<row, disk, hist, last, made, replaced, cleared>>
  BY DEF RestoreBegin
<1>2. \A t \in ts : rows[t] \in Row
  BY TargetsAreRows DEF Inv
<1>3. rows \in [Tests -> OptRow]
  BY <1>2 DEF OptRow
<1>4. NoAdds \in Adds /\ \A u \in Tests : NoAdds[u] = <<>>
  BY EmptySeq DEF NoAdds, Adds
<1>5. ts \in SUBSET Tests
  OBVIOUS
<1> HIDE DEF rows, ts
<1>6. new \in Tx
  BY <1>3, <1>4, <1>5, NewTx DEF Kinds
<1>7. /\ new.kind = "restore" /\ new.on = ts /\ new.todo = ts /\ new.rows = rows /\ new.adds = NoAdds
  OBVIOUS
<1>8. /\ tangled \subseteq tangled' /\ tangled' \subseteq Tests
      /\ \A t \in ts \ tangled' : \A d \in Clients : ~Works(d, t)
  BY <1>1, <1>5, OpenTangles DEF Inv, Typed
<1> HIDE DEF new
<1>9. Proceeds(c, new)
  BY <1>1, <1>2, <1>4, <1>7, <1>8 DEF Proceeds, Shaped, BacksText, Inv, Typed, TypeOK
<1> QED BY <1>6, <1>9

\* What is known of a transaction whose turn is t.
LEMMA TurnFacts ==
    ASSUME Inv, NEW c \in Clients, NEW t \in Tests, Turn(c, t)
    PROVE  /\ tx[c] # None /\ tx[c] \in Tx /\ tx[c].kind = "restore" /\ Shaped(tx[c])
           /\ t \in tx[c].todo /\ t \in tx[c].on /\ tx[c].on \subseteq Tests
           /\ \A u \in tx[c].on \ tangled :
                 BacksText(tx[c], u) /\ \A d \in Clients \ {c} : ~Works(d, u)
<1>1. /\ tx[c] # None /\ t \in tx[c].todo /\ tx[c] \in Tx /\ tx[c].on \subseteq Tests /\ Shaped(tx[c])
  BY TxFacts DEF Turn, Inv, Typed
<1>2. tx[c].kind = "restore" /\ t \in tx[c].on
  BY <1>1 DEF Shaped
<1> QED BY <1>1, <1>2 DEF Inv, Backed, OneWriter, Works

\* goes on with one of them,
LEMMA RestoreOneProceeds ==
    ASSUME Inv, NEW c \in Clients, NEW t \in Tests, NEW failed \in BOOLEAN, NEW wrote,
           RestoreOne(c, t, failed, wrote)
    PROVE  \E new \in Tx : Proceeds(c, new)
<1>1. /\ Apply(c, tx[c], t, failed, wrote) /\ Turn(c, t)
      /\ tangled' = IF failed THEN tangled \cup {t} ELSE tangled
  BY DEF RestoreOne
<1>2. tangled \subseteq tangled' /\ tangled' \subseteq Tests /\ (failed => t \in tangled')
  BY <1>1 DEF Inv, Typed, TypeOK
<1>3. \A u \in tx[c].on \ tangled' : BacksText(tx[c], u) /\ \A d \in Clients \ {c} : ~Works(d, u)
  BY <1>1, <1>2, TurnFacts
<1>4. /\ tx[c].todo \subseteq tx[c].on
      /\ \A u \in Tests : u \notin tx[c].on \/ u \in tx[c].todo => tx[c].adds[u] = <<>>
      /\ \A u \in tx[c].on : tx[c].rows[u] \in Row
  BY <1>1, TurnFacts DEF Shaped
<1>5. tx[c] \in Tx /\ tx[c].kind = "restore" /\ t \in tx[c].todo
  BY <1>1, TurnFacts
<1> QED BY <1>1, <1>2, <1>3, <1>4, <1>5, ApplyProceeds

\* or leaves one out.
LEMMA RestoreSkipProceeds ==
    ASSUME Inv, NEW c \in Clients, NEW t \in Tests, NEW wrote, RestoreSkip(c, t, wrote)
    PROVE  \E new \in Tx : Proceeds(c, new)
<1> DEFINE new == [tx[c] EXCEPT !.on = @ \ {t}, !.todo = @ \ {t}]
<1>1. /\ Turn(c, t) /\ tx' = [tx EXCEPT ![c] = new] /\ tangled' = tangled \cup {t}
      /\ disk' = [disk EXCEPT ![FileOf[t]] = IF wrote THEN tx[c].rows[t].script ELSE @]
      /\ UNCHANGED <<row, hist, last, made, replaced, cleared>>
  <2>1. tx \in [Clients -> Tx \cup {None}] /\ tx[c] \in Tx
    BY TurnFacts DEF RestoreSkip, Inv, Typed, TypeOK
  <2>2. tx' = [tx EXCEPT ![c] = new]
    BY <2>1 DEF RestoreSkip, Tx
  <2>3. disk' = [disk EXCEPT ![FileOf[t]] = IF wrote THEN tx[c].rows[t].script ELSE @]
    BY DEF RestoreSkip, Restored
  <2> HIDE DEF new
  <2> QED BY <2>2, <2>3 DEF RestoreSkip
<1>2. /\ tx[c] \in Tx /\ tx[c].kind = "restore" /\ Shaped(tx[c]) /\ tx[c].on \subseteq Tests
      /\ t \in tx[c].todo /\ t \in tx[c].on
      /\ \A u \in tx[c].on \ tangled : BacksText(tx[c], u) /\ \A d \in Clients \ {c} : ~Works(d, u)
  BY <1>1, TurnFacts
<1>3. /\ new \in Tx /\ new.kind = "restore" /\ new.on = tx[c].on \ {t} /\ new.todo = tx[c].todo \ {t}
      /\ new.rows = tx[c].rows /\ new.adds = tx[c].adds
  BY <1>2 DEF Tx
<1> HIDE DEF new
<1>4. Shaped(new)
  BY <1>2, <1>3 DEF Shaped
<1>5. \A u \in new.on \ tangled' : BacksText(new, u) /\ \A d \in Clients \ {c} : ~Works(d, u)
  <2>1. \A u \in new.on \ tangled' : u \in tx[c].on \ tangled /\ u # t
    BY <1>1, <1>3
  <2> QED BY <1>2, <1>3, <2>1 DEF BacksText
<1>6. /\ disk' \in [Files -> Ids \cup {None}] /\ tangled' \subseteq Tests
      /\ \A f \in Files : disk'[f] # disk[f] => t \in Of(f) /\ t \in tangled'
  <2>1. tx[c].rows[t].script \in Ids
    BY <1>2 DEF Shaped, Row
  <2> QED BY <1>1, <2>1, FileFacts DEF Inv, Typed, TypeOK
<1>7. Proceeds(c, new)
  BY <1>1, <1>3, <1>4, <1>5, <1>6 DEF Proceeds, Inv, Typed, TypeOK
<1> QED BY <1>3, <1>7

-----------------------------------------------------------------------------
(* The end of a transaction                                                  *)

\* Client c's transaction is over, or left to the gate.
Ends(c) ==
    /\ tx' \in [Clients -> Tx \cup {None}]
    /\ \A d \in Clients \ {c} : tx'[d] = tx[d]
    /\ tx'[c] # None => /\ Shaped(tx'[c]) /\ tx'[c].kind = "gate" /\ tx'[c].on = tx[c].on

\* A client that is done has no transaction left, or goes on to the gate.
LEMMA DoneEnds ==
    ASSUME Inv, NEW c \in Clients, tx[c] # None, Done(c)
    PROVE  Ends(c)
<1>1. tx \in [Clients -> Tx \cup {None}] /\ tx[c] \in Tx /\ Shaped(tx[c])
  BY TxFacts DEF Inv, Typed, TypeOK
<1> DEFINE gate == [tx[c] EXCEPT !.kind = "gate", !.adds = NoAdds]
<1>2. NoAdds \in Adds /\ \A u \in Tests : NoAdds[u] = <<>>
  BY EmptySeq DEF NoAdds, Adds
<1>3. gate \in Tx /\ gate.kind = "gate" /\ gate.on = tx[c].on /\ gate.todo = tx[c].todo /\ gate.adds = NoAdds
  BY <1>1, <1>2 DEF Tx, Kinds, Adds
<1>4. tx' = [tx EXCEPT ![c] = IF tx[c].kind = "persist" THEN gate ELSE None]
  BY DEF Done
<1> HIDE DEF gate
<1>5. tx[c].kind = "persist" => Shaped(gate)
  BY <1>1, <1>2, <1>3 DEF Shaped
<1> QED BY <1>1, <1>3, <1>4, <1>5 DEF Ends

\* Such a step keeps the invariant when it touches only what its transaction is on,
\* and the history has the texts that it replaced.
LEMMA EndInv ==
    ASSUME Inv, NEW c \in Clients, tx[c] # None, Ends(c),
           row' \in [Tests -> OptRow], hist' \in [Tests -> Seq(Row)], made' \in Ids,
           disk' \in [Files -> Ids \cup {None}],
           last' \in [Tests -> Nat], \A t \in Tests : last'[t] <= Len(hist'[t]),
           replaced' \in [Tests -> SUBSET Ids], cleared' \subseteq Tests,
           tangled \subseteq tangled', tangled' \subseteq Tests,
           \A t \in Tests \ tx[c].on : row'[t] = row[t] /\ hist'[t] = hist[t],
           \A f \in Files : disk'[f] # disk[f] => tx[c].on = Tests,
           TextsKept'
    PROVE  Inv'
<1>1. \A d \in Clients \ {c} : tx'[d] = tx[d]
  BY DEF Ends
<1>2. Typed'
  <2>1. TypeOK'
    BY DEF TypeOK, Ends, OptRow
  <2>2. \A d \in Clients : tx'[d] # None => Shaped(tx'[d])
    BY DEF Ends, Inv, Typed
  <2>3. \A d \in Clients : tx'[d] # None => Shaped(tx[d])'
    BY <2>2 DEF Shaped
  <2> QED BY <2>1, <2>3 DEF Typed
<1>3. ASSUME NEW t \in Tests \ tangled', NEW d \in Clients, Works(d, t)'
      PROVE  t \in Tests \ tangled /\ Works(d, t) /\ (d # c => t \notin tx[c].on)
  <2>1. t \in Tests \ tangled /\ Works(d, t)
    BY <1>3 DEF Ends, Works
  <2> QED BY <2>1 DEF Inv, OneWriter, Works
<1>4. OneWriter'
  BY <1>3 DEF OneWriter, Inv
<1>5. Backed'
  <2> SUFFICES ASSUME NEW t \in Tests \ tangled', NEW d \in Clients, Works(d, t)'
               PROVE  BacksText(tx[d], t)'
    BY DEF Backed
  <2>1. CASE d = c
    BY <2>1 DEF Works, Ends, BacksText
  <2>2. CASE d # c
    <3>1. /\ tx'[d] = tx[d] /\ row'[t] = row[t] /\ hist'[t] = hist[t]
          /\ BacksText(tx[d], t)
      BY <1>1, <1>3, <2>2 DEF Inv, Backed
    <3> QED BY <3>1 DEF BacksText
  <2> QED BY <2>1, <2>2
<1>6. ClearDue'
  <2> SUFFICES ASSUME NEW f \in Files, NEW d \in Clients, \A t \in Of(f) : t \notin tangled',
                      tx'[d] # None, tx'[d].kind = "clear"
               PROVE  HoldsScript(tx[d], f)'
    BY DEF ClearDue, Calm, Of
  <2>1. d # c
    BY DEF Ends
  <2>2. tx'[d] = tx[d] /\ tx[d].on = Tests
    BY <1>1, <2>1 DEF Inv, Typed, Shaped
  <2>3. \A t \in Of(f) : t \in Tests \ tangled' /\ Works(d, t)'
    BY <2>2, FileFacts DEF Works
  <2>4. \A t \in Of(f) : t \in Tests \ tx[c].on
    BY <1>3, <2>1, <2>3
  <2>5. disk'[f] = disk[f] /\ Calm(f)
    BY <2>4, FileFacts DEF Calm
  <2>6. \A t \in Of(f) : row'[t] = row[t] /\ hist'[t] = hist[t]
    BY <2>4
  <2>7. HoldsScript(tx[d], f)
    BY <2>2, <2>5 DEF Inv, ClearDue
  <2> QED BY <2>2, <2>5, <2>6, <2>7 DEF HoldsScript, Of
<1> QED BY <1>2, <1>4, <1>5, <1>6 DEF Inv

\* Only the end of a clear changes files.
LEMMA RenameEffect ==
    ASSUME Inv, NEW c \in Clients, tx[c] # None, Rename(c)
    PROVE  /\ disk' \in [Files -> Ids \cup {None}]
           /\ \A f \in Files : disk'[f] # disk[f] => tx[c].kind = "clear" /\ tx[c].on = Tests
<1>1. tx[c].kind = "clear" => tx[c].on = Tests
  BY DEF Inv, Typed, Shaped
<1> QED BY <1>1 DEF Rename, Inv, Typed, TypeOK

\* A commit puts the rows in place and lengthens the histories.
LEMMA CommitEffect ==
    ASSUME Typed, NEW c \in Clients, Commit(c)
    PROVE  /\ row' \in [Tests -> OptRow] /\ hist' \in [Tests -> Seq(Row)]
           /\ \A t \in tx[c].on : row'[t] = tx[c].rows[t] /\ hist'[t] = hist[t] \o tx[c].adds[t]
           /\ \A t \in Tests \ tx[c].on : row'[t] = row[t] /\ hist'[t] = hist[t]
           /\ \A t \in Tests : hist[t] \in Seq(Row) /\ tx[c].adds[t] \in Seq(Row)
<1>1. tx[c].on \subseteq Tests /\ tx[c].rows \in [Tests -> OptRow] /\ tx[c].adds \in Adds
  BY TxFacts DEF Commit, Typed
<1>2. row \in [Tests -> OptRow] /\ \A t \in Tests : hist[t] \in Seq(Row) /\ tx[c].adds[t] \in Seq(Row)
  BY <1>1 DEF Typed, TypeOK, OptRow, Adds
<1>3. /\ row' = [t \in Tests |-> IF t \in tx[c].on THEN tx[c].rows[t] ELSE row[t]]
      /\ hist' = [t \in Tests |-> IF t \in tx[c].on THEN hist[t] \o tx[c].adds[t] ELSE hist[t]]
  BY DEF Commit
<1>4. row' \in [Tests -> OptRow]
  BY <1>1, <1>2, <1>3
<1>5. \A t \in Tests : hist[t] \o tx[c].adds[t] \in Seq(Row)
  BY <1>2, ConcatProperties
<1>6. hist' \in [Tests -> Seq(Row)]
  BY <1>2, <1>3, <1>5
<1> QED BY <1>1, <1>2, <1>3, <1>4, <1>6

\* The latest batch is of versions that the histories have.
LEMMA CommitBatch ==
    ASSUME Typed, NEW c \in Clients, Commit(c)
    PROVE  last' \in [Tests -> Nat] /\ \A t \in Tests : last'[t] <= Len(hist'[t])
<1>1. \A t \in Tests : /\ Len(hist[t]) \in Nat /\ Len(tx[c].adds[t]) \in Nat
                       /\ (tx[c].adds[t] # <<>> => Len(tx[c].adds[t]) > 0)
  <2>1. \A u \in Seq(Row) : Len(u) \in Nat /\ (u # <<>> => Len(u) > 0)
    BY LenProperties, EmptySeq
  <2> QED BY <2>1, CommitEffect
<1>2. \A t \in tx[c].on : Len(hist'[t]) = Len(hist[t]) + Len(tx[c].adds[t])
  <2>1. tx[c].on \subseteq Tests
    BY TxFacts DEF Commit, Typed
  <2>2. \A u, v \in Seq(Row) : Len(u \o v) = Len(u) + Len(v)
    BY ConcatProperties
  <2> QED BY <2>1, <2>2, CommitEffect
<1>3. \A t \in Tests \ tx[c].on : Len(hist'[t]) = Len(hist[t]) /\ tx[c].adds[t] = <<>>
  BY CommitEffect DEF Typed, Shaped, Commit
<1>4. \A b, k \in Nat : b + k \in Nat /\ b <= b + k /\ (k > 0 => b + 1 <= b + k)
  OBVIOUS
<1>5. ASSUME NEW t \in Tests
      PROVE  /\ Len(hist'[t]) \in Nat /\ Len(hist[t]) <= Len(hist'[t])
             /\ tx[c].adds[t] # <<>> => Len(hist[t]) + 1 <= Len(hist'[t])
  <2>1. CASE t \in tx[c].on
    <3> DEFINE n == Len(hist[t])
               k == Len(tx[c].adds[t])
    <3>1. Len(hist'[t]) = n + k /\ n \in Nat /\ k \in Nat /\ (tx[c].adds[t] # <<>> => k > 0)
      BY <1>1, <1>2, <2>1
    <3> HIDE DEF n, k
    <3>2. n + k \in Nat /\ n <= n + k /\ (k > 0 => n + 1 <= n + k)
      BY <1>4, <3>1
    <3> QED BY <3>1, <3>2 DEF n
  <2>2. CASE t \notin tx[c].on
    BY <1>1, <1>3, <2>2
  <2> QED BY <2>1, <2>2
<1>6. CASE last' = last
  <2>1. \A t \in Tests : last[t] \in Nat /\ last[t] <= Len(hist[t])
    BY DEF Typed, TypeOK
  <2>2. \A t \in Tests : last[t] <= Len(hist'[t])
    BY <1>1, <1>5, <2>1
  <2> QED BY <1>6, <2>2 DEF Typed, TypeOK
<1>7. CASE last' = [t \in Tests |-> IF tx[c].adds[t] = <<>> THEN 0 ELSE Len(hist[t]) + 1]
  <2>1. last' \in [Tests -> Nat]
    BY <1>1, <1>7
  <2>2. ASSUME NEW t \in Tests PROVE last'[t] <= Len(hist'[t])
    <3>1. last'[t] = IF tx[c].adds[t] = <<>> THEN 0 ELSE Len(hist[t]) + 1
      BY <1>7
    <3> QED BY <1>5, <3>1
  <2> QED BY <2>1, <2>2
<1> QED BY <1>6, <1>7 DEF Commit

\* What a commit replaces or renames is in the histories it leaves.
LEMMA CommitInv ==
    ASSUME Inv, NEW c \in Clients, Commit(c)
    PROVE  Inv' /\ Kept
<1>1. /\ tx[c] # None /\ tx[c].kind \notin {"written", "gate"} /\ tx[c].todo = {}
      /\ Rename(c) /\ Done(c) /\ UNCHANGED <<made, tangled>>
  BY DEF Commit
<1>2. Typed /\ tx[c].on \subseteq Tests
  BY <1>1, TxFacts DEF Inv, Typed
<1>3. \A t \in Tests : \A text : Has(hist[t], text) => Has(hist'[t], text)
  BY <1>2, CommitEffect, HasConcat
<1>4. replaced' = [t \in Tests |-> IF t \in tx[c].on /\ row[t] # None
                                   THEN replaced[t] \cup {row[t].text} ELSE replaced[t]]
  BY DEF Commit
<1>5. replaced' \in [Tests -> SUBSET Ids] /\ cleared' \subseteq Tests
  <2>1. \A t \in Tests : row[t] # None => row[t].text \in Ids
    BY <1>2 DEF Typed, TypeOK, Row
  <2> QED BY <1>2, <1>4, <2>1 DEF Commit, Typed, TypeOK
<1>6. TextsKept'
  <2> SUFFICES ASSUME NEW t \in Tests \ tangled, NEW text \in replaced'[t] PROVE Has(hist'[t], text)
    BY <1>1 DEF TextsKept, Has
  <2>1. CASE text \in replaced[t]
    BY <1>3, <2>1 DEF Inv, TextsKept, Has
  <2>2. CASE text \notin replaced[t]
    <3>1. t \in tx[c].on /\ row[t] # None /\ text = row[t].text
      BY <1>4, <2>2
    <3>2. Has(hist[t], text) \/ Has(tx[c].adds[t], text)
      BY <1>1, <3>1 DEF Inv, Backed, BacksText, Works
    <3> QED BY <1>2, <3>1, <3>2, CommitEffect, HasConcat
  <2> QED BY <2>1, <2>2
<1>7. Inv'
  <2>1. Ends(c)
    BY <1>1, DoneEnds
  <2>2. made' \in Ids /\ tangled \subseteq tangled' /\ tangled' \subseteq Tests
    BY <1>1, <1>2 DEF Typed, TypeOK
  <2> QED BY <1>1, <1>2, <1>5, <1>6, <2>1, <2>2, RenameEffect, CommitEffect, CommitBatch, EndInv
<1>8. Kept
  <2> SUFFICES ASSUME NEW f \in Files, disk[f] # None, disk'[f] # disk[f],
                      \A t \in Of(f) : row[t] # None /\ t \notin tangled
               PROVE  \E t \in Of(f) : HasScript(hist'[t], disk[f])
    BY <1>1 DEF Kept
  <2>1. tx[c].kind = "clear" /\ tx[c].on = Tests
    BY <1>1, RenameEffect
  <2>2. PICK t \in Of(f) : TRUE
    BY FileFacts
  <2>3. HasScript(hist[t], disk[f]) \/ HasScript(tx[c].adds[t], disk[f])
    BY <1>1, <2>1, <2>2 DEF Inv, ClearDue, Calm, HoldsScript
  <2>4. t \in tx[c].on
    BY <2>1, <2>2, FileFacts
  <2>5. t \in Tests /\ hist[t] \in Seq(Row) /\ tx[c].adds[t] \in Seq(Row) /\ hist'[t] = hist[t] \o tx[c].adds[t]
    BY <1>2, <2>2, <2>4, CommitEffect, FileFacts
  <2>6. HasScript(hist[t] \o tx[c].adds[t], disk[f])
    BY <2>3, <2>5, HasScriptConcat
  <2>7. HasScript(hist'[t], disk[f])
    BY <2>5, <2>6, Zenon
  <2> QED BY <2>2, <2>7
<1> QED BY <1>7, <1>8

\* A failed transaction tangles what it was on.
LEMMA AbortInv ==
    ASSUME Inv, NEW c \in Clients, Abort(c)
    PROVE  Inv' /\ Kept
<1>1. /\ tx[c] # None /\ Rename(c) /\ Done(c) /\ tangled' = tangled \cup tx[c].on
      /\ UNCHANGED <<row, hist, last, made, replaced, cleared>>
  BY DEF Abort
<1>2. tx[c].on \subseteq Tests
  BY <1>1, TxFacts DEF Inv, Typed
<1>3. tangled \subseteq tangled' /\ tangled' \subseteq Tests /\ Ends(c)
  BY <1>1, <1>2, DoneEnds DEF Inv, Typed, TypeOK
<1>4. TextsKept'
  BY <1>1 DEF Inv, TextsKept
<1>5. Inv'
  <2>1. row \in [Tests -> OptRow]
    BY DEF Inv, Typed, TypeOK, OptRow
  <2> QED BY <1>1, <1>3, <1>4, <2>1, RenameEffect, EndInv DEF Inv, Typed, TypeOK
<1>6. Kept
  BY <1>1, RenameEffect, FileFacts DEF Kept
<1> QED BY <1>5, <1>6

\* The gate changes rows of its own tests, and nothing a snapshot has taken.
LEMMA StampInv ==
    ASSUME Inv, NEW c \in Clients, NEW ts \in SUBSET Tests, Stamp(c, ts)
    PROVE  Inv' /\ Kept
<1>1. /\ tx[c] # None /\ ts \subseteq tx[c].on /\ tx' = [tx EXCEPT ![c] = None]
      /\ UNCHANGED <<disk, hist, last, replaced, tangled, cleared>>
  BY DEF Stamp, histVars
<1>2. Ends(c)
  BY <1>1 DEF Ends, Inv, Typed, TypeOK
<1>3. /\ row' \in [Tests -> OptRow] /\ made' \in Ids
      /\ \A t \in Tests \ tx[c].on : row'[t] = row[t]
  <2>1. CASE ts = {}
    BY <2>1 DEF Stamp, Inv, Typed, TypeOK, OptRow
  <2>2. CASE ts # {}
    <3>1. /\ made < MaxGen /\ made' = made + 1
          /\ row' = [t \in Tests |-> IF t \in ts /\ row[t] # None
                                     THEN [row[t] EXCEPT !.text = made + 1] ELSE row[t]]
      BY <2>2 DEF Stamp
    <3>2. made + 1 \in Ids
      BY <3>1, BoundsAssumption DEF Inv, Typed, TypeOK, Ids
    <3>3. \A t \in Tests : row[t] # None => [row[t] EXCEPT !.text = made + 1] \in Row
      BY <3>2 DEF Inv, Typed, TypeOK, Row
    <3> QED BY <1>1, <3>1, <3>2, <3>3 DEF Inv, Typed, TypeOK, OptRow
  <2> QED BY <2>1, <2>2
<1>4. TextsKept'
  BY <1>1 DEF Inv, TextsKept
<1>5. Inv'
  BY <1>1, <1>2, <1>3, <1>4, EndInv DEF Inv, Typed, TypeOK
<1> QED BY <1>1, <1>5 DEF Kept

\* Whoever edits a file tangles the tests of it that somebody is busy with.
LEMMA EditInv ==
    ASSUME Inv, NEW f \in Files, EditFile(f)
    PROVE  Inv' /\ Kept
<1>1. /\ made < MaxGen /\ made' = made + 1 /\ disk' = [disk EXCEPT ![f] = made + 1]
      /\ tangled' = tangled \cup {t \in Of(f) : Busy(t)}
      /\ UNCHANGED <<row, hist, last, tx, replaced, cleared>>
  BY DEF EditFile, histVars
<1>2. made + 1 \in Ids /\ made \in Nat
  BY <1>1, BoundsAssumption DEF Inv, Typed, TypeOK, Ids
<1>3. tangled \subseteq tangled' /\ tangled' \subseteq Tests
  BY <1>1, FileFacts DEF Inv, Typed, TypeOK
<1>4. Typed'
  <2>1. TypeOK'
    BY <1>1, <1>2, <1>3 DEF Inv, Typed, TypeOK
  <2> QED BY <1>1, <2>1 DEF Inv, Typed, Shaped
<1>5. OneWriter' /\ Backed' /\ TextsKept'
  <2>1. OneWriter'
    BY <1>1, <1>3 DEF Inv, OneWriter, Works
  <2>2. Backed'
    BY <1>1, <1>3 DEF Inv, Backed, Works, BacksText
  <2>3. TextsKept'
    BY <1>1, <1>3 DEF Inv, TextsKept
  <2> QED BY <2>1, <2>2, <2>3
<1>6. ClearDue'
  <2> SUFFICES ASSUME NEW g \in Files, NEW d \in Clients, \A t \in Of(g) : t \notin tangled',
                      tx[d] # None, tx[d].kind = "clear"
               PROVE  HoldsScript(tx[d], g)'
    BY <1>1 DEF ClearDue, Calm, Of
  <2>1. \A t \in Tests : Busy(t)
    BY DEF Inv, Typed, Shaped, Busy
  <2>2. g # f
    BY <1>1, <2>1, FileFacts
  <2>3. disk'[g] = disk[g] /\ HoldsScript(tx[d], g)
    BY <1>1, <1>3, <2>2 DEF Inv, Typed, TypeOK, ClearDue, Calm
  <2> QED BY <1>1, <2>3 DEF HoldsScript, Of
<1>7. Kept
  BY <1>1, <1>2 DEF Kept
<1> QED BY <1>4, <1>5, <1>6, <1>7 DEF Inv

-----------------------------------------------------------------------------
(* The theorems                                                              *)

\* The invariant holds at first: nothing is open, and nothing was replaced.
LEMMA InitInv == Init => Inv
<1> SUFFICES ASSUME Init PROVE Inv
  OBVIOUS
<1>1. 1 \in Ids /\ [text |-> 1, script |-> 1] \in Row
  BY BoundsAssumption DEF Ids, Row
<1>2. row \in [Tests -> Row \cup {None}] /\ disk \in [Files -> Ids \cup {None}] /\ made \in Ids
  BY <1>1 DEF Init
<1>3. hist \in [Tests -> Seq(Row)] /\ last \in [Tests -> Nat] /\ \A t \in Tests : last[t] <= Len(hist[t])
  BY EmptySeq DEF Init
<1>4. tx \in [Clients -> Tx \cup {None}] /\ \A c \in Clients : tx[c] = None
  BY DEF Init
<1>5. Typed
  BY <1>2, <1>3, <1>4 DEF Init, Typed, TypeOK
<1>6. OneWriter /\ Backed /\ ClearDue
  BY <1>4 DEF OneWriter, Backed, Works, ClearDue
<1>7. TextsKept
  BY DEF Init, TextsKept
<1> QED BY <1>5, <1>6, <1>7 DEF Inv

\* Every step keeps the invariant and the scripts it takes.
LEMMA StepInv == Inv /\ Next => Inv' /\ Kept
<1> SUFFICES ASSUME Inv, Next PROVE Inv' /\ Kept
  OBVIOUS
<1>1. ASSUME NEW c \in Clients, \E new \in Tx : Proceeds(c, new) PROVE Inv' /\ Kept
  BY <1>1, ProceedsInv
<1>2. ASSUME NEW c \in Clients, NEW ts \in SUBSET Tests,
             \/ \E outcome \in [{FileOf[t] : t \in ts} -> {"written", "kept", "quarantined"}] :
                   WriteScripts(c, ts, outcome)
             \/ PersistBegin(c, ts) \/ ClearBegin(c, ts) \/ Stamp(c, ts)
      PROVE  Inv' /\ Kept
  <2>1. CASE \E outcome \in [{FileOf[t] : t \in ts} -> {"written", "kept", "quarantined"}] :
               WriteScripts(c, ts, outcome)
    BY <1>1, <2>1, WriteScriptsProceeds
  <2>2. CASE PersistBegin(c, ts)
    BY <1>1, <2>2, PersistProceeds
  <2>3. CASE ClearBegin(c, ts)
    BY <1>1, <2>3, ClearProceeds
  <2>4. CASE Stamp(c, ts)
    BY <2>4, StampInv
  <2> QED BY <1>2, <2>1, <2>2, <2>3, <2>4
<1>3. ASSUME NEW c \in Clients, NEW t \in Tests, NEW failed \in BOOLEAN, NEW wrote \in BOOLEAN,
             \/ Rollback(c, t, failed, wrote)
             \/ \E i \in 1..MaxVersions : Revert(c, t, i, failed, wrote)
             \/ RestoreOne(c, t, failed, wrote)
             \/ RestoreSkip(c, t, wrote)
      PROVE  Inv' /\ Kept
  <2>1. Rollback(c, t, failed, wrote) => Len(hist[t]) - 1 \in Nat /\ Revert(c, t, Len(hist[t]) - 1, failed, wrote)
    BY LenProperties DEF Rollback, Inv, Typed, TypeOK
  <2>2. \A i \in 1..MaxVersions : i \in Nat
    BY BoundsAssumption
  <2>3. CASE Rollback(c, t, failed, wrote) \/ \E i \in 1..MaxVersions : Revert(c, t, i, failed, wrote)
    <3>1. PICK i \in Nat : Revert(c, t, i, failed, wrote)
      BY <2>1, <2>2, <2>3
    <3>2. \E new \in Tx : Proceeds(c, new)
      BY <3>1, RevertProceeds
    <3> QED BY <1>1, <3>2
  <2>4. CASE RestoreOne(c, t, failed, wrote)
    <3>1. \E new \in Tx : Proceeds(c, new)
      BY <2>4, RestoreOneProceeds
    <3> QED BY <1>1, <3>1
  <2>5. CASE RestoreSkip(c, t, wrote)
    <3>1. \E new \in Tx : Proceeds(c, new)
      BY <2>5, RestoreSkipProceeds
    <3> QED BY <1>1, <3>1
  <2> QED BY <1>3, <2>3, <2>4, <2>5
<1>4. ASSUME NEW c \in Clients, RestoreBegin(c) \/ Commit(c) \/ Abort(c) PROVE Inv' /\ Kept
  BY <1>1, <1>4, RestoreBeginProceeds, CommitInv, AbortInv
<1>5. ASSUME NEW f \in Files, EditFile(f) PROVE Inv' /\ Kept
  BY <1>5, EditInv
<1> QED BY <1>2, <1>3, <1>4, <1>5 DEF Next

\* The invariant holds of every behaviour.
LEMMA Invariance == Spec => []Inv
<1>1. Inv /\ UNCHANGED vars => Inv'
  <2> SUFFICES ASSUME Inv, UNCHANGED vars PROVE Inv'
    OBVIOUS
  <2>1. UNCHANGED <<row, disk, hist, last, tx, made, replaced, tangled, cleared>>
    BY DEF vars, histVars
  <2>2. Typed'
    BY <2>1 DEF Inv, Typed, TypeOK, Shaped
  <2>3. OneWriter' /\ TextsKept'
    BY <2>1 DEF Inv, OneWriter, Works, TextsKept
  <2>4. Backed'
    BY <2>1 DEF Inv, Backed, Works, BacksText
  <2>5. ClearDue'
    BY <2>1 DEF Inv, ClearDue, Calm, HoldsScript, Of
  <2> QED BY <2>2, <2>3, <2>4, <2>5 DEF Inv
<1>2. Inv /\ [Next]_vars => Inv'
  BY <1>1, StepInv
<1> QED BY <1>2, InitInv, PTL DEF Spec

\* Type correctness of rows, files, histories and transactions
\* (tests_versions.py and its callers), for any tests, files, clients and bounds.
THEOREM TypeCorrect == Spec => []TypeOK
<1>1. Inv => TypeOK
  BY DEF Inv, Typed
<1> QED BY <1>1, Invariance, PTL

\* The history of a test holds every text that an upsert, a forced clear, a revert, a
\* rollback or a restore replaced, if its writers did not overlap and no snapshot or
\* write of it failed; the gate's stamp is not among them (tests_versions.py:85-159).
THEOREM TextsKeptHolds == Spec => []TextsKept
<1>1. Inv => TextsKept
  BY DEF Inv
<1> QED BY <1>1, Invariance, PTL

\* No revert, rollback, restore or forced clear takes a script out of a file that the
\* tests of several acceptance criteria may share, unless the history of one of them has
\* it or gets it from an open transaction; if they all have rows, and their writers did
\* not overlap or fail (tests_versions.py:176-290, tests.py:6623-6672).
THEOREM ScriptsTakenAreKeptHolds == Spec => ScriptsTakenAreKept
<1>1. Inv /\ [Next]_vars => [Kept]_vars
  BY StepInv
<1>2. [Kept]_vars <=> [\A f \in Files :
          (/\ disk[f] # None /\ disk'[f] # disk[f] /\ made' = made
           /\ \A t \in Of(f) : row[t] # None /\ t \notin tangled')
              => \E t \in Of(f) :
                    \/ HasScript(hist'[t], disk[f])
                    \/ \E c \in Clients : tx'[c] # None /\ t \in tx'[c].on /\ HasScript(tx'[c].adds[t], disk[f])]_vars
  BY DEF Kept
<1> QED BY <1>1, <1>2, Invariance, PTL DEF Spec, ScriptsTakenAreKept
=============================================================================
