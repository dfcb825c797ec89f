------------------------ MODULE WebhookJournalProofs ------------------------
(***************************************************************************)
(* For any deliveries, sweeps, length and restarts, with calls of the      *)
(* store that overlap at every await: a compaction can only lose what was  *)
(* written while it was under way, and the in-memory claim keeps the       *)
(* sweeps of the process from sending one delivery at the same time.       *)
(***************************************************************************)
EXTENDS WebhookJournal, FiniteSetTheorems, TLAPS

Places ==
  {"idle", "sending", "appending", "appended", "rewriting", "renaming"}

Typed ==
  /\ file \in Rows /\ last \in Rows
  /\ view \in [Sweeps -> Rows \cup {NoRead}]
  /\ pc \in [Callers -> [Ids -> Places]]
  /\ line \in [Callers -> [Ids -> Statuses \cup {NoRow}]]
  /\ snapshot \in [Callers -> [Ids -> Rows]]

Window(c, i) == pc[c][i] \in {"rewriting", "renaming"}

(* Rows that have what was last written of j, or have let go of it because *)
(* it was delivered.                                                       *)
Tells(rows, j) == rows[j] = last[j] \/ (last[j] = "delivered" /\ rows[j] = NoRow)

(* What a compaction under way has loaded tells of all but the rows whose  *)
(* last line landed since.                                                 *)
SnapshotTells ==
  \A c \in Callers, i \in Ids :
    Window(c, i) => \A j \in Ids \ exposed : Tells(snapshot[c][i], j)

(* And so does the compaction file, which is there only while some         *)
(* compaction is to rename it.                                             *)
TmpTells ==
  tmp # NoFile =>
    /\ tmp \in Rows
    /\ \E c \in Callers, i \in Ids : pc[c][i] = "renaming"
    /\ \A j \in Ids \ exposed : Tells(tmp, j)

(* A sweep that has loaded rows for its claims has nothing else to do.     *)
LoadsIdle == \A s \in Sweeps : view[s] # NoRead => \A i \in Ids : pc[s][i] = "idle"

Sends(s, i) == pc[s][i] = "sending"
SendsClaimed == \A s \in Sweeps, i \in Ids \ revived : Sends(s, i) => i \in claimed
SendsAlone == \A s, t \in Sweeps, i \in Ids \ revived : Sends(s, i) /\ Sends(t, i) => s = t

IInv ==
  Typed /\ LostOnlyInCompaction /\ SnapshotTells /\ TmpTells /\ LoadsIdle /\ SendsClaimed /\ SendsAlone

-----------------------------------------------------------------------------

LEMMA InitIInv == Init => IInv
  <1> SUFFICES ASSUME Init PROVE IInv
    OBVIOUS
  <1>1. Typed
    BY DEF Init, Typed, Blank, Rows, Places
  <1>2. \A c \in Callers, i \in Ids : pc[c][i] = "idle"
    BY DEF Init
  <1>3. SnapshotTells /\ TmpTells
    BY <1>2 DEF SnapshotTells, TmpTells, Window, Init
  <1>4. LoadsIdle /\ SendsClaimed /\ SendsAlone
    BY <1>2 DEF LoadsIdle, SendsClaimed, SendsAlone, Sends, Callers
  <1>5. LostOnlyInCompaction
    BY DEF Init, LostOnlyInCompaction, Blank
  <1> QED
    BY <1>1, <1>3, <1>4, <1>5 DEF IInv

LEMMA GoMoves ==
  ASSUME Typed, NEW c \in Callers, NEW i \in Ids, NEW to \in Places, Go(c, i, to)
  PROVE  /\ pc' \in [Callers -> [Ids -> Places]]
         /\ pc'[c][i] = to
         /\ \A d \in Callers, j \in Ids : (d # c \/ j # i) => pc'[d][j] = pc[d][j]
  BY DEF Typed, Go

LEMMA WriteLine ==
  ASSUME Typed, NEW c \in Callers, NEW i \in Ids, NEW st \in Statuses \cup {NoRow},
         line' = [line EXCEPT ![c][i] = st]
  PROVE  line' \in [Callers -> [Ids -> Statuses \cup {NoRow}]]
  BY DEF Typed

(* A step that neither writes the file nor moves a compaction.             *)
LEMMA FilesKept ==
  ASSUME IInv, UNCHANGED <<file, tmp, snapshot, last, exposed>>,
         \A c \in Callers, i \in Ids :
           pc'[c][i] # pc[c][i] => ~Window(c, i) /\ ~Window(c, i)'
  PROVE  LostOnlyInCompaction' /\ SnapshotTells' /\ TmpTells'
  <1> USE DEF IInv
  <1>1. \A c \in Callers, i \in Ids : Window(c, i)' => Window(c, i)
    BY DEF Window
  <1>2. \A c \in Callers, i \in Ids : pc[c][i] = "renaming" => pc'[c][i] = "renaming"
    BY DEF Window
  <1>3. LostOnlyInCompaction'
    BY DEF LostOnlyInCompaction
  <1>4. SnapshotTells'
    BY <1>1 DEF SnapshotTells, Tells
  <1>5. TmpTells'
    BY <1>2 DEF TmpTells, Tells
  <1> QED
    BY <1>3, <1>4, <1>5

(* A step that leaves the claims alone and lets nobody begin to send.      *)
LEMMA ClaimsKept ==
  ASSUME IInv, UNCHANGED <<claimed, view, revived>>,
         \A c \in Callers, i \in Ids :
           pc'[c][i] # pc[c][i] => pc'[c][i] # "sending" /\ pc[c][i] # "idle"
  PROVE  LoadsIdle' /\ SendsClaimed' /\ SendsAlone'
  <1> USE DEF IInv
  <1>1. \A s \in Sweeps, i \in Ids : Sends(s, i)' => Sends(s, i)
    BY DEF Sends, Callers
  <1>2. LoadsIdle'
    BY DEF LoadsIdle, Callers
  <1> QED
    BY <1>1, <1>2 DEF SendsClaimed, SendsAlone

-----------------------------------------------------------------------------

(* The settle path and the operator's tool are not sweeps.                 *)
LEMMA BeginKeeps ==
  ASSUME IInv, NEW i \in Ids, Enqueue(i) \/ Revive(i)
  PROVE  IInv'
  <1> USE DEF IInv
  <1>1. /\ Gate \in Callers /\ Gate \notin Sweeps
        /\ "pending" \in Statuses \cup {NoRow} /\ "appending" \in Places
    BY JournalAssumption DEF Callers, Statuses, Places
  <1>2. /\ UNCHANGED <<file, tmp, view, snapshot, last, exposed>>
        /\ Go(Gate, i, "appending") /\ pc[Gate][i] = "idle"
        /\ line' = [line EXCEPT ![Gate][i] = "pending"]
        /\ \/ UNCHANGED <<claimed, revived>>
           \/ /\ claimed' = claimed \ {i}
              /\ revived' = IF InHand(i) = {} THEN revived ELSE revived \cup {i}
    BY DEF Enqueue, Revive, history
  <1>3. /\ pc' \in [Callers -> [Ids -> Places]]
        /\ pc'[Gate][i] = "appending"
        /\ \A d \in Callers, j \in Ids : (d # Gate \/ j # i) => pc'[d][j] = pc[d][j]
    BY <1>1, <1>2, GoMoves
  <1>4. Typed'
    BY <1>1, <1>2, <1>3, WriteLine DEF Typed
  <1>5. \A c \in Callers, j \in Ids : pc'[c][j] # pc[c][j] => ~Window(c, j) /\ ~Window(c, j)'
    BY <1>2, <1>3 DEF Window
  <1>6. LostOnlyInCompaction' /\ SnapshotTells' /\ TmpTells'
    BY <1>2, <1>5, FilesKept
  <1>7. \A s \in Sweeps, j \in Ids : pc'[s][j] = pc[s][j]
    BY <1>1, <1>3 DEF Callers
  <1>8. LoadsIdle'
    BY <1>2, <1>7 DEF LoadsIdle
  <1>9. \A s \in Sweeps, j \in Ids \ revived' :
          Sends(s, j)' => Sends(s, j) /\ j \in Ids \ revived /\ (j \in claimed => j \in claimed')
    BY <1>2, <1>7 DEF Sends, InHand
  <1>10. SendsClaimed' /\ SendsAlone'
    BY <1>9 DEF SendsClaimed, SendsAlone
  <1> QED
    BY <1>4, <1>6, <1>8, <1>10

LEMMA LoadKeeps ==
  ASSUME IInv, NEW s \in Sweeps, ClaimLoad(s)
  PROVE  IInv'
  <1> USE DEF IInv
  <1>1. /\ UNCHANGED <<file, tmp, claimed, pc, line, snapshot, last, exposed, revived>>
        /\ view' = [view EXCEPT ![s] = file] /\ \A i \in Ids : pc[s][i] = "idle"
    BY DEF ClaimLoad, history
  <1>2. Typed'
    BY <1>1 DEF Typed
  <1>3. LostOnlyInCompaction' /\ SnapshotTells' /\ TmpTells'
    BY <1>1, FilesKept
  <1>4. LoadsIdle'
    BY <1>1 DEF LoadsIdle, Typed
  <1>5. SendsClaimed' /\ SendsAlone'
    BY <1>1 DEF SendsClaimed, SendsAlone, Sends
  <1> QED
    BY <1>2, <1>3, <1>4, <1>5

(* A sweep claims what nobody has claimed, so what nobody sends.           *)
LEMMA ClaimKeeps ==
  ASSUME IInv, NEW s \in Sweeps, ClaimDue(s)
  PROVE  IInv'
  <1> USE DEF IInv
  <1> DEFINE due == {i \in Ids : Due(view[s], i)}
  <1>1. /\ UNCHANGED <<file, tmp, line, snapshot, last, exposed, revived>>
        /\ view' = [view EXCEPT ![s] = NoRead]
        /\ claimed' = claimed \cup due
        /\ pc' = [pc EXCEPT ![s] = [i \in Ids |-> IF i \in due THEN "sending" ELSE "idle"]]
        /\ \A i \in Ids : pc[s][i] = "idle"
        /\ s \in Callers
    BY DEF ClaimDue, LoadsIdle, Callers, history
  <1>2. \A i \in due : i \notin claimed
    BY DEF Due
  <1> HIDE DEF due
  <1>3. /\ \A j \in Ids : pc'[s][j] = IF j \in due THEN "sending" ELSE "idle"
        /\ \A d \in Callers : d # s => pc'[d] = pc[d]
        /\ pc' \in [Callers -> [Ids -> Places]]
    BY <1>1 DEF Typed, Places
  <1>4. Typed'
    BY <1>1, <1>3 DEF Typed
  <1>5. \A c \in Callers, j \in Ids : pc'[c][j] # pc[c][j] => ~Window(c, j) /\ ~Window(c, j)'
    BY <1>1, <1>3 DEF Window
  <1>6. LostOnlyInCompaction' /\ SnapshotTells' /\ TmpTells'
    BY <1>1, <1>5, FilesKept
  <1>7. LoadsIdle'
    BY <1>1, <1>3 DEF LoadsIdle, Typed, Callers
  <1>8. \A t \in Sweeps, j \in Ids :
          Sends(t, j)' => (t = s /\ j \in due) \/ (t # s /\ Sends(t, j))
    BY <1>3 DEF Sends, Callers
  <1>9. SendsClaimed'
    BY <1>1, <1>8 DEF SendsClaimed
  <1>10. SendsAlone'
    BY <1>1, <1>2, <1>8 DEF SendsAlone, SendsClaimed
  <1> QED
    BY <1>4, <1>6, <1>7, <1>9, <1>10

(* Nobody else sends what a sweep gives up the claim of.                   *)
LEMMA RecordKeeps ==
  ASSUME IInv, NEW s \in Sweeps, NEW i \in Ids, RecordAttempt(s, i)
  PROVE  IInv'
  <1> USE DEF IInv
  <1>1. PICK to \in {"idle", "appending"} : Go(s, i, to)
    BY DEF RecordAttempt
  <1>2. /\ UNCHANGED <<file, tmp, view, snapshot, last, exposed, revived>>
        /\ Sends(s, i) /\ s \in Callers
        /\ claimed' \in {claimed, claimed \ {i}}
        /\ UNCHANGED line \/ \E st \in Statuses : line' = [line EXCEPT ![s][i] = st]
    BY DEF RecordAttempt, Sends, Callers
  <1>3. /\ pc' \in [Callers -> [Ids -> Places]]
        /\ pc'[s][i] = to
        /\ \A d \in Callers, j \in Ids : (d # s \/ j # i) => pc'[d][j] = pc[d][j]
    BY <1>1, <1>2, GoMoves DEF Places
  <1>4. line' \in [Callers -> [Ids -> Statuses \cup {NoRow}]]
    <2>1. CASE UNCHANGED line
      BY <2>1 DEF Typed
    <2>2. CASE \E st \in Statuses : line' = [line EXCEPT ![s][i] = st]
      BY <1>2, <2>2, WriteLine
    <2> QED
      BY <1>2, <2>1, <2>2
  <1>5. Typed'
    BY <1>2, <1>3, <1>4 DEF Typed
  <1>6. \A c \in Callers, j \in Ids : pc'[c][j] # pc[c][j] => ~Window(c, j) /\ ~Window(c, j)'
    BY <1>2, <1>3 DEF Window, Sends
  <1>7. LostOnlyInCompaction' /\ SnapshotTells' /\ TmpTells'
    BY <1>2, <1>6, FilesKept
  <1>8. LoadsIdle'
    BY <1>2, <1>3 DEF LoadsIdle, Sends, Callers
  <1>9. \A t \in Sweeps, j \in Ids : Sends(t, j)' => Sends(t, j) /\ (t # s \/ j # i)
    BY <1>3 DEF Sends, Callers
  <1>10. \A t \in Sweeps, j \in Ids \ revived : Sends(t, j)' => j # i
    BY <1>2, <1>9 DEF SendsAlone
  <1>11. SendsClaimed'
    BY <1>2, <1>9, <1>10 DEF SendsClaimed
  <1>12. SendsAlone'
    BY <1>2, <1>9 DEF SendsAlone
  <1> QED
    BY <1>5, <1>7, <1>8, <1>11, <1>12

(* The line is in the file; it is in every later load of a compaction, and *)
(* in those under way it is not.                                           *)
LEMMA AppendKeeps ==
  ASSUME IInv, NEW c \in Callers, NEW i \in Ids, Append(c, i)
  PROVE  IInv'
  <1> USE DEF IInv
  <1>1. PICK to \in {"appended", "idle"} : Go(c, i, to)
    BY DEF Append
  <1>2. /\ pc' \in [Callers -> [Ids -> Places]]
        /\ pc'[c][i] = to
        /\ \A d \in Callers, j \in Ids : (d # c \/ j # i) => pc'[d][j] = pc[d][j]
    BY <1>1, GoMoves DEF Places
  <1>3. /\ UNCHANGED <<tmp, claimed, view, snapshot, revived>> /\ pc[c][i] = "appending"
        /\ exposed' = IF Compacting THEN exposed \cup {i} ELSE exposed \ {i}
        /\ line[c][i] \in Statuses \cup {NoRow}
        /\ file' \in Rows /\ last' \in Rows
        /\ file'[i] = last'[i]
        /\ \A j \in Ids : j # i => file'[j] = file[j] /\ last'[j] = last[j]
    BY DEF Append, Typed, Rows
  <1>4. line' \in [Callers -> [Ids -> Statuses \cup {NoRow}]]
    BY WriteLine DEF Append
  <1>5. Typed'
    BY <1>2, <1>3, <1>4 DEF Typed
  <1>6. \A j \in Ids \ exposed' : j # i => j \in Ids \ exposed
    BY <1>3
  <1>7. LostOnlyInCompaction'
    BY <1>3, <1>6 DEF LostOnlyInCompaction
  <1>8. \A d \in Callers, j \in Ids : /\ Window(d, j)' => Window(d, j)
                                      /\ pc[d][j] = "renaming" => pc'[d][j] = "renaming"
    BY <1>1, <1>2, <1>3 DEF Window
  <1>9. Compacting <=> \E d \in Callers, j \in Ids : Window(d, j)
    BY DEF Compacting, Window
  <1>10. SnapshotTells'
    <2> SUFFICES ASSUME NEW d \in Callers, NEW j \in Ids, Window(d, j)', NEW k \in Ids \ exposed'
                 PROVE  Tells(snapshot[d][j], k)'
      BY <1>3 DEF SnapshotTells
    <2>1. k # i /\ k \in Ids \ exposed
      BY <1>3, <1>8, <1>9
    <2> QED
      BY <1>3, <1>8, <2>1 DEF SnapshotTells, Tells
  <1>11. TmpTells'
    <2>1. CASE tmp = NoFile
      BY <1>3, <2>1 DEF TmpTells
    <2>2. CASE tmp # NoFile
      <3>1. Compacting
        BY <2>2 DEF TmpTells, Compacting
      <3>2. \A k \in Ids \ exposed' : k # i /\ k \in Ids \ exposed
        BY <1>3, <3>1
      <3>3. \A k \in Ids \ exposed' : Tells(tmp, k)'
        BY <1>3, <2>2, <3>2 DEF TmpTells, Tells
      <3> QED
        BY <1>3, <1>8, <2>2, <3>3 DEF TmpTells
    <2> QED
      BY <2>1, <2>2
  <1>12. LoadsIdle' /\ SendsClaimed' /\ SendsAlone'
    BY <1>1, <1>2, <1>3, ClaimsKept
  <1> QED
    BY <1>5, <1>7, <1>10, <1>11, <1>12

-----------------------------------------------------------------------------
(* Compaction.                                                             *)

LEMMA CompactLoadKeeps ==
  ASSUME IInv, NEW c \in Callers, NEW i \in Ids, CompactLoad(c, i)
  PROVE  IInv'
  <1> USE DEF IInv
  <1>1. /\ UNCHANGED <<file, tmp, claimed, view, line, last, exposed, revived>>
        /\ pc[c][i] = "appended" /\ Go(c, i, "rewriting")
    BY DEF CompactLoad, history
  <1>2. /\ pc' \in [Callers -> [Ids -> Places]]
        /\ pc'[c][i] = "rewriting"
        /\ \A d \in Callers, j \in Ids : (d # c \/ j # i) => pc'[d][j] = pc[d][j]
    BY <1>1, GoMoves DEF Places
  <1>3. PICK newest : snapshot' = [snapshot EXCEPT ![c][i] = Kept(file, newest)]
    BY DEF CompactLoad
  <1> DEFINE kept == Kept(file, newest)
  <1>4. kept \in Rows /\ \A j \in Ids \ exposed : Tells(kept, j)
    BY DEF Kept, Typed, Rows, LostOnlyInCompaction, Tells
  <1> HIDE DEF kept
  <1>5. /\ snapshot' \in [Callers -> [Ids -> Rows]]
        /\ snapshot'[c][i] = kept
        /\ \A d \in Callers, j \in Ids : (d # c \/ j # i) => snapshot'[d][j] = snapshot[d][j]
    BY <1>3, <1>4 DEF Typed, kept
  <1>6. Typed'
    BY <1>1, <1>2, <1>5 DEF Typed
  <1>7. LostOnlyInCompaction'
    BY <1>1 DEF LostOnlyInCompaction
  <1>8. SnapshotTells'
    <2> SUFFICES ASSUME NEW d \in Callers, NEW j \in Ids, Window(d, j)', NEW k \in Ids \ exposed
                 PROVE  Tells(snapshot'[d][j], k)
      BY <1>1 DEF SnapshotTells, Tells
    <2>1. CASE d = c /\ j = i
      BY <1>4, <1>5, <2>1
    <2>2. CASE d # c \/ j # i
      BY <1>2, <1>5, <2>2 DEF SnapshotTells, Window
    <2> QED
      BY <2>1, <2>2
  <1>9. TmpTells'
    <2>1. \A d \in Callers, j \in Ids : pc[d][j] = "renaming" => pc'[d][j] = "renaming"
      BY <1>1, <1>2
    <2> QED
      BY <1>1, <2>1 DEF TmpTells, Tells
  <1>10. LoadsIdle' /\ SendsClaimed' /\ SendsAlone'
    BY <1>1, <1>2, ClaimsKept
  <1> QED
    BY <1>6, <1>7, <1>8, <1>9, <1>10

LEMMA CompactWriteKeeps ==
  ASSUME IInv, NEW c \in Callers, NEW i \in Ids, CompactWrite(c, i)
  PROVE  IInv'
  <1> USE DEF IInv
  <1>1. /\ UNCHANGED <<file, claimed, view, line, snapshot, last, exposed, revived>>
        /\ tmp' = snapshot[c][i]
        /\ pc[c][i] = "rewriting" /\ Go(c, i, "renaming")
    BY DEF CompactWrite, history
  <1>2. /\ pc' \in [Callers -> [Ids -> Places]]
        /\ pc'[c][i] = "renaming"
        /\ \A d \in Callers, j \in Ids : (d # c \/ j # i) => pc'[d][j] = pc[d][j]
    BY <1>1, GoMoves DEF Places
  <1>3. Typed'
    BY <1>1, <1>2 DEF Typed
  <1>4. LostOnlyInCompaction'
    BY <1>1 DEF LostOnlyInCompaction
  <1>5. \A d \in Callers, j \in Ids : Window(d, j)' => Window(d, j)
    BY <1>1, <1>2 DEF Window
  <1>6. SnapshotTells'
    BY <1>1, <1>5 DEF SnapshotTells, Tells
  <1>7. TmpTells'
    <2>1. \A j \in Ids \ exposed : Tells(snapshot[c][i], j)
      BY <1>1 DEF SnapshotTells, Window
    <2>2. snapshot[c][i] \in Rows
      BY DEF Typed
    <2> QED
      BY <1>1, <1>2, <2>1, <2>2 DEF TmpTells, Tells
  <1>8. LoadsIdle' /\ SendsClaimed' /\ SendsAlone'
    BY <1>1, <1>2, ClaimsKept
  <1> QED
    BY <1>3, <1>4, <1>6, <1>7, <1>8

LEMMA RenameKeeps ==
  ASSUME IInv, NEW c \in Callers, NEW i \in Ids, CompactRename(c, i)
  PROVE  IInv'
  <1> USE DEF IInv
  <1>1. /\ UNCHANGED <<claimed, view, line, last, exposed, revived>>
        /\ pc[c][i] = "renaming" /\ Go(c, i, "idle")
        /\ snapshot' = [snapshot EXCEPT ![c][i] = Blank]
        /\ tmp' = NoFile
        /\ file' = IF tmp = NoFile THEN file ELSE tmp
    BY DEF CompactRename, history
  <1>2. /\ pc' \in [Callers -> [Ids -> Places]]
        /\ pc'[c][i] = "idle"
        /\ \A d \in Callers, j \in Ids : (d # c \/ j # i) => pc'[d][j] = pc[d][j]
    BY <1>1, GoMoves DEF Places
  <1>3. /\ snapshot' \in [Callers -> [Ids -> Rows]]
        /\ \A d \in Callers, j \in Ids : (d # c \/ j # i) => snapshot'[d][j] = snapshot[d][j]
    BY <1>1 DEF Typed, Blank, Rows
  <1>4. Typed'
    BY <1>1, <1>2, <1>3 DEF Typed, TmpTells
  <1>5. LostOnlyInCompaction'
    BY <1>1 DEF LostOnlyInCompaction, TmpTells, Tells
  <1>6. \A d \in Callers, j \in Ids : Window(d, j)' => Window(d, j) /\ (d # c \/ j # i)
    BY <1>1, <1>2 DEF Window
  <1>7. SnapshotTells'
    BY <1>1, <1>3, <1>6 DEF SnapshotTells, Tells
  <1>8. TmpTells'
    BY <1>1 DEF TmpTells
  <1>9. LoadsIdle' /\ SendsClaimed' /\ SendsAlone'
    BY <1>1, <1>2, ClaimsKept
  <1> QED
    BY <1>4, <1>5, <1>7, <1>8, <1>9

LEMMA RestartKeeps == ASSUME IInv, Restart PROVE IInv'
  <1> USE DEF IInv
  <1>1. /\ \A c \in Callers, i \in Ids : pc'[c][i] = "idle"
        /\ tmp' = NoFile
        /\ UNCHANGED <<file, last, exposed>>
    BY DEF Restart
  <1>2. Typed'
    BY DEF Typed, Restart, Places, Blank, Rows
  <1>3. LostOnlyInCompaction'
    BY <1>1 DEF LostOnlyInCompaction
  <1>4. SnapshotTells' /\ TmpTells'
    BY <1>1 DEF SnapshotTells, TmpTells, Window
  <1>5. LoadsIdle' /\ SendsClaimed' /\ SendsAlone'
    BY <1>1 DEF LoadsIdle, SendsClaimed, SendsAlone, Sends, Callers
  <1> QED
    BY <1>2, <1>3, <1>4, <1>5

LEMMA StepIInv == ASSUME IInv, [Next]_vars PROVE IInv'
  <1>1. CASE UNCHANGED vars
    BY <1>1 DEF IInv, vars, history, Typed, LostOnlyInCompaction, SnapshotTells, TmpTells, Tells,
                Window, LoadsIdle, SendsClaimed, SendsAlone, Sends
  <1>2. CASE Next
    BY <1>2, BeginKeeps, LoadKeeps, ClaimKeeps, RecordKeeps, AppendKeeps, CompactLoadKeeps,
       CompactWriteKeeps, RenameKeeps, RestartKeeps
    DEF Next
  <1> QED
    BY <1>1, <1>2

LEMMA AlwaysIInv == Spec => []IInv
  <1>1. IInv /\ [Next]_vars => IInv'
    BY StepIInv
  <1> QED
    BY <1>1, InitIInv, PTL DEF Spec

(* However the calls of the store overlap: what was last written of a      *)
(* delivery is what the file says, unless that line landed during a        *)
(* compaction or the delivery is delivered and let go (append and compact, *)
(* jsonl-store.ts).                                                        *)
THEOREM LossIsOfCompaction == Spec => []LostOnlyInCompaction
  <1>1. IInv => LostOnlyInCompaction
    BY DEF IInv
  <1> QED
    BY <1>1, AlwaysIInv, PTL

(* And two sweeps of the process never send one delivery at the same time, *)
(* unless it was revived while one of them had it in hand (claimDue and    *)
(* recordAttempt, jsonl-store.ts).                                         *)
THEOREM OneSweepAlways == Spec => []OneSweepAtATime
  <1>1. ASSUME SendsAlone, NEW i \in Ids \ revived
        PROVE  Cardinality(InHand(i)) <= 1
    <2>1. CASE InHand(i) = {}
      BY <2>1, FS_EmptySet
    <2>2. CASE InHand(i) # {}
      <3>1. PICK s \in InHand(i) : TRUE
        BY <2>2
      <3>2. \A t \in InHand(i) : t = s
        BY <1>1, <3>1 DEF SendsAlone, Sends, InHand
      <3>3. InHand(i) = {s}
        BY <3>1, <3>2
      <3>4. Cardinality(InHand(i)) = 1
        BY <3>3, FS_Singleton
      <3> QED
        BY <3>4
    <2> QED
      BY <2>1, <2>2
  <1>2. IInv => OneSweepAtATime
    BY <1>1 DEF IInv, OneSweepAtATime
  <1> QED
    BY <1>2, AlwaysIInv, PTL

=============================================================================
