--------------------------- MODULE WebhookJournal ---------------------------
(***************************************************************************)
(* The file behind the webhook outbox (shared/src/webhooks/jsonl-store.ts):*)
(* one line appended for every change of a delivery, the last line of an   *)
(* id wins, and when the file is long an append rewrites it.  The calls of *)
(* the gate's process interleave at every await: the settle path enqueues  *)
(* while sweeps, which may overlap, claim, send and record.                *)
(*                                                                         *)
(* The file is its last line of each id and its length.  Waiting times are *)
(* left out: a pending delivery is due.                                    *)
(***************************************************************************)
EXTENDS Integers, FiniteSets, FiniteSetsExt

CONSTANTS Ids,            \* deliveries
          Sweeps,         \* sweeps of the process that may overlap
          Gate,           \* the settle path
          CompactAt,      \* compactAtLines
          KeepDelivered,  \* keepDelivered
          MaxRecords,     \* bound on recorded attempts and revivals
          NoFile,
          NoRead

ASSUME JournalAssumption ==
  /\ Gate \notin Sweeps
  /\ CompactAt \in Nat \ {0}
  /\ KeepDelivered \in Nat
  /\ MaxRecords \in Nat

Callers == Sweeps \cup {Gate}
Statuses == {"pending", "delivered", "failed", "exhausted"}

VARIABLES
  file,      \* the last line of each id, "absent" if it has none
  lines,     \* length of the file
  tmp,       \* the compaction file of the process, NoFile if there is none
  claimed,   \* claimedAt, in the memory of the process
  view,      \* the rows a sweep's claimDue has loaded, NoRead if it has not
  pc,        \* where each caller is with each delivery
  line,      \* the status it is about to append
  snapshot,  \* the rows its compaction keeps
  last,      \* history: the last status appended for each id
  exposed,   \* history: ids whose last line landed during a compaction
  revived,   \* history: ids revived while a sweep had them in hand
  records    \* attempts recorded and deliveries revived so far

history == <<last, exposed, revived, records>>
vars == <<file, lines, tmp, claimed, view, pc, line, snapshot, history>>

NoRow == "absent"
Rows == [Ids -> Statuses \cup {NoRow}]
Blank == [i \in Ids |-> NoRow]

Present(rows) == {i \in Ids : rows[i] # NoRow}

Init ==
  /\ file = Blank
  /\ lines = 0
  /\ tmp = NoFile
  /\ claimed = {}
  /\ view = [s \in Sweeps |-> NoRead]
  /\ pc = [c \in Callers |-> [i \in Ids |-> "idle"]]
  /\ line = [c \in Callers |-> [i \in Ids |-> NoRow]]
  /\ snapshot = [c \in Callers |-> [i \in Ids |-> Blank]]
  /\ last = Blank
  /\ exposed = {}
  /\ revived = {}
  /\ records = 0

Go(c, i, to) == pc' = [pc EXCEPT ![c][i] = to]

-----------------------------------------------------------------------------

(* enqueue: a settlement is enqueued once, under an id of its own.         *)
Enqueue(i) ==
  /\ pc[Gate][i] = "idle"
  /\ last[i] = NoRow
  /\ line' = [line EXCEPT ![Gate][i] = "pending"]
  /\ Go(Gate, i, "appending")
  /\ UNCHANGED <<file, lines, tmp, claimed, view, snapshot, history>>

(* claimDue loads the rows.                                                *)
ClaimLoad(s) ==
  /\ view[s] = NoRead
  /\ \A i \in Ids : pc[s][i] = "idle"
  /\ view' = [view EXCEPT ![s] = file]
  /\ UNCHANGED <<file, lines, tmp, claimed, pc, line, snapshot, history>>

(* Mutant: a sweep takes what an earlier one has claimed.                  *)
DueOrClaimed(rows, i) == rows[i] = "pending"

Due(rows, i) == rows[i] = "pending" /\ i \notin claimed

(* And filters and stamps them in one go: the claims are those of now, the *)
(* rows those of the load.                                                 *)
ClaimDue(s) ==
  /\ view[s] # NoRead
  /\ LET due == {i \in Ids : Due(view[s], i)}
     IN  /\ claimed' = claimed \cup due
         /\ pc' = [pc EXCEPT ![s] = [i \in Ids |-> IF i \in due THEN "sending" ELSE "idle"]]
  /\ view' = [view EXCEPT ![s] = NoRead]
  /\ UNCHANGED <<file, lines, tmp, line, snapshot, history>>

(* recordAttempt: the claim is gone before the line is written.  A row the *)
(* file has lost is not recorded at all.                                   *)
RecordAttempt(s, i) ==
  /\ pc[s][i] = "sending"
  /\ records < MaxRecords
  /\ records' = records + 1
  /\ IF file[i] = NoRow
     THEN Go(s, i, "idle") /\ UNCHANGED <<claimed, line>>
     ELSE /\ claimed' = claimed \ {i}
          /\ \E st \in Statuses : line' = [line EXCEPT ![s][i] = st]
          /\ Go(s, i, "appending")
  /\ UNCHANGED <<file, lines, tmp, view, snapshot, last, exposed, revived>>

InHand(i) == {s \in Sweeps : pc[s][i] = "sending"}

(* revive: an operation of the store that an operator's tool may call.     *)
Revive(i) ==
  /\ pc[Gate][i] = "idle"
  /\ file[i] = "exhausted"
  /\ records < MaxRecords
  /\ records' = records + 1
  /\ claimed' = claimed \ {i}
  /\ line' = [line EXCEPT ![Gate][i] = "pending"]
  /\ Go(Gate, i, "appending")
  /\ revived' = IF InHand(i) = {} THEN revived ELSE revived \cup {i}
  /\ UNCHANGED <<file, lines, tmp, view, snapshot, last, exposed>>

(* A compaction is under way between its load and its rename.              *)
Compacting == \E c \in Callers, i \in Ids : pc[c][i] \in {"rewriting", "renaming"}

(* appendFile completes; a long file is compacted by the same call.        *)
Append(c, i) ==
  /\ pc[c][i] = "appending"
  /\ file' = [file EXCEPT ![i] = line[c][i]]
  /\ last' = [last EXCEPT ![i] = line[c][i]]
  /\ exposed' = IF Compacting THEN exposed \cup {i} ELSE exposed \ {i}
  /\ lines' = lines + 1
  /\ line' = [line EXCEPT ![c][i] = NoRow]
  /\ Go(c, i, IF lines' > CompactAt THEN "appended" ELSE "idle")
  /\ UNCHANGED <<tmp, claimed, view, snapshot, revived, records>>

-----------------------------------------------------------------------------
(* Compaction.                                                             *)

Delivered(rows) == {i \in Ids : rows[i] = "delivered"}

(* Mutant: whatever is not pending counts as terminal.                     *)
KeptPendingOnly(rows, newest) ==
  [i \in Ids |-> IF rows[i] = "pending" \/ i \in newest THEN rows[i] ELSE NoRow]

(* Every row that is not delivered, and the newest of those that are.      *)
Kept(rows, newest) ==
  [i \in Ids |-> IF rows[i] # "delivered" \/ i \in newest THEN rows[i] ELSE NoRow]

CompactLoad(c, i) ==
  /\ pc[c][i] = "appended"
  /\ \E newest \in kSubset(Min({KeepDelivered, Cardinality(Delivered(file))}), Delivered(file)) :
       snapshot' = [snapshot EXCEPT ![c][i] = Kept(file, newest)]
  /\ Go(c, i, "rewriting")
  /\ UNCHANGED <<file, lines, tmp, claimed, view, line, history>>

(* The rows go to a file of their own: one for the process, not the call.  *)
CompactWrite(c, i) ==
  /\ pc[c][i] = "rewriting"
  /\ tmp' = snapshot[c][i]
  /\ Go(c, i, "renaming")
  /\ UNCHANGED <<file, lines, claimed, view, line, snapshot, history>>

(* The rename replaces the journal; it throws if another compaction has    *)
(* renamed the file away.                                                  *)
CompactRename(c, i) ==
  /\ pc[c][i] = "renaming"
  /\ IF tmp = NoFile
     THEN UNCHANGED <<file, lines, tmp>>
     ELSE /\ file' = tmp
          /\ lines' = Cardinality(Present(tmp))
          /\ tmp' = NoFile
  /\ snapshot' = [snapshot EXCEPT ![c][i] = Blank]
  /\ Go(c, i, "idle")
  /\ UNCHANGED <<claimed, view, line, history>>

(* The process restarts: its claims and its calls are gone, the file stays,*)
(* and the next process has a compaction file of another name.             *)
Restart ==
  /\ \E c \in Callers, i \in Ids : pc[c][i] # "idle"
  /\ claimed' = {}
  /\ revived' = {}
  /\ view' = [s \in Sweeps |-> NoRead]
  /\ tmp' = NoFile
  /\ pc' = [c \in Callers |-> [i \in Ids |-> "idle"]]
  /\ line' = [c \in Callers |-> [i \in Ids |-> NoRow]]
  /\ snapshot' = [c \in Callers |-> [i \in Ids |-> Blank]]
  /\ UNCHANGED <<file, lines, last, exposed, records>>

-----------------------------------------------------------------------------

Next ==
  \/ \E i \in Ids : Enqueue(i) \/ Revive(i)
  \/ \E s \in Sweeps : ClaimLoad(s) \/ ClaimDue(s)
  \/ \E s \in Sweeps, i \in Ids : RecordAttempt(s, i)
  \/ \E c \in Callers, i \in Ids :
       Append(c, i) \/ CompactLoad(c, i) \/ CompactWrite(c, i) \/ CompactRename(c, i)
  \/ Restart

Spec == Init /\ [][Next]_vars

-----------------------------------------------------------------------------
(* Properties.                                                             *)

(* Compaction "keeps EVERY non-delivered delivery however old"           *)
(* (compact, jsonl-store.ts).  With calls that overlap it keeps what was   *)
(* last written of a delivery unless that line landed while a compaction   *)
(* was between its load and its rename: any other row the file has as it   *)
(* was last written, or has let go because it was delivered, whatever      *)
(* appends, compactions that share a file and restarts there were.         *)
LostOnlyInCompaction ==
  \A i \in Ids \ exposed :
    file[i] = last[i] \/ (last[i] = "delivered" /\ file[i] = NoRow)

(* Two sweeps never send one delivery at the same time (claimDue and       *)
(* recordAttempt, jsonl-store.ts), however stale the rows they loaded,     *)
(* unless the delivery was revived while a sweep had it in hand.           *)
OneSweepAtATime ==
  \A i \in Ids \ revived : Cardinality(InHand(i)) <= 1

(* "Unsent work is never dropped" (jsonl-store.ts): what the comment says,  *)
(* of which an overlapping append makes a counterexample.                  *)
UnsentKept ==
  \A i \in Ids : last[i] \notin {NoRow, "delivered"} => file[i] = last[i]

=============================================================================
