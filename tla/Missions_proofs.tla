--------------------------- MODULE Missions_proofs ---------------------------
(***************************************************************************)
(* Proofs about Missions, for every set of missions, requests and videos   *)
(* and every bound.  TxInv is the inductive strengthening: what an open    *)
(* transaction has staged, said in terms of the committed row it holds the *)
(* lock of.  QueueInv counts commands and audited queueings beside it.     *)
(***************************************************************************)
EXTENDS Missions, FiniteSetTheorems, TLAPS

\* Past its UPDATE, before its COMMIT.
Staged == {"audit", "outbox", "refind", "commit"}

\* A lock belongs to the transaction of a call on that mission.
LockInv ==
  \A m \in Missions, r \in Requests :
    lock[m] = r => pc[r] \in Staged /\ call[r].mission = m

\* A call in progress is one of the service's, on a mission that was created;
\* only a transition rechecks, and only a DRAFT -> QUEUED inserts a command.
CallInv ==
  \A r \in Requests :
    /\ pc[r] # "idle" =>
         call[r] \in Calls /\ row[call[r].mission].life # "absent"
    /\ pc[r] = "recheck" => call[r].op = "transition"
    /\ pc[r] = "outbox" => IsQueueing(call[r], seen[r])

\* The staged row is the committed one with the call's change: the lock has
\* kept every other transaction from committing another version.  An update
\* that is read back holds the lock and found the mission live.
StagedRowInv ==
  \A r \in Requests : pc[r] \in Staged =>
    /\ ReadsBack(call[r]) => lock[call[r].mission] = r
    /\ lock[call[r].mission] = r =>
         /\ tx[r].row = Updated(call[r], row[call[r].mission])
         /\ (ReadsBack(call[r]) \/ call[r].op = "delete" \/ pc[r] = "commit")
              => row[call[r].mission].life # "deleted"

\* What is staged for the audit and outbox tables at each point.
StagedRowsInv ==
  \A r \in Requests :
    /\ pc[r] \in {"outbox", "refind", "commit"} =>
         tx[r].audit = <<AuditRow(call[r], seen[r])>>
    /\ pc[r] = "commit" =>
         \/ tx[r].outbox = <<>>
         \/ /\ IsQueueing(call[r], seen[r])
            /\ tx[r].outbox =
                 <<[mission |-> call[r].mission, video |-> seen[r].video]>>
    /\ pc[r] # "commit" => tx[r].outbox = <<>>

\* A call that queues a mission saw a video, and videos are never detached.
VideoInv ==
  \A r \in Requests : pc[r] # "idle" /\ IsQueueing(call[r], seen[r]) =>
    seen[r].video \in Videos /\ row[call[r].mission].video \in Videos

TxInv ==
  /\ TypeOK
  /\ LockInv
  /\ CallInv
  /\ StagedRowInv
  /\ StagedRowsInv
  /\ VideoInv

-----------------------------------------------------------------------------
\* The types of the rows the operators build.
LEMMA RowTypes ==
  /\ \A life \in {"absent", "live", "deleted"} : NewRow(life) \in Rows
  /\ \A c \in Calls, s \in Rows : Updated(c, s) \in Rows
  /\ \A c \in Calls, s \in Rows : AuditRow(c, s) \in AuditRows
  /\ \A c \in Calls : c.mission \in Missions
<1>1. \A life \in {"absent", "live", "deleted"} : NewRow(life) \in Rows
  BY DEF NewRow, Rows, Statuses
<1>2. ASSUME NEW c \in Calls, NEW s \in Rows
      PROVE  Updated(c, s) \in Rows
  BY DEF Calls, Updated, Rows
<1>3. ASSUME NEW c \in Calls, NEW s \in Rows
      PROVE  AuditRow(c, s) \in AuditRows
  BY DEF Calls, AuditRow, AuditRows, Rows
<1>4. \A c \in Calls : c.mission \in Missions
  BY DEF Calls
<1> QED
  BY <1>1, <1>2, <1>3, <1>4

\* Every step keeps every variable in its domain, given what a call in progress is.
LEMMA TypesPreserved == TypeOK /\ CallInv /\ [Next]_vars => TypeOK'
<1> SUFFICES ASSUME TypeOK, CallInv, [Next]_vars PROVE TypeOK'
  OBVIOUS
<1> USE DEF TypeOK
<1>0. ASSUME NEW r \in Requests
      PROVE  /\ NoCall \in Calls \cup {NoCall}
             /\ NewRow("absent") \in Rows
             /\ \A s \in Rows : NoWrites(s) \in
                  [row: Rows, audit: Seq(AuditRows), outbox: Seq(OutboxRows)]
             /\ pc[r] # "idle" => call[r] \in Calls /\ call[r].mission \in Missions
  BY RowTypes DEF NoWrites, CallInv
<1>1. ASSUME NEW m \in Missions, createMission(m) PROVE TypeOK'
  <2>1. [action |-> "created", from |-> "DRAFT", to |-> "DRAFT"] \in AuditRows
    BY DEF AuditRows, Statuses
  <2> QED
    BY <1>1, <2>1, RowTypes DEF createMission
<1>2. ASSUME NEW r \in Requests, Finish(r)
      PROVE  /\ lock' \in [Missions -> Requests \cup {NoRequest}]
             /\ pc' \in [Requests -> Positions]
             /\ call' \in [Requests -> Calls \cup {NoCall}]
             /\ seen' \in [Requests -> Rows]
             /\ tx' \in [Requests -> [row: Rows, audit: Seq(AuditRows), outbox: Seq(OutboxRows)]]
  BY <1>0, <1>2 DEF Finish, Positions
<1>3. ASSUME NEW r \in Requests, Abandon(r) PROVE TypeOK'
  BY <1>2, <1>3 DEF Abandon
<1>4. ASSUME NEW r \in Requests, NEW c \in Calls, Begin(r, c) PROVE TypeOK'
  BY <1>0, <1>4, RowTypes DEF Begin, Positions
<1>5. ASSUME NEW r \in Requests, Recheck(r) PROVE TypeOK'
  BY <1>0, <1>5 DEF Recheck, Positions
<1>6. ASSUME NEW r \in Requests, Update(r) PROVE TypeOK'
  <2>1. Updated(call[r], row[call[r].mission]) \in Rows
    BY <1>0, <1>6, RowTypes DEF Update
  <2> QED
    BY <1>0, <1>6, <2>1 DEF Update, Positions
<1>7. ASSUME NEW r \in Requests, UpdateMatchesNothing(r) PROVE TypeOK'
  BY <1>7 DEF UpdateMatchesNothing, Positions
<1>8. ASSUME NEW r \in Requests, RecordAudit(r) PROVE TypeOK'
  <2>1. AuditRow(call[r], seen[r]) \in AuditRows
    BY <1>0, <1>8, RowTypes DEF RecordAudit
  <2>2. AfterAudit(call[r], seen[r]) \in Positions
    BY DEF AfterAudit, Positions
  <2> QED
    BY <1>8, <2>1, <2>2 DEF RecordAudit
<1>9. ASSUME NEW r \in Requests, InsertOutbox(r) PROVE TypeOK'
  <2>1. [mission |-> call[r].mission, video |-> seen[r].video] \in OutboxRows
    BY <1>0, <1>9 DEF InsertOutbox, OutboxRows, Rows
  <2> QED
    BY <1>9, <2>1 DEF InsertOutbox, Positions
<1>10. ASSUME NEW r \in Requests, FindAgain(r) PROVE TypeOK'
  BY <1>10 DEF FindAgain, Positions
<1>11. ASSUME NEW r \in Requests, Commit(r) PROVE TypeOK'
  <2>1. Visible(r, call[r].mission) \in Rows
    BY <1>0, <1>11 DEF Commit, Visible
  <2>2. /\ tx[r].audit \in Seq(AuditRows)
        /\ tx[r].outbox \in Seq(OutboxRows)
    OBVIOUS
  <2>3. /\ row' \in [Missions -> Rows]
        /\ audit' \in [Missions -> Seq(AuditRows)]
        /\ outbox' \in Seq(OutboxRows)
    BY <1>0, <1>11, <2>1, <2>2 DEF Commit
  <2> QED
    BY <1>2, <1>11, <2>3 DEF Commit
<1>12. CASE UNCHANGED vars
  BY <1>12 DEF vars
<1> QED
  BY <1>1, <1>3, <1>4, <1>5, <1>6, <1>7, <1>8, <1>9, <1>10, <1>11, <1>12
  DEF Next, Step, Rollback, RecheckFails, UpdateFails, FindAgainFails

-----------------------------------------------------------------------------
\* Nothing is in progress at first, so nothing is staged.
LEMMA InitTxInv == Init => TxInv
<1> SUFFICES ASSUME Init PROVE TxInv
  OBVIOUS
<1> USE DEF Init
<1>1. TypeOK
  BY RowTypes DEF TypeOK, Positions, NoWrites
<1>2. LockInv /\ CallInv /\ StagedRowInv /\ VideoInv
  BY NoRequestAssumption DEF LockInv, CallInv, StagedRowInv, VideoInv, Staged
<1>3. StagedRowsInv
  BY DEF StagedRowsInv, NoWrites
<1> QED
  BY <1>1, <1>2, <1>3 DEF TxInv

\* Every way out of a transaction that commits nothing.
LEMMA AbandonTxInv ==
  ASSUME TxInv, NEW r \in Requests, Abandon(r), TypeOK'
  PROVE  TxInv'
<1> USE DEF TxInv, Abandon, Finish, TypeOK
<1>1. LockInv'
  BY NoRequestAssumption DEF LockInv
<1>2. CallInv'
  BY DEF CallInv
<1>3. StagedRowInv'
  BY RowTypes, NoRequestAssumption DEF StagedRowInv, Staged, CallInv
<1>4. StagedRowsInv'
  BY DEF StagedRowsInv, NoWrites
<1>5. VideoInv'
  BY DEF VideoInv
<1> QED
  BY <1>1, <1>2, <1>3, <1>4, <1>5

\* A mission that is only now created has no call in progress on it.
LEMMA createMissionTxInv ==
  ASSUME TxInv, NEW m \in Missions, createMission(m), TypeOK'
  PROVE  TxInv'
<1> USE DEF TxInv, createMission, TypeOK
<1>1. LockInv' /\ CallInv' /\ StagedRowsInv'
  BY DEF LockInv, CallInv, StagedRowsInv, NewRow
<1>2. StagedRowInv'
  BY RowTypes DEF StagedRowInv, CallInv, Staged
<1>3. VideoInv'
  BY RowTypes DEF VideoInv, CallInv
<1> QED
  BY <1>1, <1>2, <1>3

\* A call that starts has staged nothing; the row it accepted exists.
LEMMA BeginTxInv ==
  ASSUME TxInv, NEW r \in Requests, NEW c \in Calls, Begin(r, c), TypeOK'
  PROVE  TxInv'
<1> USE DEF TxInv, Begin, TypeOK
<1>1. LockInv'
  BY NoRequestAssumption DEF LockInv, Staged
<1>2. CallInv'
  BY RowTypes DEF CallInv, Accepts, Found
<1>3. StagedRowInv'
  <2>1. pc'[r] \notin Staged
    BY DEF Staged
  <2> QED
    BY <2>1 DEF StagedRowInv
<1>4. StagedRowsInv'
  BY DEF StagedRowsInv, NoWrites, AfterAudit, CallInv
<1>5. VideoInv'
  BY RowTypes DEF VideoInv, IsQueueing, Accepts, Rows, CallInv
<1> QED
  BY <1>1, <1>2, <1>3, <1>4, <1>5

\* Reading the row again stages nothing and takes no lock.
LEMMA RecheckTxInv ==
  ASSUME TxInv, NEW r \in Requests, Recheck(r), TypeOK'
  PROVE  TxInv'
<1> USE DEF TxInv, Recheck, TypeOK
<1>1. LockInv'
  BY NoRequestAssumption DEF LockInv, Staged
<1>2. CallInv'
  BY RowTypes DEF CallInv, Accepts, IsQueueing, AfterAudit
<1>3. StagedRowInv'
  BY RowTypes, NoRequestAssumption DEF StagedRowInv, LockInv, CallInv, Staged
<1>4. StagedRowsInv'
  BY DEF StagedRowsInv, NoWrites, AfterAudit, CallInv
<1>5. VideoInv'
  BY RowTypes DEF VideoInv, IsQueueing, Accepts, Rows, CallInv
<1> QED
  BY <1>1, <1>2, <1>3, <1>4, <1>5

\* The UPDATE takes the free lock and stages the committed row with the change.
LEMMA UpdateTxInv ==
  ASSUME TxInv, NEW r \in Requests, Update(r), TypeOK'
  PROVE  TxInv'
<1> USE DEF TxInv, Update, TypeOK
<1>1. LockInv'
  BY NoRequestAssumption DEF LockInv, Staged
<1>2. CallInv'
  BY RowTypes DEF CallInv, Accepts, IsQueueing, AfterAudit
<1>3. StagedRowInv'
  BY RowTypes, NoRequestAssumption DEF StagedRowInv, LockInv, CallInv, Staged, Updated, Matches, ReadsBack, Found, NoWrites
<1>4. StagedRowsInv'
  BY DEF StagedRowsInv, NoWrites, AfterAudit, CallInv
<1>5. VideoInv'
  BY RowTypes DEF VideoInv, IsQueueing, Accepts, Rows, CallInv
<1> QED
  BY <1>1, <1>2, <1>3, <1>4, <1>5

\* An UPDATE that matches no row stages none and is no read-back call.
LEMMA UpdateMatchesNothingTxInv ==
  ASSUME TxInv, NEW r \in Requests, UpdateMatchesNothing(r), TypeOK'
  PROVE  TxInv'
<1> USE DEF TxInv, UpdateMatchesNothing, TypeOK
<1>1. LockInv'
  BY NoRequestAssumption DEF LockInv, Staged
<1>2. CallInv'
  BY RowTypes DEF CallInv, Accepts, IsQueueing, AfterAudit
<1>3. StagedRowInv'
  BY RowTypes, NoRequestAssumption DEF StagedRowInv, LockInv, CallInv, Staged, ReadsBack, Matches
<1>4. StagedRowsInv'
  BY DEF StagedRowsInv, NoWrites, AfterAudit, CallInv
<1>5. VideoInv'
  BY RowTypes DEF VideoInv, IsQueueing, Accepts, Rows, CallInv
<1> QED
  BY <1>1, <1>2, <1>3, <1>4, <1>5

\* The audit row names the status that was checked and the target of the call.
LEMMA RecordAuditTxInv ==
  ASSUME TxInv, NEW r \in Requests, RecordAudit(r), TypeOK'
  PROVE  TxInv'
<1> USE DEF TxInv, RecordAudit, TypeOK
<1>1. LockInv'
  BY NoRequestAssumption DEF LockInv, Staged, AfterAudit
<1>2. CallInv'
  BY RowTypes DEF CallInv, Accepts, IsQueueing, AfterAudit
<1>3. StagedRowInv'
  BY RowTypes, NoRequestAssumption DEF StagedRowInv, LockInv, CallInv, Staged,
     AfterAudit, ReadsBack, Calls
<1>4. StagedRowsInv'
  <2> SUFFICES ASSUME NEW q \in Requests PROVE StagedRowsInv!(q)'
    BY DEF StagedRowsInv
  <2>1. CASE q = r
    BY <2>1 DEF StagedRowsInv, AfterAudit
  <2>2. CASE q # r
    BY <2>2 DEF StagedRowsInv
  <2> QED
    BY <2>1, <2>2
<1>5. VideoInv'
  BY RowTypes DEF VideoInv, IsQueueing, Accepts, Rows, CallInv
<1> QED
  BY <1>1, <1>2, <1>3, <1>4, <1>5

\* The outbox row carries the video of the row the transaction read.
LEMMA InsertOutboxTxInv ==
  ASSUME TxInv, NEW r \in Requests, InsertOutbox(r), TypeOK'
  PROVE  TxInv'
<1> USE DEF TxInv, InsertOutbox, TypeOK
<1>1. LockInv'
  BY NoRequestAssumption DEF LockInv, Staged
<1>2. CallInv'
  BY RowTypes DEF CallInv, Accepts, IsQueueing, AfterAudit
<1>3. StagedRowInv'
  BY RowTypes, NoRequestAssumption DEF StagedRowInv, LockInv, CallInv, Staged,
     ReadsBack, IsQueueing
<1>4. StagedRowsInv'
  BY DEF StagedRowsInv, NoWrites, AfterAudit, CallInv
<1>5. VideoInv'
  BY RowTypes DEF VideoInv, IsQueueing, Accepts, Rows, CallInv
<1> QED
  BY <1>1, <1>2, <1>3, <1>4, <1>5

\* Reading the row once more changes nothing that is staged.
LEMMA FindAgainTxInv ==
  ASSUME TxInv, NEW r \in Requests, FindAgain(r), TypeOK'
  PROVE  TxInv'
<1> USE DEF TxInv, FindAgain, TypeOK
<1>1. LockInv'
  BY NoRequestAssumption DEF LockInv, Staged
<1>2. CallInv'
  BY RowTypes DEF CallInv, Accepts, IsQueueing, AfterAudit
<1>3. StagedRowInv'
  BY RowTypes, NoRequestAssumption DEF StagedRowInv, LockInv, CallInv, Staged, Visible, Found, Updated, ReadsBack
<1>4. StagedRowsInv'
  BY DEF StagedRowsInv, NoWrites, AfterAudit, CallInv
<1>5. VideoInv'
  BY RowTypes DEF VideoInv, IsQueueing, Accepts, Rows, CallInv
<1> QED
  BY <1>1, <1>2, <1>3, <1>4, <1>5

\* COMMIT by r changes one row.  No other transaction that has staged a version
\* of that row exists (r holds the lock or leaves the row alone), and neither
\* its life nor its video goes backwards.
LEMMA CommitTxInv ==
  ASSUME TxInv, NEW r \in Requests, Commit(r), TypeOK'
  PROVE  TxInv'
<1> DEFINE m == call[r].mission
<1> USE DEF TxInv, Commit, Finish, TypeOK
<1>0. /\ m \in Missions /\ call[r] \in Calls
      /\ row[m].life # "absent"
      /\ pc[r] \in Staged
  BY RowTypes DEF CallInv, Staged
<1>1. LockInv'
  BY NoRequestAssumption DEF LockInv
<1>2. /\ lock[m] # r => row' = row
      /\ \A n \in Missions : n # m => row'[n] = row[n]
      /\ lock[m] = r => row'[m] = Updated(call[r], row[m])
  BY <1>0 DEF Visible, StagedRowInv
<1>3. \A n \in Missions :
        /\ row[n].life # "absent" => row'[n].life # "absent"
        /\ row[n].video \in Videos => row'[n].video \in Videos
  BY <1>0, <1>2 DEF Updated, Calls
<1>4. CallInv'
  BY <1>3, RowTypes DEF CallInv
<1>5. StagedRowInv'
  <2> SUFFICES ASSUME NEW q \in Requests, pc'[q] \in Staged
               PROVE  StagedRowInv!(q)'
    BY DEF StagedRowInv
  <2>1. q # r /\ pc[q] \in Staged /\ call'[q] = call[q] /\ tx'[q] = tx[q]
    BY DEF Staged
  <2>2. call[q] \in Calls /\ call[q].mission \in Missions
    BY <2>1, RowTypes DEF CallInv, Staged
  <2>3. lock'[call[q].mission] = q <=> lock[call[q].mission] = q
    BY <2>1, <2>2, NoRequestAssumption
  <2>4. lock[call[q].mission] = q => row'[call[q].mission] = row[call[q].mission]
    BY <1>2, <2>1, <2>2
  <2> QED
    BY <2>1, <2>2, <2>3, <2>4 DEF StagedRowInv, ReadsBack
<1>6. StagedRowsInv'
  BY DEF StagedRowsInv, NoWrites
<1>7. VideoInv'
  BY <1>3, RowTypes DEF VideoInv, CallInv
<1> QED
  BY <1>1, <1>4, <1>5, <1>6, <1>7

\* Every step keeps the inductive invariant.
LEMMA NextTxInv == TxInv /\ [Next]_vars => TxInv'
<1> SUFFICES ASSUME TxInv, [Next]_vars PROVE TxInv'
  OBVIOUS
<1>1. TypeOK'
  BY TypesPreserved DEF TxInv
<1>2. CASE Next
  BY <1>1, <1>2, createMissionTxInv, BeginTxInv, AbandonTxInv, RecheckTxInv,
     UpdateTxInv, UpdateMatchesNothingTxInv, RecordAuditTxInv,
     InsertOutboxTxInv, FindAgainTxInv, CommitTxInv
  DEF Next, Step, Rollback, RecheckFails, UpdateFails, FindAgainFails
<1>3. CASE UNCHANGED vars
  BY <1>3 DEF vars, TxInv, TypeOK, LockInv, CallInv, StagedRowInv,
     StagedRowsInv, VideoInv, Staged
<1> QED
  BY <1>2, <1>3

\* What a transaction has staged always agrees with the committed tables.
THEOREM TxInvariant == Spec => []TxInv
<1> QED
  BY InitTxInv, NextTxInv, PTL DEF Spec

\* Every variable stays in its domain.
THEOREM TypeCorrect == Spec => []TypeOK
<1>1. TxInv => TypeOK
  BY DEF TxInv
<1> QED
  BY <1>1, TxInvariant, PTL

-----------------------------------------------------------------------------
\* Only a COMMIT, or the creation of the mission, touches the three tables.
TablesUnchanged == UNCHANGED <<row, audit, outbox>>

\* The committed tables change only when a mission is created and at a COMMIT.
LEMMA OnlyCommitWrites ==
  ASSUME [Next]_vars
  PROVE  \/ TablesUnchanged
         \/ \E m \in Missions : createMission(m)
         \/ \E r \in Requests : Commit(r)
BY DEF Next, Step, vars, TablesUnchanged, Begin, Recheck, RecheckFails, Abandon,
   Update, UpdateFails, UpdateMatchesNothing, RecordAudit, InsertOutbox,
   FindAgain, FindAgainFails, Rollback

\* What a COMMIT does to the tables: at most the call's change to the row, and
\* exactly one audit row that names the call.
LEMMA CommitWrites ==
  ASSUME TxInv, NEW r \in Requests, Commit(r)
  PROVE  LET m == call[r].mission IN
         /\ m \in Missions /\ call[r] \in Calls
         /\ row'[m] = row[m] \/ row'[m] = Updated(call[r], row[m])
         /\ call[r].op = "transition" => row'[m] = Updated(call[r], row[m])
         /\ row[m].life = "deleted" => row'[m] = row[m] /\ call[r].op # "transition"
         /\ \A n \in Missions : n # m => row'[n] = row[n]
         /\ audit' = [audit EXCEPT ![m] = Append(@, AuditRow(call[r], seen[r]))]
         /\ \/ outbox' = outbox
            \/ /\ IsQueueing(call[r], seen[r])
               /\ outbox' = Append(outbox, [mission |-> m, video |-> seen[r].video])
<1> DEFINE m == call[r].mission
<1> USE DEF TxInv, Commit
<1>1. m \in Missions /\ call[r] \in Calls /\ pc[r] = "commit" /\ pc[r] \in Staged
  BY RowTypes DEF CallInv, Staged
<1>2. /\ lock[m] = r => /\ row'[m] = Updated(call[r], row[m])
                        /\ row[m].life # "deleted"
      /\ lock[m] # r => row'[m] = row[m] /\ ~ReadsBack(call[r])
      /\ \A n \in Missions : n # m => row'[n] = row[n]
  BY <1>1 DEF StagedRowInv, Visible, TypeOK
<1>3. audit[m] \o <<AuditRow(call[r], seen[r])>> = Append(audit[m], AuditRow(call[r], seen[r]))
  BY <1>1, RowTypes DEF TypeOK
<1>4. audit' = [audit EXCEPT ![m] = Append(@, AuditRow(call[r], seen[r]))]
  BY <1>1, <1>3 DEF StagedRowsInv, TypeOK
<1>5. outbox \o <<>> = outbox
  BY DEF TypeOK
<1>6. \/ outbox' = outbox
      \/ /\ IsQueueing(call[r], seen[r])
         /\ outbox' = outbox \o <<[mission |-> m, video |-> seen[r].video]>>
  BY <1>1, <1>5 DEF StagedRowsInv
<1>7. \A o \in OutboxRows : outbox \o <<o>> = Append(outbox, o)
  BY DEF TypeOK
<1>8. [mission |-> m, video |-> seen[r].video] \in OutboxRows
  BY <1>1 DEF OutboxRows, TypeOK, Rows
<1> QED
  BY <1>1, <1>2, <1>4, <1>6, <1>7, <1>8 DEF ReadsBack

-----------------------------------------------------------------------------
\* The audit rows A account for the status st.
Accounts(A, st) ==
  /\ (\A i \in DOMAIN A : ~IsTransition(A[i])) => st = "DRAFT"
  /\ \A i \in DOMAIN A :
       (/\ IsTransition(A[i])
        /\ \A j \in DOMAIN A : j > i => ~IsTransition(A[j]))
       => st = A[i].to

\* Appending a transition accounts for its target; appending anything else
\* accounts for what was accounted for before.
LEMMA AccountsAppend ==
  ASSUME NEW A \in Seq(AuditRows), NEW e \in AuditRows, NEW st
  PROVE  /\ IsTransition(e) => Accounts(Append(A, e), e.to)
         /\ ~IsTransition(e) /\ Accounts(A, st) => Accounts(Append(A, e), st)
<1> DEFINE B == Append(A, e)
<1>1. /\ DOMAIN B = 1..(Len(A) + 1)
      /\ DOMAIN A = 1..Len(A)
      /\ Len(A) \in Nat
      /\ B[Len(A) + 1] = e
      /\ \A i \in 1..Len(A) : B[i] = A[i]
  OBVIOUS
<1> HIDE DEF B
<1>2. ASSUME IsTransition(e) PROVE Accounts(B, e.to)
  <2>1. \A i \in DOMAIN B :
          (\A j \in DOMAIN B : j > i => ~IsTransition(B[j])) => B[i] = e
    <3> SUFFICES ASSUME NEW i \in DOMAIN B, i # Len(A) + 1
                 PROVE  \E j \in DOMAIN B : j > i /\ IsTransition(B[j])
      BY <1>1
    <3>1. Len(A) + 1 \in DOMAIN B /\ Len(A) + 1 > i /\ B[Len(A) + 1] = e
      BY <1>1
    <3> QED
      BY <3>1, <1>2
  <2>2. \E i \in DOMAIN B : IsTransition(B[i])
    <3>1. Len(A) + 1 \in DOMAIN B /\ B[Len(A) + 1] = e
      BY <1>1
    <3> QED
      BY <3>1, <1>2
  <2> QED
    BY <2>1, <2>2 DEF Accounts
<1>3. ASSUME ~IsTransition(e), Accounts(A, st) PROVE Accounts(B, st)
  <2>1. \A i \in DOMAIN B : IsTransition(B[i]) => i \in DOMAIN A /\ B[i] = A[i]
    BY <1>1, <1>3
  <2>2. \A i \in DOMAIN A : i \in DOMAIN B /\ B[i] = A[i]
    BY <1>1
  <2> QED
    BY <2>1, <2>2, <1>3 DEF Accounts
<1> QED
  BY <1>2, <1>3 DEF B

\* StatusIsAudited says of each mission that its trail accounts for its status.
LEMMA StatusIsAuditedAccounts ==
  StatusIsAudited <=> \A m \in Missions : Accounts(audit[m], row[m].status)
BY DEF StatusIsAudited, Accounts

\* A COMMIT moves the status to the target its own audit row names.
LEMMA CommitStatusIsAudited ==
  ASSUME TxInv, StatusIsAudited, NEW r \in Requests, Commit(r)
  PROVE  StatusIsAudited'
<1> DEFINE m == call[r].mission
           e == AuditRow(call[r], seen[r])
<1>1. /\ m \in Missions /\ call[r] \in Calls
      /\ audit' = [audit EXCEPT ![m] = Append(@, e)]
      /\ \A n \in Missions : n # m => row'[n] = row[n]
      /\ row'[m] = row[m] \/ row'[m] = Updated(call[r], row[m])
      /\ call[r].op = "transition" => row'[m] = Updated(call[r], row[m])
  BY CommitWrites
<1>2. /\ audit \in [Missions -> Seq(AuditRows)]
      /\ e \in AuditRows
  BY <1>1, RowTypes DEF TxInv, TypeOK
<1>3. /\ IsTransition(e) <=> call[r].op = "transition"
      /\ IsTransition(e) => row'[m].status = e.to
      /\ ~IsTransition(e) => row'[m].status = row[m].status
  BY <1>1 DEF IsTransition, AuditRow, Updated
<1>4. Accounts(Append(audit[m], e), row'[m].status)
  BY <1>1, <1>2, <1>3, AccountsAppend, StatusIsAuditedAccounts
<1>5. \A n \in Missions : Accounts(audit'[n], row'[n].status)
  BY <1>1, <1>2, <1>4, StatusIsAuditedAccounts
<1> QED
  BY <1>5 DEF StatusIsAudited, Accounts

\* The audit trail accounts for every status, whatever requests interleave.
THEOREM StatusAudited == Spec => []StatusIsAudited
<1>1. Init => StatusIsAudited
  BY DEF Init, StatusIsAudited, NewRow
<1>2. TxInv /\ StatusIsAudited /\ [Next]_vars => StatusIsAudited'
  <2> SUFFICES ASSUME TxInv, StatusIsAudited, [Next]_vars PROVE StatusIsAudited'
    OBVIOUS
  <2>1. CASE TablesUnchanged
    BY <2>1 DEF TablesUnchanged, StatusIsAudited
  <2>2. ASSUME NEW m \in Missions, createMission(m) PROVE StatusIsAudited'
    BY <2>2 DEF createMission, StatusIsAudited, NewRow, IsTransition, TxInv, TypeOK
  <2> QED
    BY <2>1, <2>2, CommitStatusIsAudited, OnlyCommitWrites
<1> QED
  BY <1>1, <1>2, TxInvariant, PTL DEF Spec

\* No processing command is ever queued without a video, for any interleaving
\* of uploads, submissions and deletions.
THEOREM CommandsHaveVideos == Spec => []CommandHasVideo
<1>1. Init => CommandHasVideo
  BY DEF Init, CommandHasVideo
<1>2. TxInv /\ CommandHasVideo /\ [Next]_vars => CommandHasVideo'
  <2> SUFFICES ASSUME TxInv, CommandHasVideo, [Next]_vars PROVE CommandHasVideo'
    OBVIOUS
  <2>1. CASE outbox' = outbox
    BY <2>1 DEF CommandHasVideo
  <2>2. ASSUME NEW r \in Requests, Commit(r), outbox' # outbox
        PROVE  CommandHasVideo'
    <3>1. /\ IsQueueing(call[r], seen[r])
          /\ outbox' = Append(outbox, [mission |-> call[r].mission, video |-> seen[r].video])
          /\ pc[r] = "commit"
      BY <2>2, CommitWrites DEF Commit
    <3>2. seen[r].video \in Videos
      BY <3>1 DEF TxInv, VideoInv
    <3>3. outbox \in Seq(OutboxRows)
      BY DEF TxInv, TypeOK
    <3> QED
      BY <3>1, <3>2, <3>3 DEF CommandHasVideo
  <2> QED
    BY <2>1, <2>2, OnlyCommitWrites DEF TablesUnchanged, createMission
<1> QED
  BY <1>1, <1>2, TxInvariant, PTL DEF Spec

-----------------------------------------------------------------------------
\* A mission that has not been created has no audit rows.
NoEarlyAudit == \A m \in Missions : row[m].life = "absent" => audit[m] = <<>>

\* A mission gets its first audit row when it is created.
LEMMA CreateInitially == Spec => []NoEarlyAudit
<1> DEFINE I == NoEarlyAudit
<1> USE DEF NoEarlyAudit
<1>1. Init => I
  BY DEF Init
<1>2. TxInv /\ I /\ [Next]_vars => I'
  <2> SUFFICES ASSUME TxInv, I, [Next]_vars PROVE I'
    OBVIOUS
  <2>1. CASE TablesUnchanged
    BY <2>1 DEF TablesUnchanged
  <2>2. ASSUME NEW m \in Missions, createMission(m) PROVE I'
    BY <2>2 DEF createMission, NewRow, TxInv, TypeOK
  <2>3. ASSUME NEW r \in Requests, Commit(r) PROVE I'
    <3> DEFINE m == call[r].mission
    <3>1. /\ m \in Missions /\ row[m].life # "absent" /\ call[r] \in Calls
      BY <2>3, RowTypes DEF TxInv, CallInv, Commit
    <3>2. row'[m] = row[m] \/ row'[m] = Updated(call[r], row[m])
      BY <2>3, CommitWrites
    <3>3. row'[m].life # "absent"
      BY <3>1, <3>2 DEF Updated
    <3> QED
      BY <2>3, <3>1, <3>3, CommitWrites DEF TxInv, TypeOK
  <2> QED
    BY <2>1, <2>2, <2>3, OnlyCommitWrites
<1> QED
  BY <1>1, <1>2, TxInvariant, PTL DEF Spec

\* No row of a mission changes without its audit row, in the same step.
THEOREM AuditTrailComplete == Spec => AuditTrailIsComplete
<1> DEFINE I == NoEarlyAudit
<1> USE DEF NoEarlyAudit
<1>1. TxInv /\ I /\ StatusIsAudited /\ [Next]_vars => [AuditsItsChanges]_vars
  <2> SUFFICES ASSUME TxInv, I, StatusIsAudited, [Next]_vars PROVE AuditsItsChanges
    OBVIOUS
  <2>1. CASE TablesUnchanged
    BY <2>1 DEF TablesUnchanged, AuditsItsChanges
  <2>2. ASSUME NEW m \in Missions, createMission(m) PROVE AuditsItsChanges
    <3>1. audit[m] = <<>> /\ Len(audit'[m]) = 1
      BY <2>2 DEF createMission, TxInv, TypeOK
    <3>2. row[m].status = "DRAFT"
      BY <3>1 DEF StatusIsAudited
    <3>3. row'[m].status = "DRAFT" /\ \A n \in Missions : n # m => row'[n] = row[n] /\ audit'[n] = audit[n]
      BY <2>2 DEF createMission, NewRow, TxInv, TypeOK
    <3>4. \A i \in DOMAIN audit[m] : audit'[m][i] = audit[m][i]
      BY <3>1
    <3>5. Len(audit[m]) + 1 = 1
      BY <3>1
    <3> QED
      BY <3>1, <3>2, <3>3, <3>4, <3>5 DEF AuditsItsChanges
  <2>3. ASSUME NEW r \in Requests, Commit(r) PROVE AuditsItsChanges
    <3> DEFINE m == call[r].mission
               e == AuditRow(call[r], seen[r])
    <3>1. /\ m \in Missions
          /\ audit' = [audit EXCEPT ![m] = Append(@, e)]
          /\ \A n \in Missions : n # m => row'[n] = row[n]
          /\ row'[m] = row[m] \/ row'[m] = Updated(call[r], row[m])
      BY <2>3, CommitWrites
    <3>2. /\ e \in AuditRows /\ audit[m] \in Seq(AuditRows)
          /\ call[r].op = "transition" => IsTransition(e)
      BY <2>3, CommitWrites, RowTypes DEF TxInv, TypeOK, IsTransition, AuditRow
    <3>3. /\ audit'[m] = Append(audit[m], e)
          /\ \A n \in Missions : n # m => audit'[n] = audit[n]
      BY <3>1 DEF TxInv, TypeOK
    <3>4. /\ Len(audit'[m]) = Len(audit[m]) + 1
          /\ audit'[m][Len(audit'[m])] = e
          /\ \A i \in DOMAIN audit[m] : audit'[m][i] = audit[m][i]
      BY <3>2, <3>3
    <3>5. call[r].op # "transition" => row'[m].status = row[m].status
      BY <3>1 DEF Updated
    <3> QED
      BY <3>1, <3>2, <3>3, <3>4, <3>5 DEF AuditsItsChanges
  <2> QED
    BY <2>1, <2>2, <2>3, OnlyCommitWrites
<1> QED
  BY <1>1, TxInvariant, CreateInitially, StatusAudited, PTL DEF Spec, AuditTrailIsComplete

\* A committed soft delete is final, whatever was in progress when it committed.
THEOREM DeletionFinal == Spec => DeletedIsFinal
<1>1. TxInv /\ [Next]_vars => [KeepsDeleted]_vars
  <2> SUFFICES ASSUME TxInv, [Next]_vars, NEW m \in Missions, row[m].life = "deleted"
               PROVE  row'[m] = row[m] /\ Commands(m)' = Commands(m)
    BY DEF KeepsDeleted
  <2>1. CASE TablesUnchanged
    BY <2>1 DEF TablesUnchanged, Commands
  <2>2. ASSUME NEW n \in Missions, createMission(n)
        PROVE  row'[m] = row[m] /\ Commands(m)' = Commands(m)
    BY <2>2 DEF createMission, Commands
  <2>3. ASSUME NEW r \in Requests, Commit(r)
        PROVE  row'[m] = row[m] /\ Commands(m)' = Commands(m)
    <3>1. row'[m] = row[m]
      BY <2>3, CommitWrites
    <3>2. CASE outbox' = outbox
      BY <3>1, <3>2 DEF Commands
    <3>3. CASE outbox' # outbox
      <4> DEFINE o == [mission |-> call[r].mission, video |-> seen[r].video]
      <4>1. outbox' = Append(outbox, o) /\ call[r].mission # m
        BY <2>3, <3>3, CommitWrites DEF IsQueueing
      <4>2. outbox \in Seq(OutboxRows) /\ o.mission # m
        BY <4>1 DEF TxInv, TypeOK
      <4>3. /\ DOMAIN outbox' = 1..(Len(outbox) + 1)
            /\ DOMAIN outbox = 1..Len(outbox)
            /\ outbox'[Len(outbox) + 1] = o
            /\ \A i \in 1..Len(outbox) : outbox'[i] = outbox[i]
            /\ Len(outbox) \in Nat
        BY <4>1, <4>2
      <4>4. \A i : i \in Commands(m)' <=> i \in Commands(m)
        BY <4>2, <4>3 DEF Commands
      <4>5. Commands(m)' = Commands(m)
        BY <4>4 DEF Commands
      <4> QED
        BY <3>1, <4>5
    <3> QED
      BY <3>2, <3>3
  <2> QED
    BY <2>1, <2>2, <2>3, OnlyCommitWrites
<1> QED
  BY <1>1, TxInvariant, PTL DEF Spec, DeletedIsFinal
-----------------------------------------------------------------------------
\* At COMMIT a call that queues its mission has staged its command. A transition
\* never comes to "refind", where a call reaches COMMIT without a command.
QueueInv ==
  \A r \in Requests :
    /\ pc[r] = "refind" => call[r].op # "transition"
    /\ pc[r] = "commit" /\ IsQueueing(call[r], seen[r]) => tx[r].outbox # <<>>

\* Every step keeps it.
LEMMA NextQueueInv == TxInv /\ QueueInv /\ [Next]_vars => QueueInv'
<1> SUFFICES ASSUME TxInv, QueueInv, [Next]_vars PROVE QueueInv'
  OBVIOUS
<1> USE DEF QueueInv, TxInv, TypeOK
<1>1. ASSUME NEW m \in Missions, createMission(m) PROVE QueueInv'
  BY <1>1 DEF createMission
<1>2. ASSUME NEW r \in Requests, Abandon(r) PROVE QueueInv'
  BY <1>2 DEF Abandon, Finish
<1>3. ASSUME NEW r \in Requests, NEW c \in Calls, Begin(r, c) PROVE QueueInv'
  BY <1>3 DEF Begin
<1>4. ASSUME NEW r \in Requests, Recheck(r) PROVE QueueInv'
  BY <1>4 DEF Recheck
<1>5. ASSUME NEW r \in Requests, Update(r) PROVE QueueInv'
  BY <1>5 DEF Update
<1>6. ASSUME NEW r \in Requests, UpdateMatchesNothing(r) PROVE QueueInv'
  BY <1>6 DEF UpdateMatchesNothing
<1>7. ASSUME NEW r \in Requests, RecordAudit(r) PROVE QueueInv'
  BY <1>7 DEF RecordAudit, AfterAudit, IsQueueing
<1>8. ASSUME NEW r \in Requests, InsertOutbox(r) PROVE QueueInv'
  <2>1. \A x : <<x>> # <<>>
    OBVIOUS
  <2> QED
    BY <1>8, <2>1 DEF InsertOutbox
<1>9. ASSUME NEW r \in Requests, FindAgain(r) PROVE QueueInv'
  BY <1>9 DEF FindAgain, IsQueueing
<1>10. ASSUME NEW r \in Requests, Commit(r) PROVE QueueInv'
  BY <1>10 DEF Commit, Finish
<1>11. CASE UNCHANGED vars
  BY <1>11 DEF vars
<1> QED
  BY <1>1, <1>2, <1>3, <1>4, <1>5, <1>6, <1>7, <1>8, <1>9, <1>10, <1>11
  DEF Next, Step, Rollback, RecheckFails, UpdateFails, FindAgainFails

\* The positions of q that hold a member of S.
Where(q, S) == {i \in DOMAIN q : q[i] \in S}

\* They are one more when the element appended is in S, else the same.
LEMMA PositionsAppend ==
  ASSUME NEW T, NEW s \in Seq(T), NEW e \in T, NEW S \in SUBSET T
  PROVE  /\ IsFiniteSet(Where(s, S))
         /\ Cardinality(Where(Append(s, e), S)) =
              IF e \in S THEN Cardinality(Where(s, S)) + 1 ELSE Cardinality(Where(s, S))
<1> USE DEF Where
<1>1. /\ DOMAIN s = 1..Len(s) /\ Len(s) \in Nat
      /\ DOMAIN Append(s, e) = 1..(Len(s) + 1)
      /\ Append(s, e)[Len(s) + 1] = e
      /\ \A i \in 1..Len(s) : Append(s, e)[i] = s[i]
  OBVIOUS
<1>2. IsFiniteSet(Where(s, S))
  <2>1. IsFiniteSet(1..Len(s))
    BY <1>1, FS_Interval
  <2>2. Where(s, S) \in SUBSET (1..Len(s))
    BY <1>1
  <2> QED
    BY <2>1, <2>2, FS_Subset
<1>3. Len(s) + 1 \notin Where(s, S)
  BY <1>1
<1>4. CASE e \in S
  <2>1. Where(Append(s, e), S) = Where(s, S) \cup {Len(s) + 1}
    BY <1>1, <1>4
  <2> QED
    BY <1>2, <1>3, <1>4, <2>1, FS_AddElement
<1>5. CASE e \notin S
  <2>1. Where(Append(s, e), S) = Where(s, S)
    BY <1>1, <1>5
  <2> QED
    BY <1>2, <1>5, <2>1
<1> QED
  BY <1>2, <1>4, <1>5

\* A COMMIT counts one more queueing of its mission exactly when it adds its
\* one command; no other mission's counts move.
LEMMA CommitCounts ==
  ASSUME TxInv, QueueInv, NEW r \in Requests, Commit(r), NEW n \in Missions,
         Cardinality(Queueings(n)) = Cardinality(Commands(n))
  PROVE  Cardinality(Queueings(n)') = Cardinality(Commands(n)')
<1> DEFINE m == call[r].mission
           e == AuditRow(call[r], seen[r])
           o == [mission |-> m, video |-> seen[r].video]
           QS == {a \in AuditRows : IsTransition(a) /\ a.from = "DRAFT" /\ a.to = "QUEUED"}
           CS == {c \in OutboxRows : c.mission = n}
<1>1. /\ m \in Missions /\ call[r] \in Calls /\ pc[r] = "commit"
      /\ audit' = [audit EXCEPT ![m] = Append(@, e)]
      /\ \/ outbox' = outbox
         \/ IsQueueing(call[r], seen[r]) /\ outbox' = Append(outbox, o)
  BY CommitWrites DEF Commit
<1>2. /\ e \in AuditRows /\ o \in OutboxRows
      /\ audit[n] \in Seq(AuditRows) /\ outbox \in Seq(OutboxRows)
  BY <1>1, RowTypes DEF TxInv, TypeOK, OutboxRows, Rows
<1>3. e \in QS <=> IsQueueing(call[r], seen[r])
  BY <1>2 DEF AuditRow, IsTransition, IsQueueing
<1>4. /\ Queueings(n) = Where(audit[n], QS)
      /\ Commands(n) = Where(outbox, CS)
  BY <1>2 DEF Queueings, Commands, Where
<1>5. IsQueueing(call[r], seen[r]) => outbox' = Append(outbox, o)
  <2> SUFFICES ASSUME IsQueueing(call[r], seen[r]), outbox' = outbox PROVE FALSE
    BY <1>1
  <2>1. tx[r].outbox = <<o>>
    BY <1>1 DEF TxInv, StagedRowsInv, QueueInv
  <2>2. outbox' = outbox \o <<o>>
    BY <2>1 DEF Commit
  <2>3. Len(outbox \o <<o>>) = Len(outbox) + 1
    BY <1>2
  <2> QED
    BY <1>2, <2>2, <2>3
<1>6. /\ audit'[n] = IF n = m THEN Append(audit[n], e) ELSE audit[n]
      /\ outbox' = IF e \in QS THEN Append(outbox, o) ELSE outbox
  BY <1>1, <1>3, <1>5 DEF TxInv, TypeOK
<1>7. /\ Queueings(n)' = Where(audit'[n], QS)
      /\ Commands(n)' = Where(outbox', CS)
  <2>1. audit'[n] \in Seq(AuditRows) /\ outbox' \in Seq(OutboxRows)
    BY <1>2, <1>6
  <2> QED
    BY <2>1 DEF Queueings, Commands, Where
<1>8. o \in CS <=> n = m
  BY <1>2
<1> HIDE DEF e, o, QS, CS, m
<1>9. /\ QS \in SUBSET AuditRows /\ CS \in SUBSET OutboxRows
  BY DEF QS, CS
<1>10. Cardinality(Where(Append(audit[n], e), QS)) =
         IF e \in QS THEN Cardinality(Where(audit[n], QS)) + 1 ELSE Cardinality(Where(audit[n], QS))
  BY <1>2, <1>9, PositionsAppend
<1>11. Cardinality(Where(Append(outbox, o), CS)) =
         IF o \in CS THEN Cardinality(Where(outbox, CS)) + 1 ELSE Cardinality(Where(outbox, CS))
  BY <1>2, <1>9, PositionsAppend
<1> QED
  BY <1>4, <1>6, <1>7, <1>8, <1>10, <1>11

\* One processing command for every committed DRAFT -> QUEUED and none without,
\* whatever statement fails and whatever requests interleave.
THEOREM OneCommandPerQueueing == Spec => []CommandPerQueueing
<1>1. Init => CommandPerQueueing /\ QueueInv
  <2> SUFFICES ASSUME Init PROVE CommandPerQueueing /\ QueueInv
    OBVIOUS
  <2>1. \A m \in Missions : Queueings(m) = {} /\ Commands(m) = {}
    BY DEF Init, Queueings, Commands
  <2> QED
    BY <2>1 DEF CommandPerQueueing, QueueInv, Init
<1>2. TxInv /\ NoEarlyAudit /\ QueueInv /\ CommandPerQueueing /\ [Next]_vars
        => CommandPerQueueing' /\ QueueInv'
  <2> SUFFICES ASSUME TxInv, NoEarlyAudit, QueueInv, CommandPerQueueing, [Next]_vars,
                      NEW n \in Missions
               PROVE  Cardinality(Queueings(n)') = Cardinality(Commands(n)')
    BY NextQueueInv DEF CommandPerQueueing
  <2>0. Cardinality(Queueings(n)) = Cardinality(Commands(n))
    BY DEF CommandPerQueueing
  <2>1. CASE TablesUnchanged
    BY <2>0, <2>1 DEF TablesUnchanged, Queueings, Commands
  <2>2. ASSUME NEW m \in Missions, createMission(m)
        PROVE  Cardinality(Queueings(n)') = Cardinality(Commands(n)')
    <3>1. Queueings(n)' = Queueings(n)
      <4>1. CASE n # m
        BY <2>2, <4>1 DEF createMission, Queueings, TxInv, TypeOK
      <4>2. CASE n = m
        <5>1. audit[n] = <<>>
          BY <2>2, <4>2 DEF createMission, NoEarlyAudit
        <5>2. audit'[n] = <<[action |-> "created", from |-> "DRAFT", to |-> "DRAFT"]>>
          BY <2>2, <4>2 DEF createMission, TxInv, TypeOK
        <5>3. Queueings(n) = {} /\ Queueings(n)' = {}
          BY <5>1, <5>2 DEF Queueings, IsTransition
        <5> QED
          BY <5>3
      <4> QED
        BY <4>1, <4>2
    <3>2. Commands(n)' = Commands(n)
      BY <2>2 DEF createMission, Commands
    <3> QED
      BY <2>0, <3>1, <3>2
  <2> QED
    BY <2>0, <2>1, <2>2, CommitCounts, OnlyCommitWrites
<1> QED
  BY <1>1, <1>2, TxInvariant, CreateInitially, PTL DEF Spec
=============================================================================
