------------------------------ MODULE Missions ------------------------------
(***************************************************************************)
(* apps/api MissionsService over one PostgreSQL database.                  *)
(*                                                                         *)
(* Every use case (an HTTP route, or the Kafka consumer calling            *)
(* transition()) first reads the mission outside any transaction and       *)
(* checks it, then opens an interactive transaction at the default READ    *)
(* COMMITTED level: an UPDATE, an audit row, for DRAFT -> QUEUED an outbox *)
(* row, and COMMIT.  The checks and the transaction are separate steps     *)
(* here, so that requests interleave as they do on the database.           *)
(*                                                                         *)
(* The database is what READ COMMITTED guarantees and no more: a plain     *)
(* SELECT sees the last committed row version (or the transaction's own),  *)
(* an UPDATE waits for the transaction that last updated the row and then  *)
(* applies to the version that one committed, and a transaction's writes   *)
(* appear together at COMMIT or not at all.  Titles, timestamps and actors *)
(* are left out: a metadata edit is a write to the row that changes        *)
(* nothing the properties tell apart.                                      *)
(***************************************************************************)
EXTENDS MissionStateMachine, Naturals, Sequences, FiniteSets

CONSTANTS
  Missions,   \* mission ids
  Requests,   \* calls the API may be executing at the same time
  Videos,     \* object keys a video may be uploaded to
  NoVideo,    \* videoObjectKey is null; in an outbox payload, the "" of `?? ""`
  NoRequest,  \* nobody holds the row lock
  MaxAudit    \* bound: a mission with this many audit rows gets no new call

ASSUME NoRequestAssumption == NoRequest \notin Requests
ASSUME NoVideoAssumption == NoVideo \notin Videos
ASSUME MaxAuditAssumption == MaxAudit \in Nat

VARIABLES
  row,     \* missions table, last committed version of each row
  audit,   \* audit_log table, the committed rows of each mission in order
  outbox,  \* outbox_events table, the committed rows in commit order
  lock,    \* per mission, the transaction holding the row's write lock
  pc,      \* per request, where it is
  call,    \* per request, the service method and its arguments
  seen,    \* per request, the row as it last read it
  tx       \* per request, the writes of its open transaction

vars == <<row, audit, outbox, lock, pc, call, seen, tx>>

-----------------------------------------------------------------------------
\* A row of the missions table: absent until created; deleted_at is set or not.
Rows == [life: {"absent", "live", "deleted"}, status: Statuses,
         video: Videos \cup {NoVideo}, archived: BOOLEAN]

NewRow(life) ==
  [life |-> life, status |-> "DRAFT", video |-> NoVideo, archived |-> FALSE]

\* findById: WHERE id = .. AND deleted_at IS NULL.
Found(s) == s.life = "live"

Calls ==
  [op: {"transition"}, mission: Missions, arg: Statuses] \cup
  [op: {"attachVideo"}, mission: Missions, arg: Videos] \cup
  [op: {"updateMetadata", "delete", "archive", "unarchive"},
   mission: Missions, arg: {NoVideo}]

\* A request that executes nothing.
NoCall == [op |-> "none", mission |-> NoRequest, arg |-> NoVideo]

AuditRows ==
  [action: {"created", "updateMetadata", "attachVideo", "delete", "archive",
            "unarchive", "transition"}, from: Statuses, to: Statuses]

OutboxRows == [mission: Missions, video: Videos \cup {NoVideo}]

NoWrites(s) == [row |-> s, audit |-> <<>>, outbox |-> <<>>]

Positions == {"idle", "recheck", "update", "audit", "outbox", "refind", "commit"}

Init ==
  /\ row = [m \in Missions |-> NewRow("absent")]
  /\ audit = [m \in Missions |-> <<>>]
  /\ outbox = <<>>
  /\ lock = [m \in Missions |-> NoRequest]
  /\ pc = [r \in Requests |-> "idle"]
  /\ call = [r \in Requests |-> NoCall]
  /\ seen = [r \in Requests |-> NewRow("absent")]
  /\ tx = [r \in Requests |-> NoWrites(NewRow("absent"))]

-----------------------------------------------------------------------------
\* createMission: the insert of a fresh id and its audit row, one transaction.
\* Nothing else can touch the row before it commits, so it is one step.
createMission(m) ==
  /\ row[m].life = "absent"
  /\ row' = [row EXCEPT ![m] = NewRow("live")]
  /\ audit' = [audit EXCEPT ![m] =
       <<[action |-> "created", from |-> "DRAFT", to |-> "DRAFT"]>>]
  /\ UNCHANGED <<outbox, lock, pc, call, seen, tx>>

\* Mutant: a mission is queued without asking for its video.
AcceptsWithoutVideo(c, s) ==
  /\ Found(s)
  /\ c.op = "transition" => isLegalMissionTransition(s.status, c.arg)
  /\ c.op \in {"updateMetadata", "attachVideo", "delete"} => s.status = "DRAFT"

\* What each method checks on the row it read before its transaction.
Accepts(c, s) ==
  /\ Found(s)
  /\ c.op = "transition" =>
       /\ isLegalMissionTransition(s.status, c.arg)
       /\ (s.status = "DRAFT" /\ c.arg = "QUEUED") => s.video # NoVideo
  /\ c.op \in {"updateMetadata", "attachVideo", "delete"} => s.status = "DRAFT"

\* A call whose checks pass opens its transaction.  A call they refuse throws
\* (404 or 409) and changes nothing: it is no step of this model.
Begin(r, c) ==
  LET s == row[c.mission] IN
  /\ pc[r] = "idle"
  /\ Len(audit[c.mission]) < MaxAudit
  /\ Accepts(c, s)
  /\ pc' = [pc EXCEPT ![r] = IF c.op = "transition" THEN "recheck" ELSE "update"]
  /\ call' = [call EXCEPT ![r] = c]
  /\ seen' = [seen EXCEPT ![r] = s]
  /\ tx' = [tx EXCEPT ![r] = NoWrites(s)]
  /\ UNCHANGED <<row, audit, outbox, lock>>

\* However the transaction ends, its lock is freed and the call is over.
Finish(r) ==
  /\ pc' = [pc EXCEPT ![r] = "idle"]
  /\ lock' = [m \in Missions |-> IF lock[m] = r THEN NoRequest ELSE lock[m]]
  /\ call' = [call EXCEPT ![r] = NoCall]
  /\ seen' = [seen EXCEPT ![r] = NewRow("absent")]
  /\ tx' = [tx EXCEPT ![r] = NoWrites(NewRow("absent"))]

\* It ends without COMMIT: its writes vanish.
Abandon(r) == Finish(r) /\ UNCHANGED <<row, audit, outbox>>

\* transition() reads the row again inside its transaction.  `current` has
\* the status `mission` had, so keeping it alone loses nothing.
Recheck(r) ==
  LET current == row[call[r].mission] IN
  /\ pc[r] = "recheck"
  /\ Found(current)
  /\ current.status = seen[r].status
  /\ seen' = [seen EXCEPT ![r] = current]
  /\ pc' = [pc EXCEPT ![r] = "update"]
  /\ UNCHANGED <<row, audit, outbox, lock, call, tx>>

\* Mutant: the conflict is retried against the status first read.
RecheckRepeated(r) ==
  LET current == row[call[r].mission] IN
  /\ pc[r] = "recheck"
  /\ ~Found(current) \/ current.status # seen[r].status
  /\ UNCHANGED vars

\* MISSION_NOT_FOUND or MISSION_STATE_CHANGED_CONCURRENTLY.
RecheckFails(r) ==
  LET current == row[call[r].mission] IN
  /\ pc[r] = "recheck"
  /\ ~Found(current) \/ current.status # seen[r].status
  /\ Abandon(r)

\* The WHERE clause beside the id: only the three raw UPDATEs have one.
Matches(c, s) ==
  /\ c.op = "delete" => s.life # "deleted"
  /\ c.op = "archive" => ~s.archived
  /\ c.op = "unarchive" => s.archived

\* The SET clause.
Updated(c, s) ==
  [life     |-> IF c.op = "delete" THEN "deleted" ELSE s.life,
   status   |-> IF c.op = "transition" THEN c.arg ELSE s.status,
   video    |-> IF c.op = "attachVideo" THEN c.arg ELSE s.video,
   archived |-> c.op = "archive" \/ (s.archived /\ c.op # "unarchive")]

\* Mutant: updateStatus returns what it wrote and reads nothing back.
ReadsBackEdits(c) == c.op \in {"attachVideo", "updateMetadata"}

\* updateStatus, updateMetadata and setVideoObjectKey read the row back after
\* their UPDATE (mustFindById) and throw if it is soft-deleted.
ReadsBack(c) == c.op \in {"transition", "attachVideo", "updateMetadata"}

\* The UPDATE, once no other transaction holds the row, and the read back.
Update(r) ==
  LET c == call[r]
      s == row[c.mission] IN
  /\ pc[r] = "update"
  /\ Matches(c, s)
  /\ lock[c.mission] = NoRequest
  /\ ReadsBack(c) => Found(s)
  /\ tx' = [tx EXCEPT ![r] = NoWrites(Updated(c, s))]
  /\ lock' = [lock EXCEPT ![c.mission] = r]
  /\ pc' = [pc EXCEPT ![r] = "audit"]
  /\ UNCHANGED <<row, audit, outbox, call, seen>>

\* The read back finds no live row: InternalServerErrorException, rollback.
UpdateFails(r) ==
  LET c == call[r] IN
  /\ pc[r] = "update"
  /\ lock[c.mission] = NoRequest
  /\ ReadsBack(c) /\ ~Found(row[c.mission])
  /\ Abandon(r)

\* A guarded UPDATE that matches no row changes none and locks none.
UpdateMatchesNothing(r) ==
  /\ pc[r] = "update"
  /\ ~Matches(call[r], row[call[r].mission])
  /\ pc' = [pc EXCEPT ![r] = "audit"]
  /\ UNCHANGED <<row, audit, outbox, lock, call, seen, tx>>

IsQueueing(c, s) == c.op = "transition" /\ s.status = "DRAFT" /\ c.arg = "QUEUED"

\* Where a transaction goes after its audit row.
AfterAudit(c, s) ==
  IF IsQueueing(c, s) THEN "outbox"
  ELSE IF c.op \in {"archive", "unarchive"} THEN "refind" ELSE "commit"

AuditRow(c, s) ==
  [action |-> c.op, from |-> s.status,
   to |-> IF c.op = "transition" THEN c.arg ELSE s.status]

\* Mutant: the audit row is inserted by the default executor, not by tx.
RecordAuditOutsideTx(r) ==
  LET c == call[r] IN
  /\ pc[r] = "audit"
  /\ audit' = [audit EXCEPT ![c.mission] = Append(@, AuditRow(c, seen[r]))]
  /\ pc' = [pc EXCEPT ![r] = AfterAudit(c, seen[r])]
  /\ UNCHANGED <<row, outbox, lock, call, seen, tx>>

\* auditService.record(.., tx): `from` is the status that was checked.
RecordAudit(r) ==
  LET c == call[r] IN
  /\ pc[r] = "audit"
  /\ tx' = [tx EXCEPT ![r] = [row |-> @.row, outbox |-> @.outbox,
                              audit |-> <<AuditRow(c, seen[r])>>]]
  /\ pc' = [pc EXCEPT ![r] = AfterAudit(c, seen[r])]
  /\ UNCHANGED <<row, audit, outbox, lock, call, seen>>

\* Mutant: the command is inserted by the default executor, not by tx.
InsertOutboxOutsideTx(r) ==
  /\ pc[r] = "outbox"
  /\ outbox' = Append(outbox, [mission |-> call[r].mission, video |-> seen[r].video])
  /\ pc' = [pc EXCEPT ![r] = "commit"]
  /\ UNCHANGED <<row, audit, lock, call, seen, tx>>

\* Mutant: the payload takes the call's target where the object key belongs.
InsertOutboxWithTarget(r) ==
  /\ pc[r] = "outbox"
  /\ tx' = [tx EXCEPT ![r] = [row |-> @.row, audit |-> @.audit,
       outbox |-> <<[mission |-> call[r].mission, video |-> call[r].arg]>>]]
  /\ pc' = [pc EXCEPT ![r] = "commit"]
  /\ UNCHANGED <<row, audit, outbox, lock, call, seen>>

\* outboxRepository.insert(.., tx): the video is that of `current`.
InsertOutbox(r) ==
  /\ pc[r] = "outbox"
  /\ tx' = [tx EXCEPT ![r] = [row |-> @.row, audit |-> @.audit,
       outbox |-> <<[mission |-> call[r].mission, video |-> seen[r].video]>>]]
  /\ pc' = [pc EXCEPT ![r] = "commit"]
  /\ UNCHANGED <<row, audit, outbox, lock, call, seen>>

\* What a SELECT inside r's transaction returns.
Visible(r, m) == IF lock[m] = r THEN tx[r].row ELSE row[m]

\* mustFindByIdInTransaction, the last step of archive and unarchive.
FindAgain(r) ==
  /\ pc[r] = "refind"
  /\ Found(Visible(r, call[r].mission))
  /\ pc' = [pc EXCEPT ![r] = "commit"]
  /\ UNCHANGED <<row, audit, outbox, lock, call, seen, tx>>

\* The mission was deleted meanwhile: NotFoundException, rollback.
FindAgainFails(r) ==
  /\ pc[r] = "refind"
  /\ ~Found(Visible(r, call[r].mission))
  /\ Abandon(r)

\* Mutant: the audit row is kept for transitions only.
CommitAuditingTransitions(r) ==
  LET m == call[r].mission IN
  /\ pc[r] = "commit"
  /\ row' = [row EXCEPT ![m] = Visible(r, m)]
  /\ audit' = [audit EXCEPT
       ![m] = IF call[r].op = "transition" THEN @ \o tx[r].audit ELSE @]
  /\ outbox' = outbox \o tx[r].outbox
  /\ Finish(r)

\* COMMIT: the row version (if the UPDATE made one), the audit row and the
\* outbox row become visible together and the lock is freed.
Commit(r) ==
  LET m == call[r].mission IN
  /\ pc[r] = "commit"
  /\ row' = [row EXCEPT ![m] = Visible(r, m)]
  /\ audit' = [audit EXCEPT ![m] = @ \o tx[r].audit]
  /\ outbox' = outbox \o tx[r].outbox
  /\ Finish(r)

\* A statement fails, the interactive transaction times out, the connection
\* drops or the API process dies, anywhere before COMMIT.
Rollback(r) == pc[r] # "idle" /\ Abandon(r)

Step(r) ==
  \/ Recheck(r) \/ RecheckFails(r)
  \/ UpdateFails(r) \/ UpdateMatchesNothing(r)
  \/ RecordAudit(r) \/ InsertOutbox(r)
  \/ FindAgain(r) \/ FindAgainFails(r)
  \/ Commit(r)

Next ==
  \/ \E m \in Missions : createMission(m)
  \/ \E r \in Requests :
       \/ \E c \in Calls : Begin(r, c)
       \/ Step(r)
       \/ Update(r)
       \/ Rollback(r)

\* The Node event loop runs every call that can proceed, and PostgreSQL queues
\* the waiters of a row lock, so an UPDATE is not overtaken for ever.
Fairness == \A r \in Requests : WF_vars(Step(r)) /\ SF_vars(Update(r))

Spec == Init /\ [][Next]_vars

FairSpec == Spec /\ Fairness

-----------------------------------------------------------------------------
\* Every variable stays in its domain.
TypeOK ==
  /\ row \in [Missions -> Rows]
  /\ audit \in [Missions -> Seq(AuditRows)]
  /\ outbox \in Seq(OutboxRows)
  /\ lock \in [Missions -> Requests \cup {NoRequest}]
  /\ pc \in [Requests -> Positions]
  /\ call \in [Requests -> Calls \cup {NoCall}]
  /\ seen \in [Requests -> Rows]
  /\ tx \in [Requests -> [row: Rows, audit: Seq(AuditRows), outbox: Seq(OutboxRows)]]

IsTransition(e) == e.action = "transition"

\* The audit trail accounts for the status: a live or deleted mission's status
\* is where its last audited transition went, DRAFT if it has none.  Concurrent
\* transitions, rollbacks and edits never leave a status nobody audited.
StatusIsAudited ==
  \A m \in Missions :
    /\ (\A i \in DOMAIN audit[m] : ~IsTransition(audit[m][i]))
         => row[m].status = "DRAFT"
    /\ \A i \in DOMAIN audit[m] :
         (/\ IsTransition(audit[m][i])
          /\ \A j \in DOMAIN audit[m] : j > i => ~IsTransition(audit[m][j]))
         => row[m].status = audit[m][i].to

AuditsItsChanges ==
  \A m \in Missions :
    /\ row'[m] # row[m] => Len(audit'[m]) = Len(audit[m]) + 1
    /\ row'[m].status # row[m].status => IsTransition(audit'[m][Len(audit'[m])])
    /\ \A i \in DOMAIN audit[m] : audit'[m][i] = audit[m][i]

\* A row changes only in the step that appends one audit row saying which
\* method changed it, and committed audit rows never change: whatever fails in
\* a transaction, no change is left unrecorded.
AuditTrailIsComplete == [][AuditsItsChanges]_vars

Queueings(m) ==
  {i \in DOMAIN audit[m] : /\ IsTransition(audit[m][i])
                           /\ audit[m][i].from = "DRAFT"
                           /\ audit[m][i].to = "QUEUED"}

Commands(m) == {i \in DOMAIN outbox : outbox[i].mission = m}

\* REQ-3.6: a processing command is in the outbox exactly once for every
\* committed DRAFT -> QUEUED, whatever statement of the transaction fails.
CommandPerQueueing ==
  \A m \in Missions : Cardinality(Queueings(m)) = Cardinality(Commands(m))

\* The video checked outside the transaction is still there when the payload
\* is built: no command goes out with the empty object key of `?? ""`.
CommandHasVideo == \A i \in DOMAIN outbox : outbox[i].video \in Videos

KeepsDeleted ==
  \A m \in Missions : row[m].life = "deleted" =>
    /\ row'[m] = row[m]
    /\ Commands(m)' = Commands(m)

\* Once a soft delete has committed, no call that was already past its checks
\* changes the row, its archive flag included, or queues a command for it.
DeletedIsFinal == [][KeepsDeleted]_vars

\* No call waits for ever: every lock is released on every path out of a
\* transaction, so each call in progress ends.
CallsEnd == \A r \in Requests : pc[r] # "idle" ~> pc[r] = "idle"

\* What transition()'s comment promises: a transition that another one beat
\* loses with a conflict, so each audited transition starts where the one
\* before it ended.  The status re-check takes no lock: it does not hold.
NoTransitionClobbers ==
  \A m \in Missions : \A i, j \in DOMAIN audit[m] :
    (/\ i < j /\ IsTransition(audit[m][i]) /\ IsTransition(audit[m][j])
     /\ \A k \in DOMAIN audit[m] : i < k /\ k < j => ~IsTransition(audit[m][k]))
    => audit[m][j].from = audit[m][i].to

\* Mission_State_Machine.md: a delete is only legal while the mission is DRAFT.
DeletedOnlyInDraft ==
  \A m \in Missions : row[m].life = "deleted" => row[m].status = "DRAFT"
=============================================================================
