---------------------------- MODULE ModelRegistry ----------------------------
(***************************************************************************)
(* apps/api ModelRegistryService: which registered model version the       *)
(* detectors load.                                                         *)
(*                                                                         *)
(* promote() and rollback() are one interactive transaction each, at the   *)
(* default READ COMMITTED level: read the model now in production, demote  *)
(* it, promote the target, write the audit row, COMMIT.  As in Missions a  *)
(* read sees what is committed when it runs and takes no lock, an UPDATE   *)
(* waits for the row's last writer, and writes appear together at COMMIT.  *)
(*                                                                         *)
(* A transaction's uncommitted rows are those it holds the lock of, and    *)
(* what it wrote to them follows from its target: they need no variable.   *)
(* promote(id) and rollback(id) differ in the wording of the audit row     *)
(* only; it is left out, as are object keys, actors and training runs      *)
(* (whose status never changes).                                           *)
(***************************************************************************)
EXTENDS Naturals, Sequences, FiniteSets

CONSTANTS
  Models,        \* ids of model versions, each of a COMPLETED training run
  Requests,      \* calls the API may be executing at the same time
  NoModel,       \* no model: nothing in production, no toVersionId
  NoRequest,     \* nobody holds the row lock
  MaxStamps,     \* bound: no call begins once the clock has been read so often
  MaxOverlapped  \* bound: the same, once two calls have overlapped

ASSUME NoModelAssumption == NoModel \notin Models
ASSUME NoRequestAssumption == NoRequest \notin Requests
ASSUME MaxStampsAssumption == MaxStamps \in Nat /\ MaxOverlapped \in Nat

VARIABLES
  row,        \* model_versions table, last committed version of each row
  audit,      \* audit_log table, the committed promotions and rollbacks
  lock,       \* per model, the transaction holding the row's write lock
  pc,         \* per request, where it is
  asked,      \* per request, the version asked for; none in a plain rollback()
  current,    \* per request, the production model it read
  target,     \* per request, the model it promotes
  stamp,      \* per request, its promotedAt
  clock,      \* the last value of new Date()
  overlapped  \* history: two calls were ever in progress at once

vars == <<row, audit, lock, pc, asked, current, target, stamp, clock, overlapped>>

-----------------------------------------------------------------------------
\* promoted_at is 0 for a version that never was in production.  No code path
\* writes the stage RETIRED.
Rows == [stage: {"absent", "CANDIDATE", "STAGED", "PRODUCTION"}, promotedAt: Nat]

Maybe == Models \cup {NoModel}

AuditRows == [from: Maybe, to: Models]

Positions ==
  {"idle", "findProduction", "findDemoted", "demote", "promote", "audit", "commit"}

Init ==
  /\ row = [m \in Models |-> [stage |-> "absent", promotedAt |-> 0]]
  /\ audit = <<>>
  /\ lock = [m \in Models |-> NoRequest]
  /\ pc = [r \in Requests |-> "idle"]
  /\ asked = [r \in Requests |-> NoModel]
  /\ current = [r \in Requests |-> NoModel]
  /\ target = [r \in Requests |-> NoModel]
  /\ stamp = [r \in Requests |-> 0]
  /\ clock = 0
  /\ overlapped = FALSE

-----------------------------------------------------------------------------
\* register(): one INSERT of a fresh id.
Register(m) ==
  /\ row[m].stage = "absent"
  /\ row' = [row EXCEPT ![m] = [stage |-> "CANDIDATE", promotedAt |-> 0]]
  /\ UNCHANGED <<audit, lock, pc, asked, current, target, stamp, clock, overlapped>>

\* promote(id), rollback(id) or rollback(): BEGIN and, if a version is asked
\* for, findById.  An unknown version is a 404 that changes nothing: it is no
\* step of this model.
Begin(r, id) ==
  /\ pc[r] = "idle"
  /\ id # NoModel => row[id].stage # "absent"
  /\ pc' = [pc EXCEPT ![r] = "findProduction"]
  /\ asked' = [asked EXCEPT ![r] = id]
  /\ target' = [target EXCEPT ![r] = id]
  /\ overlapped' = (overlapped \/ \E q \in Requests : pc[q] # "idle")
  /\ clock < (IF overlapped' THEN MaxOverlapped ELSE MaxStamps)
  /\ UNCHANGED <<row, audit, lock, current, stamp, clock>>

\* However the transaction ends, its locks are freed and the call is over.
Finish(r) ==
  /\ pc' = [pc EXCEPT ![r] = "idle"]
  /\ lock' = [m \in Models |-> IF lock[m] = r THEN NoRequest ELSE lock[m]]
  /\ asked' = [asked EXCEPT ![r] = NoModel]
  /\ current' = [current EXCEPT ![r] = NoModel]
  /\ target' = [target EXCEPT ![r] = NoModel]
  /\ stamp' = [stamp EXCEPT ![r] = 0]
  /\ UNCHANGED <<clock, overlapped>>

\* Mutant: the error path leaves the transaction open on its connection.
AbandonOpen(r) ==
  /\ pc' = [pc EXCEPT ![r] = "idle"]
  /\ UNCHANGED <<row, audit, lock, asked, current, target, stamp, clock, overlapped>>

\* It ends without COMMIT: its writes vanish.
Abandon(r) == Finish(r) /\ UNCHANGED <<row, audit>>

\* `promotedAt = new Date()`, just before the UPDATE that may have to wait.
Stamp(r) ==
  /\ clock' = clock + 1
  /\ stamp' = [stamp EXCEPT ![r] = clock + 1]

\* applyProductionTransition: only another model is demoted first.
Apply(r, from, to) ==
  IF from \notin {NoModel, to}
  THEN pc' = [pc EXCEPT ![r] = "demote"] /\ UNCHANGED <<stamp, clock>>
  ELSE pc' = [pc EXCEPT ![r] = "promote"] /\ Stamp(r)

\* WHERE stage = 'PRODUCTION' LIMIT 1: whichever comes first.
IsProduction(m) ==
  IF m = NoModel THEN \A n \in Models : row[n].stage # "PRODUCTION"
  ELSE row[m].stage = "PRODUCTION"

FindProduction(r) ==
  /\ pc[r] = "findProduction"
  /\ \E m \in Maybe :
       /\ IsProduction(m)
       /\ current' = [current EXCEPT ![r] = m]
       /\ IF asked[r] = NoModel
          THEN pc' = [pc EXCEPT ![r] = "findDemoted"] /\ UNCHANGED <<stamp, clock>>
          ELSE Apply(r, m, target[r])
  /\ UNCHANGED <<row, audit, lock, asked, target, overlapped>>

Demoted(except) ==
  {m \in Models \ {except} : row[m].stage = "STAGED" /\ row[m].promotedAt # 0}

\* Mutant: the query has no ORDER BY.
IsAnyDemoted(m, except) == m \in Demoted(except)

\* ORDER BY promoted_at DESC LIMIT 1.
IsMostRecentlyDemoted(m, except) ==
  /\ m \in Demoted(except)
  /\ \A n \in Demoted(except) : row[n].promotedAt <= row[m].promotedAt

\* findMostRecentlyDemotedProduction.
FindDemoted(r) ==
  /\ pc[r] = "findDemoted"
  /\ \E m \in Models :
       /\ IsMostRecentlyDemoted(m, current[r])
       /\ target' = [target EXCEPT ![r] = m]
       /\ Apply(r, current[r], m)
  /\ UNCHANGED <<row, audit, lock, asked, current, overlapped>>

\* "no prior production model version to roll back to".
NothingDemoted(r) ==
  /\ pc[r] = "findDemoted"
  /\ Demoted(current[r]) = {}
  /\ Abandon(r)

\* An UPDATE gets the row lock once no other transaction has it.
Lock(r, m) == lock[m] = NoRequest /\ lock' = [lock EXCEPT ![m] = r]

\* Mutant: setStage is called without the transaction's executor.
DemoteOutsideTx(r) ==
  /\ pc[r] = "demote"
  /\ lock[current[r]] = NoRequest
  /\ row' = [row EXCEPT ![current[r]].stage = "STAGED"]
  /\ pc' = [pc EXCEPT ![r] = "promote"]
  /\ Stamp(r)
  /\ UNCHANGED <<audit, lock, asked, current, target, overlapped>>

\* setStage(current, STAGED).
Demote(r) ==
  /\ pc[r] = "demote"
  /\ Lock(r, current[r])
  /\ pc' = [pc EXCEPT ![r] = "promote"]
  /\ Stamp(r)
  /\ UNCHANGED <<row, audit, asked, current, target, overlapped>>

\* setStage(target, PRODUCTION).
Promote(r) ==
  /\ pc[r] = "promote"
  /\ Lock(r, target[r])
  /\ pc' = [pc EXCEPT ![r] = "audit"]
  /\ UNCHANGED <<row, audit, asked, current, target, stamp, clock, overlapped>>

\* The audit row and the read back, which finds the row: none is ever deleted.
RecordAudit(r) ==
  /\ pc[r] = "audit"
  /\ pc' = [pc EXCEPT ![r] = "commit"]
  /\ UNCHANGED <<row, audit, lock, asked, current, target, stamp, clock, overlapped>>

\* Mutant: a demotion writes its null promotion into promoted_at.
WrittenClearing(r, m) ==
  IF m = target[r] THEN [stage |-> "PRODUCTION", promotedAt |-> stamp[r]]
  ELSE [stage |-> "STAGED", promotedAt |-> 0]

\* What r's UPDATE made of row m: a demotion keeps promoted_at.
Written(r, m) ==
  IF m = target[r] THEN [stage |-> "PRODUCTION", promotedAt |-> stamp[r]]
  ELSE [stage |-> "STAGED", promotedAt |-> row[m].promotedAt]

\* Mutant: the audit row names the version asked for.
CommitAuditingAsked(r) ==
  /\ pc[r] = "commit"
  /\ row' = [m \in Models |-> IF lock[m] = r THEN Written(r, m) ELSE row[m]]
  /\ audit' = Append(audit, [from |-> current[r], to |-> asked[r]])
  /\ Finish(r)

\* COMMIT.
Commit(r) ==
  /\ pc[r] = "commit"
  /\ row' = [m \in Models |-> IF lock[m] = r THEN Written(r, m) ELSE row[m]]
  /\ audit' = Append(audit, [from |-> current[r], to |-> target[r]])
  /\ Finish(r)

\* The model the request's next UPDATE writes.
Wanted(r) ==
  IF pc[r] = "demote" THEN current[r]
  ELSE IF pc[r] = "promote" THEN target[r] ELSE NoModel

\* Requests that wait for each other's locks in a circle.
InCircle(r) ==
  \E S \in SUBSET Requests :
    r \in S /\ \A q \in S : Wanted(q) # NoModel /\ lock[Wanted(q)] \in S

\* PostgreSQL ends a deadlock by failing one of its transactions.
DeadlockDetected(r) == InCircle(r) /\ Abandon(r)

\* A statement fails, the transaction times out, the connection drops or the
\* API process dies, anywhere before COMMIT.
Rollback(r) == pc[r] # "idle" /\ Abandon(r)

Step(r) ==
  \/ FindProduction(r) \/ FindDemoted(r) \/ NothingDemoted(r)
  \/ RecordAudit(r) \/ Commit(r) \/ DeadlockDetected(r)

Update(r) == Demote(r) \/ Promote(r)

Next ==
  \/ \E m \in Models : Register(m)
  \/ \E r \in Requests :
       \/ \E id \in Maybe : Begin(r, id)
       \/ Step(r)
       \/ Update(r)
       \/ Rollback(r)

Spec == Init /\ [][Next]_vars

\* As in Missions: the event loop runs what can proceed and PostgreSQL queues
\* the waiters of a row lock and looks for deadlocks.
Fairness == \A r \in Requests : WF_vars(Step(r)) /\ SF_vars(Update(r))

FairSpec == Spec /\ Fairness

-----------------------------------------------------------------------------
\* Every variable stays in its domain.
TypeOK ==
  /\ row \in [Models -> Rows]
  /\ audit \in Seq(AuditRows)
  /\ lock \in [Models -> Requests \cup {NoRequest}]
  /\ pc \in [Requests -> Positions]
  /\ asked \in [Requests -> Maybe]
  /\ current \in [Requests -> Maybe]
  /\ target \in [Requests -> Maybe]
  /\ stamp \in [Requests -> Nat]
  /\ clock \in Nat
  /\ overlapped \in BOOLEAN

\* REQ-8.10/8.12: the model the last audited promotion or rollback named is in
\* production: however promotions overlap, deadlock or fail, the detectors are
\* never left without a model once they had one.
AuditNamesProduction ==
  audit # <<>> => row[audit[Len(audit)].to].stage = "PRODUCTION"

\* REQ-8.10: a model that was ever in production is so now or can be rolled back
\* to: it is STAGED and its promoted_at is kept.
FormerProductionIsRollbackTarget ==
  \A i \in DOMAIN audit :
    row[audit[i].to].stage \in {"STAGED", "PRODUCTION"} /\ row[audit[i].to].promotedAt # 0

\* The audit rows that changed the production model.
Switches == {i \in DOMAIN audit : audit[i].from # audit[i].to}

UndoesLastSwitch ==
  \A r \in Requests :
    (asked[r] = NoModel /\ pc[r] = "commit" /\ audit' # audit /\ pc'[r] = "idle"
     /\ ~overlapped)
    => \E i \in Switches :
         /\ \A j \in Switches : j <= i
         /\ target[r] = audit[i].from

\* REQ-8.11: as long as calls have not overlapped, a rollback without a version
\* returns to the model that was in production before the last change, after
\* any number of promotions, repeated promotions, rollbacks and failed calls.
RollbackUndoesLastSwitch == [][UndoesLastSwitch]_vars

\* No call waits for ever, although two calls may lock the same two rows in
\* opposite orders.
CallsEnd == \A r \in Requests : pc[r] # "idle" ~> pc[r] = "idle"

\* model-registry.repository.ts: at most one row is in PRODUCTION, by
\* construction.  Two overlapping promotions both demote the same model.
AtMostOneProduction ==
  \A m, n \in Models :
    row[m].stage = "PRODUCTION" /\ row[n].stage = "PRODUCTION" => m = n
=============================================================================
