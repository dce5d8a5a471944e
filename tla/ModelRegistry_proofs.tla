------------------------ MODULE ModelRegistry_proofs ------------------------
(***************************************************************************)
(* Proofs about ModelRegistry, for every set of models and requests and    *)
(* every bound: the registry keeps a production model once it has one, and *)
(* never forgets a former one.  RegistryInv is the inductive strengthening;*)
(* SequentialInv is that of calls which have not overlapped, from which a  *)
(* plain rollback undoes the last switch.                                  *)
(***************************************************************************)
EXTENDS ModelRegistry, TLAPS

WasProduction(m) == row[m].stage \in {"STAGED", "PRODUCTION"} /\ row[m].promotedAt # 0

\* Only a transaction past its first UPDATE holds locks: of the model it
\* demotes and of its target, and of the target once that is promoted.
LockInv ==
  /\ \A m \in Models, r \in Requests :
       lock[m] = r => m \in {current[r], target[r]} /\ pc[r] \in {"promote", "audit", "commit"}
  /\ \A r \in Requests : pc[r] \in {"audit", "commit"} => lock[target[r]] = r

\* A transaction demotes and promotes models that are registered.
TargetInv ==
  \A r \in Requests :
    /\ pc[r] = "findProduction" => target[r] = asked[r]
    /\ target[r] # NoModel => row[target[r]].stage # "absent"
    /\ pc[r] \in {"demote", "promote", "audit", "commit"} => target[r] # NoModel
    /\ pc[r] = "demote" => current[r] # NoModel

\* The model a transaction read in production was so; its stamp is a time.
ReadInv ==
  \A r \in Requests :
    /\ current[r] # NoModel => WasProduction(current[r])
    /\ pc[r] \in {"promote", "audit", "commit"} => stamp[r] # 0

\* Stages and timestamps agree.
StageInv == \A m \in Models : row[m].stage \in {"STAGED", "PRODUCTION"} => WasProduction(m)

RegistryInv ==
  /\ TypeOK
  /\ LockInv
  /\ TargetInv
  /\ ReadInv
  /\ StageInv
  /\ AuditNamesProduction
  /\ FormerProductionIsRollbackTarget

-----------------------------------------------------------------------------
\* What a list gains and keeps when a row is appended.
LEMMA AppendedRow ==
  ASSUME NEW S, NEW s \in Seq(S), NEW e \in S
  PROVE  /\ Append(s, e) \in Seq(S)
         /\ Append(s, e) # <<>>
         /\ Append(s, e)[Len(Append(s, e))] = e
         /\ \A i \in DOMAIN Append(s, e) :
              (i \in DOMAIN s /\ Append(s, e)[i] = s[i]) \/ Append(s, e)[i] = e
OBVIOUS

\* The invariant holds of an empty registry.
LEMMA InitRegistryInv == Init => RegistryInv
<1> SUFFICES ASSUME Init PROVE RegistryInv
  OBVIOUS
<1>1. TypeOK
  <2>1. row \in [Models -> Rows] /\ stamp \in [Requests -> Nat] /\ clock \in Nat
    BY DEF Init, Rows
  <2>2. audit \in Seq(AuditRows)
    BY DEF Init
  <2> QED
    BY <2>1, <2>2 DEF Init, TypeOK, Maybe, Positions
<1>2. LockInv /\ TargetInv /\ ReadInv /\ StageInv
  BY NoRequestAssumption DEF Init, LockInv, TargetInv, ReadInv, StageInv
<1>3. AuditNamesProduction /\ FormerProductionIsRollbackTarget
  BY DEF Init, AuditNamesProduction, FormerProductionIsRollbackTarget
<1> QED
  BY <1>1, <1>2, <1>3 DEF RegistryInv

\* Reading the clock gives a time, and not the one that stands for none.
LEMMA StampTypes ==
  ASSUME TypeOK, NEW r \in Requests, Stamp(r)
  PROVE  clock' \in Nat /\ stamp' \in [Requests -> Nat] /\ stamp'[r] # 0
BY DEF TypeOK, Stamp

\* A row never becomes absent again, and one that was in production stays so
\* or is a rollback target.
RowsKept ==
  \A m \in Models :
    /\ row[m].stage # "absent" => row'[m].stage # "absent"
    /\ WasProduction(m) => WasProduction(m)'

\* The audit log and the committed rows stay as they are.
TableUnchanged == UNCHANGED <<row, audit>>

\* Registering a model keeps the invariant.
LEMMA RegisterInv ==
  ASSUME RegistryInv, NEW m \in Models, Register(m)
  PROVE  RegistryInv'
<1> USE DEF RegistryInv, Register
<1>1. TypeOK'
  BY DEF TypeOK, Rows
<1>2. RowsKept /\ \A n \in Models : n # m => row'[n] = row[n]
  BY DEF TypeOK, RowsKept, WasProduction
<1>3. LockInv'
  BY DEF LockInv
<1>4. TargetInv' /\ ReadInv'
  BY <1>2 DEF TargetInv, ReadInv, RowsKept, TypeOK, Maybe
<1>5. StageInv'
  BY DEF StageInv, WasProduction, TypeOK
<1>6. AuditNamesProduction'
  BY <1>2 DEF AuditNamesProduction, TypeOK, AuditRows
<1>7. FormerProductionIsRollbackTarget'
  BY <1>2 DEF FormerProductionIsRollbackTarget, TypeOK, AuditRows
<1> QED
  BY <1>1, <1>3, <1>4, <1>5, <1>6, <1>7

\* What a step that writes no table leaves to show.
LEMMA TablesKept ==
  ASSUME RegistryInv, TableUnchanged
  PROVE  StageInv' /\ AuditNamesProduction' /\ FormerProductionIsRollbackTarget'
BY DEF RegistryInv, TableUnchanged, StageInv, WasProduction, AuditNamesProduction,
       FormerProductionIsRollbackTarget

\* Ending a transaction frees its locks and forgets what it read.
LEMMA FinishInv ==
  ASSUME RegistryInv, NEW r \in Requests, Finish(r), RowsKept
  PROVE  LockInv' /\ TargetInv' /\ ReadInv'
<1> USE DEF RegistryInv, Finish
<1>1. LockInv'
  BY NoRequestAssumption DEF LockInv, TargetInv, TypeOK, Maybe
<1>2. TargetInv'
  BY DEF TargetInv, TypeOK, Maybe, RowsKept
<1>3. ReadInv'
  BY DEF ReadInv, TypeOK, Maybe, RowsKept
<1> QED
  BY <1>1, <1>2, <1>3

\* So does a rollback, and the tables stay.
LEMMA AbandonInv ==
  ASSUME RegistryInv, NEW r \in Requests, Abandon(r)
  PROVE  RegistryInv'
<1>1. RowsKept /\ TableUnchanged
  BY DEF Abandon, RowsKept, WasProduction, TableUnchanged
<1>2. LockInv' /\ TargetInv' /\ ReadInv'
  BY <1>1, FinishInv DEF Abandon
<1>3. TypeOK'
  BY DEF RegistryInv, Abandon, Finish, TypeOK, Maybe, Positions
<1> QED
  BY <1>1, <1>2, <1>3, TablesKept DEF RegistryInv

\* A commit puts its target in production and keeps every former production
\* model a rollback target: it writes its target and the model it read only.
LEMMA CommitInv ==
  ASSUME RegistryInv, NEW r \in Requests, Commit(r)
  PROVE  RegistryInv'
<1> USE DEF RegistryInv
<1> DEFINE entry == [from |-> current[r], to |-> target[r]]
<1>1. /\ target[r] \in Models /\ lock[target[r]] = r
      /\ stamp[r] \in Nat \ {0}
      /\ entry \in AuditRows
      /\ audit' = Append(audit, entry)
  BY DEF Commit, LockInv, TargetInv, ReadInv, TypeOK, Maybe, AuditRows
<1>2. ASSUME NEW m \in Models
      PROVE  /\ row'[m] \in Rows
             /\ row'[m] = row[m] \/ WasProduction(m)'
             /\ m = target[r] => row'[m].stage = "PRODUCTION" /\ WasProduction(m)'
  <2>1. row'[m] = IF lock[m] = r THEN Written(r, m) ELSE row[m]
    BY DEF Commit
  <2>2. lock[m] = r /\ m # target[r] => WasProduction(m)
    BY NoModelAssumption DEF LockInv, ReadInv, TypeOK, Maybe
  <2>3. row[m] \in Rows
    BY DEF TypeOK
  <2>4. CASE lock[m] # r
    BY <1>1, <2>1, <2>3, <2>4
  <2>5. CASE m = target[r]
    <3>1. row'[m] = [stage |-> "PRODUCTION", promotedAt |-> stamp[r]]
      BY <1>1, <2>1, <2>5 DEF Written
    <3> QED
      BY <1>1, <3>1 DEF WasProduction, Rows
  <2>6. CASE lock[m] = r /\ m # target[r]
    <3>1. row'[m] = [stage |-> "STAGED", promotedAt |-> row[m].promotedAt]
      BY <2>1, <2>6 DEF Written
    <3> QED
      BY <2>2, <2>3, <2>6, <3>1 DEF WasProduction, Rows
  <2> QED
    BY <2>4, <2>5, <2>6
<1>3. RowsKept
  BY <1>2 DEF RowsKept, WasProduction
<1>4. LockInv' /\ TargetInv' /\ ReadInv'
  BY <1>3, FinishInv DEF Commit
<1>5. TypeOK'
  <2>1. audit' \in Seq(AuditRows)
    BY <1>1, AppendedRow DEF TypeOK
  <2>2. row' \in [Models -> Rows]
    BY <1>2 DEF Commit
  <2> QED
    BY <2>1, <2>2 DEF Commit, Finish, TypeOK, Maybe, Positions
<1>6. StageInv'
  BY <1>2 DEF StageInv, WasProduction
<1>7. AuditNamesProduction'
  <2>1. audit'[Len(audit')].to = target[r]
    BY <1>1, AppendedRow DEF TypeOK
  <2>2. row'[target[r]].stage = "PRODUCTION"
    BY <1>1, <1>2
  <2> QED
    BY <2>1, <2>2 DEF AuditNamesProduction
<1>8. FormerProductionIsRollbackTarget'
  <2>1. \A i \in DOMAIN audit' :
          (i \in DOMAIN audit /\ audit'[i] = audit[i]) \/ audit'[i] = entry
    BY <1>1, AppendedRow DEF TypeOK
  <2>2. ASSUME NEW i \in DOMAIN audit
        PROVE  audit[i].to \in Models /\ WasProduction(audit[i].to)
    <3>1. audit[i] \in AuditRows
      BY DEF TypeOK
    <3> QED
      BY <3>1 DEF FormerProductionIsRollbackTarget, WasProduction, AuditRows
  <2>3. ASSUME NEW m \in Models, WasProduction(m) \/ m = target[r]
        PROVE  row'[m].stage \in {"STAGED", "PRODUCTION"} /\ row'[m].promotedAt # 0
    BY <1>2, <1>3, <2>3 DEF RowsKept, WasProduction
  <2>4. \A i \in DOMAIN audit' :
          audit'[i].to \in Models /\ (WasProduction(audit'[i].to) \/ audit'[i].to = target[r])
    BY <1>1, <2>1, <2>2
  <2> QED
    BY <2>3, <2>4 DEF FormerProductionIsRollbackTarget
<1> QED
  BY <1>4, <1>5, <1>6, <1>7, <1>8

\* Every other step writes no table.
LEMMA QuietStepInv ==
  ASSUME RegistryInv, NEW r \in Requests,
         \/ \E id \in Maybe : Begin(r, id)
         \/ FindProduction(r) \/ FindDemoted(r)
         \/ Demote(r) \/ Promote(r) \/ RecordAudit(r)
  PROVE  RegistryInv'
<1> USE DEF RegistryInv
<1>0. TableUnchanged /\ \A m \in Models : WasProduction(m)' = WasProduction(m)
  BY DEF TableUnchanged, WasProduction, Begin, FindProduction, FindDemoted, Demote, Promote,
         RecordAudit
<1>1. ASSUME NEW id \in Maybe, Begin(r, id)
      PROVE  TypeOK' /\ LockInv' /\ TargetInv' /\ ReadInv'
  <2>1. TypeOK'
    BY <1>1 DEF Begin, TypeOK, Positions
  <2>2. LockInv'
    BY <1>1 DEF Begin, LockInv, TypeOK
  <2>3. TargetInv'
    BY <1>1 DEF Begin, TargetInv, TypeOK
  <2>4. ReadInv'
    BY <1>0, <1>1 DEF Begin, ReadInv, TypeOK, Maybe
  <2> QED
    BY <2>1, <2>2, <2>3, <2>4
<1>2. ASSUME FindProduction(r)
      PROVE  TypeOK' /\ LockInv' /\ TargetInv' /\ ReadInv'
  <2>0. PICK m \in Maybe :
          /\ IsProduction(m)
          /\ current' = [current EXCEPT ![r] = m]
          /\ IF asked[r] = NoModel
             THEN pc' = [pc EXCEPT ![r] = "findDemoted"] /\ UNCHANGED <<stamp, clock>>
             ELSE Apply(r, m, target[r])
    BY <1>2 DEF FindProduction
  <2>1. TypeOK'
    <3>1. clock' \in Nat /\ stamp' \in [Requests -> Nat]
      BY <2>0, StampTypes DEF Apply, TypeOK
    <3> QED
      BY <1>2, <2>0, <3>1 DEF FindProduction, TypeOK, Positions, Apply
  <2>2. LockInv'
    BY <1>2, <2>0 DEF FindProduction, LockInv, TypeOK, Apply
  <2>3. TargetInv'
    BY <1>2, <2>0 DEF FindProduction, TargetInv, TypeOK, Apply
  <2>4. m # NoModel => WasProduction(m)
    BY <2>0 DEF IsProduction, StageInv, Maybe
  <2>5. ReadInv'
    BY <1>0, <1>2, <2>0, <2>4 DEF FindProduction, ReadInv, TypeOK, Maybe, Apply, Stamp
  <2> QED
    BY <2>1, <2>2, <2>3, <2>5
<1>3. ASSUME FindDemoted(r)
      PROVE  TypeOK' /\ LockInv' /\ TargetInv' /\ ReadInv'
  <2>0. PICK m \in Models :
          /\ IsMostRecentlyDemoted(m, current[r])
          /\ target' = [target EXCEPT ![r] = m]
          /\ Apply(r, current[r], m)
    BY <1>3 DEF FindDemoted
  <2>1. TypeOK'
    <3>1. clock' \in Nat /\ stamp' \in [Requests -> Nat]
      BY <2>0, StampTypes DEF Apply, TypeOK
    <3> QED
      BY <1>3, <2>0, <3>1 DEF FindDemoted, TypeOK, Positions, Apply, Maybe
  <2>2. LockInv'
    BY <1>3, <2>0 DEF FindDemoted, LockInv, TypeOK, Apply
  <2>3. m # NoModel /\ row[m].stage # "absent"
    BY <2>0, NoModelAssumption DEF IsMostRecentlyDemoted, Demoted
  <2>4. TargetInv'
    BY <1>3, <2>0, <2>3 DEF FindDemoted, TargetInv, TypeOK, Apply
  <2>5. ReadInv'
    BY <1>0, <1>3, <2>0 DEF FindDemoted, ReadInv, TypeOK, Maybe, Apply, Stamp
  <2> QED
    BY <2>1, <2>2, <2>4, <2>5
<1>4. ASSUME Demote(r)
      PROVE  TypeOK' /\ LockInv' /\ TargetInv' /\ ReadInv'
  <2>0. current[r] \in Models
    BY <1>4 DEF Demote, TargetInv, TypeOK, Maybe
  <2>1. TypeOK'
    BY <1>4, StampTypes DEF Demote, Lock, TypeOK, Positions
  <2>2. LockInv'
    BY <1>4, <2>0, NoRequestAssumption DEF Demote, Lock, LockInv, TypeOK
  <2>3. TargetInv'
    BY <1>4 DEF Demote, TargetInv, TypeOK
  <2>4. ReadInv'
    BY <1>0, <1>4 DEF Demote, Stamp, ReadInv, TypeOK, Maybe
  <2> QED
    BY <2>1, <2>2, <2>3, <2>4
<1>5. ASSUME Promote(r)
      PROVE  TypeOK' /\ LockInv' /\ TargetInv' /\ ReadInv'
  <2>0. target[r] \in Models
    BY <1>5 DEF Promote, TargetInv, TypeOK, Maybe
  <2>1. TypeOK'
    BY <1>5 DEF Promote, Lock, TypeOK, Positions
  <2>2. LockInv'
    BY <1>5, <2>0, NoRequestAssumption DEF Promote, Lock, LockInv, TypeOK, TargetInv, Maybe
  <2>3. TargetInv'
    BY <1>5 DEF Promote, TargetInv, TypeOK
  <2>4. ReadInv'
    BY <1>0, <1>5 DEF Promote, ReadInv, TypeOK, Maybe
  <2> QED
    BY <2>1, <2>2, <2>3, <2>4
<1>6. ASSUME RecordAudit(r)
      PROVE  TypeOK' /\ LockInv' /\ TargetInv' /\ ReadInv'
  <2>1. TypeOK'
    BY <1>6 DEF RecordAudit, TypeOK, Positions
  <2>2. LockInv'
    BY <1>6 DEF RecordAudit, LockInv, TypeOK
  <2>3. TargetInv'
    BY <1>6 DEF RecordAudit, TargetInv, TypeOK
  <2>4. ReadInv'
    BY <1>0, <1>6 DEF RecordAudit, ReadInv, TypeOK, Maybe
  <2> QED
    BY <2>1, <2>2, <2>3, <2>4
<1> QED
  BY <1>0, <1>1, <1>2, <1>3, <1>4, <1>5, <1>6, TablesKept

\* The invariant is inductive.
LEMMA NextRegistryInv == RegistryInv /\ [Next]_vars => RegistryInv'
<1> SUFFICES ASSUME RegistryInv, [Next]_vars PROVE RegistryInv'
  OBVIOUS
<1>1. ASSUME NEW m \in Models, Register(m) PROVE RegistryInv'
  BY <1>1, RegisterInv
<1>2. ASSUME NEW r \in Requests, Step(r) \/ Update(r) \/ Rollback(r) PROVE RegistryInv'
  <2>1. \/ Abandon(r)
        \/ Commit(r)
        \/ FindProduction(r) \/ FindDemoted(r) \/ Demote(r) \/ Promote(r) \/ RecordAudit(r)
    BY <1>2 DEF Step, Update, Rollback, NothingDemoted, DeadlockDetected
  <2> QED
    BY <2>1, AbandonInv, CommitInv, QuietStepInv
<1>3. ASSUME NEW r \in Requests, NEW id \in Maybe, Begin(r, id) PROVE RegistryInv'
  BY <1>3, QuietStepInv
<1>4. ASSUME UNCHANGED vars PROVE RegistryInv'
  BY <1>4 DEF vars, RegistryInv, TypeOK, LockInv, TargetInv, ReadInv, StageInv, WasProduction,
              AuditNamesProduction, FormerProductionIsRollbackTarget
<1> QED
  BY <1>1, <1>2, <1>3, <1>4 DEF Next

\* The invariant holds of every reachable state.
THEOREM RegistryInvariant == Spec => []RegistryInv
<1> QED
  BY InitRegistryInv, NextRegistryInv, PTL DEF Spec

\* Every variable stays in its domain.
THEOREM RegistryTypeCorrect == Spec => []TypeOK
BY RegistryInvariant, PTL DEF RegistryInv

\* REQ-8.10/8.12: the target of the last audited promotion or rollback is in
\* production, however many calls overlap, deadlock or fail.
THEOREM ProductionIsKept == Spec => []AuditNamesProduction
BY RegistryInvariant, PTL DEF RegistryInv

\* REQ-8.10: every former production model can be rolled back to.
THEOREM RollbackTargetsKept == Spec => []FormerProductionIsRollbackTarget
BY RegistryInvariant, PTL DEF RegistryInv
-----------------------------------------------------------------------------
InProduction(m) == row[m].stage = "PRODUCTION"

Staged(m) == row[m].stage = "STAGED"

\* What promotions leave behind when calls never overlap: one production model,
\* with the latest stamp of all that were ever promoted.
ProductionIsLatest ==
  /\ \A m, n \in Models : InProduction(m) /\ InProduction(n) => m = n
  /\ \A m, n \in Models : InProduction(m) /\ Staged(n) => row[n].promotedAt < row[m].promotedAt
  /\ \A m \in Models : row[m].promotedAt <= clock

\* i is the last switch of the production model.
IsLastSwitch(i) == i \in Switches /\ \A j \in Switches : j <= i

\* The model the last switch replaced has the latest stamp of the demoted ones.
LastSwitchDemoted ==
  (\E n \in Models : Staged(n)) =>
    \E i \in DOMAIN audit :
      /\ IsLastSwitch(i)
      /\ audit[i].from \in Models /\ Staged(audit[i].from)
      /\ \A n \in Models : Staged(n) /\ n # audit[i].from =>
           row[n].promotedAt < row[audit[i].from].promotedAt

\* A call alone: what it read is still so, its stamp is the latest, and it has
\* the lock of the model it replaces.
AloneInv ==
  \A r \in Requests :
    /\ \A q \in Requests : pc[q] # "idle" /\ pc[r] # "idle" => q = r
    /\ pc[r] \notin {"idle", "findProduction"} => IsProduction(current[r])
    /\ pc[r] \in {"promote", "audit", "commit"} =>
         /\ \A m \in Models : row[m].promotedAt < stamp[r]
         /\ stamp[r] <= clock
         /\ current[r] \notin {NoModel, target[r]} => lock[current[r]] = r
    /\ pc[r] \in {"demote", "promote", "audit", "commit"} /\ asked[r] = NoModel =>
         IsMostRecentlyDemoted(target[r], current[r])

SequentialInv ==
  ~overlapped => ProductionIsLatest /\ LastSwitchDemoted /\ AloneInv

\* Nothing is in production, demoted or in progress at first.
LEMMA InitSequentialInv == Init => SequentialInv
<1> SUFFICES ASSUME Init PROVE SequentialInv
  OBVIOUS
<1>1. \A m \in Models : row[m].stage = "absent" /\ row[m].promotedAt = 0
  BY DEF Init
<1>2. ProductionIsLatest /\ LastSwitchDemoted
  BY <1>1 DEF ProductionIsLatest, LastSwitchDemoted, InProduction, Staged, Init
<1>3. AloneInv
  BY DEF AloneInv, Init
<1> QED
  BY <1>2, <1>3 DEF SequentialInv

\* What a step that writes no table and does not turn the clock back keeps.
LEMMA OrderKept ==
  ASSUME RegistryInv, ProductionIsLatest, LastSwitchDemoted, TableUnchanged,
         clock' \in Nat, clock <= clock'
  PROVE  /\ ProductionIsLatest' /\ LastSwitchDemoted'
         /\ \A m \in Maybe : IsProduction(m)' <=> IsProduction(m)
         /\ \A m, n \in Maybe : IsMostRecentlyDemoted(m, n)' <=> IsMostRecentlyDemoted(m, n)
<1>1. ProductionIsLatest'
  <2>1. \A m \in Models : row[m].promotedAt \in Nat
    BY DEF RegistryInv, TypeOK, Rows
  <2>2. clock \in Nat
    BY DEF RegistryInv, TypeOK
  <2> QED
    BY <2>1, <2>2 DEF ProductionIsLatest, TableUnchanged, InProduction, Staged
<1>2. LastSwitchDemoted'
  BY DEF LastSwitchDemoted, TableUnchanged, Staged, IsLastSwitch, Switches
<1>3. \A m \in Maybe : IsProduction(m)' <=> IsProduction(m)
  BY DEF IsProduction, TableUnchanged
<1>4. \A m, n \in Maybe : IsMostRecentlyDemoted(m, n)' <=> IsMostRecentlyDemoted(m, n)
  BY DEF IsMostRecentlyDemoted, Demoted, TableUnchanged
<1> QED
  BY <1>1, <1>2, <1>3, <1>4

\* A new model is a candidate: it is neither in production nor demoted.
LEMMA RegisterSequentialInv ==
  ASSUME RegistryInv, SequentialInv, NEW m \in Models, Register(m)
  PROVE  SequentialInv'
<1> SUFFICES ASSUME ~overlapped PROVE (ProductionIsLatest /\ LastSwitchDemoted /\ AloneInv)'
  BY DEF SequentialInv, Register
<1> USE DEF SequentialInv, Register
<1>1. /\ row'[m].stage = "CANDIDATE" /\ row'[m].promotedAt = 0
      /\ \A n \in Models : n # m => row'[n] = row[n]
      /\ \A n \in Models : row[n].promotedAt \in Nat
      /\ clock \in Nat
  BY DEF RegistryInv, TypeOK, Rows
<1>2. ProductionIsLatest'
  BY <1>1 DEF ProductionIsLatest, InProduction, Staged
<1>3. \A n \in Models : Staged(n)' <=> Staged(n)
  BY <1>1 DEF Staged
<1>4. \A n \in Models : Staged(n) => row'[n] = row[n]
  BY <1>1 DEF Staged
<1>5. LastSwitchDemoted'
  <2> SUFFICES ASSUME \E n \in Models : Staged(n)
               PROVE  LastSwitchDemoted'
    BY <1>3 DEF LastSwitchDemoted
  <2>1. PICK i \in DOMAIN audit :
          /\ IsLastSwitch(i)
          /\ audit[i].from \in Models /\ Staged(audit[i].from)
          /\ \A n \in Models : Staged(n) /\ n # audit[i].from =>
               row[n].promotedAt < row[audit[i].from].promotedAt
    BY DEF LastSwitchDemoted
  <2>2. audit' = audit /\ IsLastSwitch(i)'
    BY <2>1 DEF IsLastSwitch, Switches
  <2> QED
    BY <1>3, <1>4, <2>1, <2>2 DEF LastSwitchDemoted
<1>6. \A n \in Maybe : IsProduction(n) => IsProduction(n)'
  BY <1>1 DEF IsProduction, Maybe
<1>7. \A n, k \in Maybe : IsMostRecentlyDemoted(n, k) => IsMostRecentlyDemoted(n, k)'
  <2>1. \A k \in Maybe : Demoted(k)' = Demoted(k)
    BY <1>1 DEF Demoted
  <2>2. \A k \in Maybe : \A n \in Demoted(k) : n \in Models /\ Staged(n)
    BY DEF Demoted, Staged
  <2> QED
    BY <1>4, <2>1, <2>2 DEF IsMostRecentlyDemoted
<1>8. AloneInv'
  <2> SUFFICES ASSUME NEW r \in Requests PROVE AloneInv!(r)'
    BY DEF AloneInv
  <2>1. AloneInv!(r)
    BY DEF AloneInv
  <2>2. current[r] \in Maybe /\ target[r] \in Maybe
    BY DEF RegistryInv, TypeOK
  <2>3. pc[r] \in {"promote", "audit", "commit"} => 0 < stamp[r]
    BY DEF RegistryInv, ReadInv, TypeOK
  <2>4. pc[r] \in {"promote", "audit", "commit"} => \A n \in Models : row'[n].promotedAt < stamp[r]
    BY <1>1, <2>1, <2>3
  <2> QED
    BY <1>6, <1>7, <2>1, <2>2, <2>4
<1> QED
  BY <1>2, <1>5, <1>8

\* A call that ends without COMMIT leaves nothing in progress.
LEMMA AbandonSequentialInv ==
  ASSUME RegistryInv, SequentialInv, NEW r \in Requests, Abandon(r)
  PROVE  SequentialInv'
<1> SUFFICES ASSUME ~overlapped PROVE (ProductionIsLatest /\ LastSwitchDemoted /\ AloneInv)'
  BY DEF SequentialInv, Abandon, Finish
<1>1. /\ TableUnchanged /\ clock' = clock /\ clock \in Nat
      /\ pc' = [pc EXCEPT ![r] = "idle"]
  BY DEF Abandon, Finish, TableUnchanged, RegistryInv, TypeOK
<1>2. ProductionIsLatest' /\ LastSwitchDemoted'
  BY <1>1, OrderKept DEF SequentialInv
<1>3. AloneInv'
  <2> SUFFICES ASSUME NEW q \in Requests PROVE AloneInv!(q)'
    BY DEF AloneInv
  <2>1. CASE pc'[q] = "idle"
    BY <2>1
  <2>2. CASE pc'[q] # "idle"
    <3>1. q # r /\ pc'[q] = pc[q] /\ asked'[q] = asked[q] /\ current'[q] = current[q]
          /\ target'[q] = target[q] /\ stamp'[q] = stamp[q]
      BY <2>2 DEF Abandon, Finish, RegistryInv, TypeOK
    <3>2. pc[r] = "idle"
      BY <2>2, <3>1 DEF SequentialInv, AloneInv
    <3>3. AloneInv!(q)
      BY DEF SequentialInv, AloneInv
    <3>4. \A m \in Models : lock[m] # r
      BY <3>2 DEF RegistryInv, LockInv
    <3>5. lock' = lock
      BY <3>4 DEF Abandon, Finish, RegistryInv, TypeOK
    <3>6. current[q] \in Maybe /\ target[q] \in Maybe
      BY DEF RegistryInv, TypeOK
    <3> QED
      BY <1>1, <2>2, <3>1, <3>3, <3>5, <3>6, OrderKept DEF SequentialInv, TableUnchanged, RegistryInv, TypeOK
  <2> QED
    BY <2>1, <2>2
<1> QED
  BY <1>2, <1>3

\* A call that begins with no other in progress has read nothing yet.
LEMMA BeginSequentialInv ==
  ASSUME RegistryInv, SequentialInv, NEW r \in Requests, NEW id \in Maybe, Begin(r, id)
  PROVE  SequentialInv'
<1> SUFFICES ASSUME ~overlapped' PROVE (ProductionIsLatest /\ LastSwitchDemoted /\ AloneInv)'
  BY DEF SequentialInv
<1>1. /\ ~overlapped /\ \A q \in Requests : pc[q] = "idle"
      /\ TableUnchanged /\ clock' = clock /\ clock \in Nat
      /\ pc' = [pc EXCEPT ![r] = "findProduction"]
  BY DEF Begin, TableUnchanged, RegistryInv, TypeOK
<1>2. ProductionIsLatest' /\ LastSwitchDemoted'
  BY <1>1, OrderKept DEF SequentialInv
<1>3. \A q \in Requests : pc'[q] = IF q = r THEN "findProduction" ELSE "idle"
  BY <1>1 DEF RegistryInv, TypeOK
<1>4. AloneInv'
  BY <1>3 DEF AloneInv
<1> QED
  BY <1>2, <1>4

\* The steps of the only call in progress that write no table.
LEMMA QuietSequentialInv ==
  ASSUME RegistryInv, SequentialInv, NEW r \in Requests,
         FindProduction(r) \/ FindDemoted(r) \/ Demote(r) \/ Promote(r) \/ RecordAudit(r)
  PROVE  SequentialInv'
<1> USE DEF RegistryInv
<1> SUFFICES ASSUME ~overlapped PROVE (ProductionIsLatest /\ LastSwitchDemoted /\ AloneInv)'
  BY DEF SequentialInv, FindProduction, FindDemoted, Demote, Promote, RecordAudit
<1>0. ProductionIsLatest /\ LastSwitchDemoted /\ AloneInv
  BY DEF SequentialInv
<1>1. /\ TableUnchanged /\ pc[r] # "idle"
      /\ clock' \in {clock, clock + 1} /\ clock \in Nat
      /\ (clock' = clock /\ stamp' = stamp) \/ Stamp(r)
  BY DEF FindProduction, FindDemoted, Demote, Promote, RecordAudit, Apply, Stamp, TableUnchanged, TypeOK
<1>2. clock' \in Nat /\ clock <= clock'
  BY <1>1
<1>3. ProductionIsLatest' /\ LastSwitchDemoted'
  BY <1>0, <1>1, <1>2, OrderKept
<1>4. /\ \A m \in Maybe : IsProduction(m)' <=> IsProduction(m)
      /\ \A m, n \in Maybe : IsMostRecentlyDemoted(m, n)' <=> IsMostRecentlyDemoted(m, n)
  BY <1>0, <1>1, <1>2, OrderKept
<1>5. \A q \in Requests : q # r => pc[q] = "idle" /\ pc'[q] = "idle"
  BY <1>0, <1>1 DEF AloneInv, TypeOK, FindProduction, FindDemoted, Demote, Promote, RecordAudit, Apply
<1>6. \A m \in Models : row[m].promotedAt \in Nat /\ row[m].promotedAt <= clock /\ row'[m] = row[m]
  BY <1>0, <1>1 DEF ProductionIsLatest, TableUnchanged, TypeOK, Rows
<1>7. Stamp(r) => /\ stamp'[r] = clock' /\ \A m \in Models : row'[m].promotedAt < stamp'[r]
  BY <1>1, <1>6 DEF Stamp, TypeOK
<1>8. /\ AloneInv!(r)
      /\ current[r] \in Maybe /\ target[r] \in Maybe /\ stamp[r] \in Nat
  BY <1>0 DEF AloneInv, TypeOK
<1> SUFFICES AloneInv!(r)'
  BY <1>3, <1>5 DEF AloneInv
<1>9. CASE FindProduction(r)
  <2>1. PICK m \in Maybe :
          /\ IsProduction(m)
          /\ current' = [current EXCEPT ![r] = m]
          /\ IF asked[r] = NoModel
             THEN pc' = [pc EXCEPT ![r] = "findDemoted"] /\ UNCHANGED <<stamp, clock>>
             ELSE Apply(r, m, target[r])
    BY <1>9 DEF FindProduction
  <2>2. /\ current'[r] = m /\ IsProduction(m)'
        /\ target' = target /\ asked' = asked
    BY <1>4, <1>9, <2>1 DEF FindProduction, TypeOK
  <2>3. CASE asked[r] = NoModel
    BY <1>5, <2>1, <2>2, <2>3 DEF TypeOK
  <2>4. CASE asked[r] # NoModel /\ m \notin {NoModel, target[r]}
    BY <1>5, <2>1, <2>2, <2>4 DEF TypeOK, Apply
  <2>5. CASE asked[r] # NoModel /\ m \in {NoModel, target[r]}
    BY <1>2, <1>5, <1>7, <2>1, <2>2, <2>5 DEF TypeOK, Apply
  <2> QED
    BY <2>3, <2>4, <2>5
<1>10. CASE FindDemoted(r)
  <2>1. PICK m \in Models :
          /\ IsMostRecentlyDemoted(m, current[r])
          /\ target' = [target EXCEPT ![r] = m]
          /\ Apply(r, current[r], m)
    BY <1>10 DEF FindDemoted
  <2>2. /\ target'[r] = m /\ current' = current /\ asked' = asked
        /\ IsMostRecentlyDemoted(m, current[r])' /\ IsProduction(current[r])'
    BY <1>4, <1>8, <1>10, <2>1 DEF FindDemoted, TypeOK, Maybe
  <2>3. CASE current[r] \notin {NoModel, m}
    BY <1>5, <2>1, <2>2, <2>3 DEF TypeOK, Apply
  <2>4. CASE current[r] \in {NoModel, m}
    BY <1>2, <1>5, <1>7, <2>1, <2>2, <2>4 DEF TypeOK, Apply
  <2> QED
    BY <2>3, <2>4
<1>11. CASE Demote(r)
  <2>1. /\ current' = current /\ target' = target /\ asked' = asked
        /\ pc[r] = "demote" /\ pc'[r] = "promote" /\ Stamp(r)
        /\ lock' = [lock EXCEPT ![current[r]] = r]
    BY <1>11 DEF Demote, Lock, TypeOK
  <2>2. current[r] # NoModel => lock'[current[r]] = r
    BY <2>1, <1>8 DEF TypeOK, Maybe
  <2> QED
    BY <1>2, <1>4, <1>5, <1>7, <1>8, <2>1, <2>2
<1>12. CASE Promote(r)
  <2>1. /\ current' = current /\ target' = target /\ asked' = asked /\ stamp' = stamp
        /\ clock' = clock /\ pc[r] = "promote" /\ pc'[r] = "audit"
        /\ lock' = [lock EXCEPT ![target[r]] = r]
    BY <1>12 DEF Promote, Lock, TypeOK
  <2>2. \A m \in Models : lock[m] = r => lock'[m] = r
    BY <2>1 DEF TypeOK
  <2> QED
    BY <1>4, <1>5, <1>6, <1>8, <2>1, <2>2 DEF Maybe
<1>13. CASE RecordAudit(r)
  <2>1. /\ current' = current /\ target' = target /\ asked' = asked /\ stamp' = stamp
        /\ clock' = clock /\ pc[r] = "audit" /\ pc'[r] = "commit" /\ lock' = lock
    BY <1>13 DEF RecordAudit, TypeOK
  <2> QED
    BY <1>4, <1>5, <1>6, <1>8, <2>1
<1> QED
  BY <1>9, <1>10, <1>11, <1>12, <1>13

\* A COMMIT by the only call in progress stages the production model it read
\* and puts its target in production with the latest stamp.
LEMMA CommitSequentialInv ==
  ASSUME RegistryInv, SequentialInv, NEW r \in Requests, Commit(r)
  PROVE  SequentialInv'
<1> SUFFICES ASSUME ~overlapped PROVE (ProductionIsLatest /\ LastSwitchDemoted /\ AloneInv)'
  BY DEF SequentialInv, Commit, Finish
<1> DEFINE c == current[r]
           t == target[r]
           entry == [from |-> c, to |-> t]
<1>0. ProductionIsLatest /\ LastSwitchDemoted /\ AloneInv
  BY DEF SequentialInv
<1>1. /\ t \in Models /\ c \in Maybe /\ lock[t] = r
      /\ stamp[r] \in Nat /\ clock' = clock /\ clock \in Nat
      /\ audit' = Append(audit, entry) /\ entry \in AuditRows
      /\ \A m \in Models : row[m].promotedAt \in Nat
  BY DEF Commit, Finish, RegistryInv, LockInv, TargetInv, TypeOK, Maybe, AuditRows, Rows
<1>2. /\ \A q \in Requests : q # r => pc[q] = "idle"
      /\ IsProduction(c)
      /\ \A m \in Models : row[m].promotedAt < stamp[r]
      /\ stamp[r] <= clock
      /\ c \notin {NoModel, t} => lock[c] = r
  BY <1>0 DEF AloneInv, Commit
<1>3. /\ row'[t] = [stage |-> "PRODUCTION", promotedAt |-> stamp[r]]
      /\ c \notin {NoModel, t} => row'[c] = [stage |-> "STAGED", promotedAt |-> row[c].promotedAt]
      /\ \A m \in Models : m # t /\ m # c => row'[m] = row[m]
  BY <1>1, <1>2 DEF Commit, Written, RegistryInv, LockInv, Maybe
<1>4. c = NoModel => \A m \in Models : ~InProduction(m) /\ ~Staged(m)
  <2> SUFFICES ASSUME c = NoModel, NEW m \in Models, Staged(m) PROVE FALSE
    BY <1>2 DEF IsProduction, InProduction
  <2>1. audit # <<>> /\ audit \in Seq(AuditRows)
    BY <1>0 DEF LastSwitchDemoted, RegistryInv, TypeOK
  <2>2. audit[Len(audit)] \in AuditRows
    BY <2>1
  <2>3. audit[Len(audit)].to \in Models /\ row[audit[Len(audit)].to].stage = "PRODUCTION"
    BY <2>1, <2>2 DEF AuditRows, RegistryInv, AuditNamesProduction
  <2> QED
    BY <1>2, <2>3 DEF IsProduction
<1>5. c # NoModel => c \in Models /\ \A m \in Models : InProduction(m) <=> m = c
  BY <1>0, <1>1, <1>2 DEF IsProduction, InProduction, ProductionIsLatest, Maybe
<1> HIDE DEF c, t, entry
<1>6. \A m \in Models :
        /\ InProduction(m)' <=> m = t
        /\ Staged(m)' => m # t /\ row'[m].promotedAt = row[m].promotedAt /\ (Staged(m) \/ m = c)
        /\ Staged(m) /\ m # t => Staged(m)'
        /\ row'[m].promotedAt <= clock
  <2> SUFFICES ASSUME NEW m \in Models
               PROVE  /\ InProduction(m)' <=> m = t
                      /\ Staged(m)' => m # t /\ row'[m].promotedAt = row[m].promotedAt /\ (Staged(m) \/ m = c)
                      /\ Staged(m) /\ m # t => Staged(m)'
                      /\ row'[m].promotedAt <= clock
    OBVIOUS
  <2>1. CASE m = t
    BY <1>1, <1>2, <1>3, <2>1 DEF InProduction, Staged
  <2>2. CASE m # t /\ m = c
    <3>1. c \notin {NoModel, t}
      BY <2>2, NoModelAssumption
    <3> QED
      BY <1>0, <1>1, <1>3, <2>2, <3>1 DEF InProduction, Staged, ProductionIsLatest
  <2>3. CASE m # t /\ m # c
    BY <1>0, <1>1, <1>3, <1>4, <1>5, <2>3 DEF InProduction, Staged, ProductionIsLatest
  <2> QED
    BY <2>1, <2>2, <2>3
<1>7. ProductionIsLatest'
  BY <1>1, <1>2, <1>3, <1>6 DEF ProductionIsLatest
<1>8. /\ DOMAIN audit = 1..Len(audit) /\ Len(audit) \in Nat
      /\ DOMAIN audit' = 1..(Len(audit) + 1)
      /\ audit'[Len(audit) + 1] = entry
      /\ \A i \in DOMAIN audit : audit'[i] = audit[i]
  BY <1>1 DEF RegistryInv, TypeOK
<1>9. LastSwitchDemoted'
  <2>1. CASE c = NoModel
    BY <1>4, <1>6, <2>1, NoModelAssumption DEF LastSwitchDemoted
  <2>2. CASE c = t
    <3> SUFFICES ASSUME \E n \in Models : Staged(n)' PROVE LastSwitchDemoted'
      BY DEF LastSwitchDemoted
    <3>1. \A n \in Models : (Staged(n)' <=> Staged(n)) /\ (Staged(n) => row'[n] = row[n])
      BY <1>3, <1>5, <1>6, <2>2, NoModelAssumption, <1>1 DEF Staged, InProduction
    <3>2. PICK i \in DOMAIN audit :
            /\ IsLastSwitch(i)
            /\ audit[i].from \in Models /\ Staged(audit[i].from)
            /\ \A n \in Models : Staged(n) /\ n # audit[i].from =>
                 row[n].promotedAt < row[audit[i].from].promotedAt
      BY <1>0, <3>1 DEF LastSwitchDemoted
    <3>3. Switches' = Switches
      BY <1>8, <2>2 DEF Switches, entry
    <3>4. i \in DOMAIN audit' /\ audit'[i] = audit[i] /\ IsLastSwitch(i)'
      BY <1>8, <3>2, <3>3 DEF IsLastSwitch
    <3> QED
      BY <3>1, <3>2, <3>4 DEF LastSwitchDemoted
  <2>3. CASE c \notin {NoModel, t}
    <3>1. PICK i \in DOMAIN audit' :
            /\ audit'[i].from = c /\ audit'[i].to = t
            /\ \A j \in DOMAIN audit' : j <= i
      BY <1>8 DEF entry
    <3>2. IsLastSwitch(i)'
      BY <2>3, <3>1 DEF IsLastSwitch, Switches
    <3>3. /\ c \in Models /\ row'[c].stage = "STAGED" /\ row'[c].promotedAt = row[c].promotedAt
          /\ InProduction(c)
      BY <1>3, <1>5, <2>3 DEF Staged
    <3>4. \A n \in Models : Staged(n)' /\ n # c => row'[n].promotedAt < row'[c].promotedAt
      BY <1>0, <1>6, <3>3 DEF ProductionIsLatest
    <3> QED
      BY <3>1, <3>2, <3>3, <3>4 DEF LastSwitchDemoted, Staged
  <2> QED
    BY <2>1, <2>2, <2>3
<1>10. AloneInv'
  <2>1. \A q \in Requests : pc'[q] = "idle"
    BY <1>2 DEF Commit, Finish, RegistryInv, TypeOK
  <2> QED
    BY <2>1 DEF AloneInv
<1> QED
  BY <1>7, <1>9, <1>10

\* As long as calls have not overlapped, the order of the stamps is the order
\* of the switches.
THEOREM SequentialInvariant == Spec => []SequentialInv
<1>1. RegistryInv /\ SequentialInv /\ [Next]_vars => SequentialInv'
  <2> SUFFICES ASSUME RegistryInv, SequentialInv, [Next]_vars PROVE SequentialInv'
    OBVIOUS
  <2>1. ASSUME NEW m \in Models, Register(m) PROVE SequentialInv'
    BY <2>1, RegisterSequentialInv
  <2>2. ASSUME NEW r \in Requests, Step(r) \/ Update(r) \/ Rollback(r) PROVE SequentialInv'
    <3>1. \/ Abandon(r)
          \/ Commit(r)
          \/ FindProduction(r) \/ FindDemoted(r) \/ Demote(r) \/ Promote(r) \/ RecordAudit(r)
      BY <2>2 DEF Step, Update, Rollback, NothingDemoted, DeadlockDetected
    <3> QED
      BY <3>1, AbandonSequentialInv, CommitSequentialInv, QuietSequentialInv
  <2>3. ASSUME NEW r \in Requests, NEW id \in Maybe, Begin(r, id) PROVE SequentialInv'
    BY <2>3, BeginSequentialInv
  <2>4. ASSUME UNCHANGED vars PROVE SequentialInv'
    BY <2>4 DEF vars, SequentialInv, ProductionIsLatest, LastSwitchDemoted, AloneInv, InProduction,
                Staged, IsLastSwitch, Switches, IsProduction, IsMostRecentlyDemoted, Demoted
  <2> QED
    BY <2>1, <2>2, <2>3, <2>4 DEF Next
<1> QED
  BY <1>1, InitSequentialInv, RegistryInvariant, PTL DEF Spec

\* The most recently demoted model is the one the last switch replaced.
LEMMA TargetUndoesLastSwitch ==
  ASSUME RegistryInv, SequentialInv, ~overlapped, NEW r \in Requests,
         asked[r] = NoModel, pc[r] = "commit"
  PROVE  \E i \in Switches : (\A j \in Switches : j <= i) /\ target[r] = audit[i].from
<1>1. /\ IsMostRecentlyDemoted(target[r], current[r])
      /\ IsProduction(current[r])
  BY DEF SequentialInv, AloneInv
<1>2. target[r] \in Models /\ Staged(target[r])
  BY <1>1 DEF IsMostRecentlyDemoted, Demoted, Staged
<1>3. PICK i \in DOMAIN audit :
        /\ IsLastSwitch(i)
        /\ audit[i].from \in Models /\ Staged(audit[i].from)
        /\ \A n \in Models : Staged(n) /\ n # audit[i].from =>
             row[n].promotedAt < row[audit[i].from].promotedAt
  BY <1>2 DEF SequentialInv, LastSwitchDemoted
<1>4. audit[i].from # current[r]
  BY <1>1, <1>3, NoModelAssumption DEF IsProduction, Staged
<1>5. audit[i].from \in Demoted(current[r])
  BY <1>3, <1>4 DEF Demoted, Staged, RegistryInv, StageInv, WasProduction
<1>6. row[audit[i].from].promotedAt <= row[target[r]].promotedAt
  BY <1>1, <1>5 DEF IsMostRecentlyDemoted
<1>7. /\ row[audit[i].from].promotedAt \in Nat
      /\ row[target[r]].promotedAt \in Nat
  BY <1>2, <1>3 DEF RegistryInv, TypeOK, Rows
<1>8. target[r] = audit[i].from
  BY <1>2, <1>3, <1>6, <1>7
<1> QED
  BY <1>3, <1>8 DEF IsLastSwitch

\* REQ-8.11: a rollback without a version returns to the model that was in
\* production before the last change, as long as calls have not overlapped.
THEOREM RollbackUndoes == Spec => RollbackUndoesLastSwitch
<1>1. RegistryInv /\ SequentialInv /\ [Next]_vars => [UndoesLastSwitch]_vars
  BY TargetUndoesLastSwitch DEF UndoesLastSwitch
<1> QED
  BY <1>1, RegistryInvariant, SequentialInvariant, PTL DEF Spec, RollbackUndoesLastSwitch
=============================================================================
