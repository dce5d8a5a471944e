-------------------------- MODULE EdgeSidecar_proofs --------------------------
(***************************************************************************)
(* Proofs about EdgeSidecar, for any number of model versions and model    *)
(* checks under way at once, whether or not the video loops, and for every *)
(* bound: the agent supervises exactly one sidecar, and leaves none        *)
(* without a model that is on disk.  TypeOK is inductive with OneSidecar   *)
(* and NoModelLeftUnused on top of it.                                     *)
(***************************************************************************)
EXTENDS EdgeSidecar, TLAPS

SidecarInv == TypeOK /\ OneSidecar /\ NoModelLeftUnused

ChildType == [at : Positions, configured : BOOLEAN, model : Versions \cup {NoModel}]

CheckType == [pc : {"idle", "resolve", "fetch", "write"},
              version : Versions \cup {NoModel}, rivals : SUBSET Versions]

-----------------------------------------------------------------------------
\* The agent is down with nothing at first.
LEMMA InitSidecarInv == Init => SidecarInv
<1> SUFFICES ASSUME Init PROVE SidecarInv
  OBVIOUS
<1>1. child \in ChildType
  BY DEF Init, NoChild, ChildType, Positions
<1>2. check \in [Checks -> CheckType] /\ \A c \in Checks : check[c].pc = "idle"
  BY DEF Init, Idle, CheckType
<1>3. file \in Versions \cup NotAModel
  BY DEF Init, NotAModel
<1> QED
  BY <1>1, <1>2, <1>3
     DEF Init, SidecarInv, TypeOK, OneSidecar, NoModelLeftUnused, ChildType, CheckType

\* A sidecar started now is given the model if the agent has one.
LEMMA StartedSidecar ==
  ASSUME TypeOK, StartSidecar
  PROVE  /\ child' \in ChildType /\ failures' \in Nat
         /\ child'.at \in {"importing", "unborn"}
         /\ child'.at = "importing" => child'.configured = configured
<1>1. CASE UNCHANGED failures /\ child' = [at |-> "importing", configured |-> configured,
                                           model |-> NoModel]
  <2>1. configured \in BOOLEAN /\ failures \in Nat
    BY DEF TypeOK
  <2>2. child'.configured = configured
    BY <1>1
  <2>3. child' \in ChildType
    BY <1>1, <2>1, Zenon DEF ChildType, Positions
  <2>4. failures' \in Nat
    BY <1>1, <2>1
  <2>5. child'.at \in {"importing", "unborn"}
    BY <1>1
  <2> QED
    BY <2>2, <2>3, <2>4, <2>5, Zenon
<1>2. CASE Fail /\ child' = [NoChild EXCEPT !.at = "unborn"]
  <2>1. child' = [at |-> "unborn", configured |-> FALSE, model |-> NoModel]
    BY <1>2 DEF NoChild
  <2>2. child' \in ChildType
    BY <2>1, Zenon DEF ChildType, Positions
  <2>3. failures' \in Nat
    BY <1>2 DEF TypeOK, Fail
  <2>4. child'.at = "unborn"
    BY <2>1
  <2> QED
    BY <2>2, <2>3, <2>4
<1> QED
  BY <1>1, <1>2 DEF StartSidecar

\* A sidecar that is told to stop is stopping, unless there is no process.
LEMMA StoppedSidecar ==
  ASSUME TypeOK, StopSidecar
  PROVE  /\ child' \in ChildType
         /\ child'.at \notin {"importing", "opening", "running"}
         /\ child'.at = "none" <=> child.at = "none"
         /\ child = NoChild => child' = NoChild
<1>1. child \in ChildType
  BY DEF TypeOK, ChildType
<1>2. CASE child.at \in {"none", "unborn"}
  BY <1>1, <1>2 DEF StopSidecar
<1>3. CASE child.at \notin {"none", "unborn"}
  <2>1. child' = [child EXCEPT !.at = "stopping"]
    BY <1>3 DEF StopSidecar
  <2>2. child' \in ChildType /\ child'.at = "stopping"
    BY <1>1, <2>1 DEF ChildType, Positions
  <2>3. child # NoChild
    BY <1>3 DEF NoChild
  <2> QED
    BY <1>3, <2>2, <2>3
<1> QED
  BY <1>2, <1>3

\* An exit leaves one restart to come; only an agent that is up sees one.
LEMMA ExitKeepsInv ==
  ASSUME SidecarInv, child.at # "none", Exits, failures' \in Nat,
         UNCHANGED <<agent, configured, unread, check, file, production, promotions>>
  PROVE  SidecarInv'
<1>1. agent = "up"
  BY DEF SidecarInv, TypeOK, NoChild
<1>2. timers = 0 /\ timers' = 1
  BY <1>1 DEF SidecarInv, OneSidecar, Exits
<1>3. child' \in ChildType /\ child'.at = "none" /\ sidecarReady' = FALSE
  BY DEF Exits, NoChild, ChildType, Positions
<1> QED
  BY <1>1, <1>2, <1>3
     DEF SidecarInv, TypeOK, OneSidecar, NoModelLeftUnused, ChildType

-----------------------------------------------------------------------------
\* What happens to the sidecar keeps the invariant.
LEMMA SidecarKeepsInv ==
  ASSUME SidecarInv, SidecarStep \/ SidecarFails
  PROVE  SidecarInv'
<1>1. CASE FireRestart
  <2>1. timers = 1 /\ timers' = 0 /\ agent = "up"
    BY <1>1 DEF FireRestart, SidecarInv, TypeOK, OneSidecar
  <2>2. /\ child' \in ChildType /\ failures' \in Nat
        /\ child'.at \in {"importing", "unborn"}
        /\ child'.at = "importing" => child'.configured = configured
    BY <1>1, StartedSidecar DEF FireRestart, SidecarInv
  <2> QED
    BY <1>1, <2>1, <2>2
       DEF FireRestart, SidecarInv, TypeOK, OneSidecar, NoModelLeftUnused, ChildType
<1>2. CASE LoadModel
  <2>1. agent = "up"
    BY <1>2 DEF LoadModel, SidecarInv, TypeOK, NoChild
  <2>2. child' \in ChildType /\ unread' \in BOOLEAN
    BY <1>2 DEF LoadModel, SidecarInv, TypeOK, ChildType, Positions
  <2>3. child'.configured = child.configured /\ child.at \in {"importing", "opening"}
        /\ child'.at # "none"
    BY <1>2 DEF LoadModel, SidecarInv, TypeOK
  <2> QED
    BY <1>2, <2>1, <2>2, <2>3
       DEF LoadModel, SidecarInv, TypeOK, OneSidecar, NoModelLeftUnused, ChildType
<1>3. CASE LoadFails
  BY <1>3, ExitKeepsInv DEF LoadFails, SidecarInv, TypeOK
<1>4. CASE ReadReady
  BY <1>4 DEF ReadReady, SidecarInv, TypeOK, OneSidecar, NoModelLeftUnused
<1>5. CASE SidecarEnds
  BY <1>5, ExitKeepsInv DEF SidecarEnds, SidecarInv, TypeOK
<1>6. CASE SidecarFails
  BY <1>6, ExitKeepsInv DEF SidecarFails, Fail, SidecarInv, TypeOK
<1> QED
  BY <1>1, <1>2, <1>3, <1>4, <1>5, <1>6 DEF SidecarStep

-----------------------------------------------------------------------------
\* A check that goes on, by itself, disturbs nothing but its own type.
LEMMA CheckChangeKeepsInv ==
  ASSUME SidecarInv, agent # "down", check' \in [Checks -> CheckType],
         \A c \in Checks : check'[c].pc \in {"fetch", "write"} => check'[c].version \in Versions,
         file' \in Versions \cup NotAModel, failures' \in Nat,
         UNCHANGED <<agent, configured, sidecarVars, production, promotions>>
  PROVE  SidecarInv'
BY DEF SidecarInv, TypeOK, OneSidecar, NoModelLeftUnused, CheckType, sidecarVars

\* What a check can find or leave in the file.
LEMMA FileTypes ==
  ASSUME TypeOK, NEW c \in Checks, check[c].pc = "write"
  PROVE  /\ Written(c) \subseteq Versions \cup NotAModel
         /\ \A S \in SUBSET Checks : Broken(S) \subseteq Versions \cup NotAModel
BY DEF TypeOK, Written, Broken, NotAModel

\* A download that is complete: the file, the path, and the sidecar that has
\* to go if the path is new.
LEMMA FinishDownloadKeepsInv ==
  ASSUME SidecarInv, NEW c \in Checks, FinishDownload(c)
  PROVE  SidecarInv'
<1>1. agent # "down"
  BY DEF FinishDownload, SidecarInv, TypeOK, Idle
<1>2. file' \in Versions \cup NotAModel
  BY FileTypes DEF FinishDownload, SidecarInv
<1>3. /\ check' \in [Checks -> CheckType]
      /\ \A d \in Checks : check'[d].pc \in {"fetch", "write"} => check'[d].version \in Versions
  BY DEF FinishDownload, SidecarInv, TypeOK, CheckType, Idle
<1>4. /\ child' \in ChildType
      /\ child'.at = "none" <=> child.at = "none"
      /\ child = NoChild => child' = NoChild
      /\ child'.at \in {"importing", "opening", "running"} => child'.configured
  <2>1. CASE configured
    BY <2>1 DEF FinishDownload, SidecarInv, TypeOK, NoModelLeftUnused, ChildType
  <2>2. CASE ~configured
    BY <2>2, StoppedSidecar DEF FinishDownload, SidecarInv
  <2> QED
    BY <2>1, <2>2
<1> QED
  BY <1>1, <1>2, <1>3, <1>4
     DEF FinishDownload, SidecarInv, TypeOK, OneSidecar, NoModelLeftUnused, ChildType, CheckType

\* Every step of a check keeps the invariant.
LEMMA CheckKeepsInv ==
  ASSUME SidecarInv, NEW c \in Checks,
         PollTimer(c) \/ CheckStep(c) \/ RequestFails(c) \/ DownloadFails(c)
  PROVE  SidecarInv'
<1> USE DEF CheckType
<1>1. CASE PollTimer(c)
  <2>1. check' \in [Checks -> CheckType]
    BY <1>1 DEF PollTimer, SidecarInv, TypeOK
  <2> QED
    BY <1>1, <2>1, CheckChangeKeepsInv DEF PollTimer, SidecarInv, TypeOK
<1>2. CASE Resolve(c)
  <2>1. agent # "down"
    BY <1>2 DEF Resolve, SidecarInv, TypeOK, Idle
  <2>2. check' \in [Checks -> CheckType]
    BY <1>2 DEF Resolve, SidecarInv, TypeOK, Idle
  <2>3. \A d \in Checks : check'[d].pc \in {"fetch", "write"} => check'[d].version \in Versions
    BY <1>2 DEF Resolve, SidecarInv, TypeOK, Idle
  <2> QED
    BY <1>2, <2>1, <2>2, <2>3, CheckChangeKeepsInv DEF Resolve, SidecarInv, TypeOK
<1>3. CASE RequestFails(c)
  <2>1. agent # "down"
    BY <1>3 DEF RequestFails, SidecarInv, TypeOK, Idle
  <2>2. check' \in [Checks -> CheckType]
    BY <1>3 DEF RequestFails, SidecarInv, TypeOK, Idle
  <2> QED
    BY <1>3, <2>1, <2>2, CheckChangeKeepsInv DEF RequestFails, Fail, SidecarInv, TypeOK, Idle
<1>4. CASE OpenFile(c)
  <2> DEFINE Opened == [check[c] EXCEPT !.pc = "write",
                                        !.rivals = {check[w].version : w \in Writers}]
             Joined(d) == [check[d] EXCEPT !.rivals = @ \cup {check[c].version}]
  <2>1. check[c].pc = "fetch" /\ file' = "partial"
        /\ UNCHANGED <<agent, configured, sidecarVars, production, promotions, failures>>
    BY <1>4 DEF OpenFile
  <2>2. check' = [d \in Checks |-> IF d = c THEN Opened ELSE IF d \in Writers THEN Joined(d)
                                                             ELSE check[d]]
    BY <1>4 DEF OpenFile
  <2>3. check[c].version \in Versions /\ \A d \in Writers : check[d].version \in Versions
    BY <2>1 DEF SidecarInv, TypeOK, Writers
  <2>4. /\ check \in [Checks -> CheckType]
        /\ \A d \in Checks : check[d].pc \in {"fetch", "write"} => check[d].version \in Versions
    BY DEF SidecarInv, TypeOK
  <2>5. Opened \in CheckType /\ Opened.version \in Versions
    BY <2>3, <2>4
  <2>6. \A d \in Writers : Joined(d) \in CheckType /\ Joined(d).version \in Versions
    BY <2>3, <2>4 DEF Writers
  <2> HIDE DEF Opened, Joined
  <2>7. /\ check' \in [Checks -> CheckType]
        /\ \A d \in Checks : check'[d].pc \in {"fetch", "write"} => check'[d].version \in Versions
    BY <2>2, <2>4, <2>5, <2>6
  <2>8. agent # "down"
    BY <2>1 DEF SidecarInv, TypeOK, Idle
  <2> QED
    BY <2>1, <2>7, <2>8, CheckChangeKeepsInv DEF SidecarInv, TypeOK, NotAModel
<1>5. CASE FinishDownload(c)
  BY <1>5, FinishDownloadKeepsInv
<1>6. CASE DownloadFails(c)
  <2>1. agent # "down"
    BY <1>6 DEF DownloadFails, SidecarInv, TypeOK, Idle
  <2>2. check' \in [Checks -> CheckType]
    BY <1>6 DEF DownloadFails, SidecarInv, TypeOK, Idle
  <2>3. file' \in Versions \cup NotAModel
    BY <1>6, FileTypes DEF DownloadFails, SidecarInv
  <2> QED
    BY <1>6, <2>1, <2>2, <2>3, CheckChangeKeepsInv DEF DownloadFails, Fail, SidecarInv, TypeOK, Idle
<1> QED
  BY <1>1, <1>2, <1>3, <1>4, <1>5, <1>6 DEF CheckStep

-----------------------------------------------------------------------------
\* The agent's own start and stop keep it.
LEMMA AgentKeepsInv ==
  ASSUME SidecarInv, Booted \/ StopAgent \/ \E c \in Checks : StartAgent(c)
  PROVE  SidecarInv'
<1>1. CASE Booted
  <2>1. timers = 0
    BY <1>1 DEF Booted, SidecarInv, TypeOK
  <2>2. /\ child' \in ChildType /\ failures' \in Nat
        /\ child'.at \in {"importing", "unborn"}
        /\ child'.at = "importing" => child'.configured = configured
    BY <1>1, StartedSidecar DEF Booted, SidecarInv
  <2> QED
    BY <1>1, <2>1, <2>2
       DEF Booted, SidecarInv, TypeOK, OneSidecar, NoModelLeftUnused, ChildType
<1>2. CASE StopAgent
  <2>1. file' \in Versions \cup NotAModel
    BY <1>2 DEF StopAgent, Broken, SidecarInv, TypeOK, NotAModel
  <2>2. /\ check' \in [Checks -> CheckType]
        /\ \A c \in Checks : check'[c] = Idle /\ check'[c].pc = "idle"
    BY <1>2 DEF StopAgent, Idle, CheckType
  <2>3. child' \in ChildType /\ child' = NoChild /\ child'.at = "none" /\ failures' \in Nat
    BY <1>2 DEF StopAgent, NoChild, ChildType, Positions, Fail, SidecarInv, TypeOK
  <2> QED
    BY <1>2, <2>1, <2>2, <2>3
       DEF StopAgent, SidecarInv, TypeOK, OneSidecar, NoModelLeftUnused, ChildType, CheckType
<1>3. ASSUME NEW c \in Checks, StartAgent(c) PROVE SidecarInv'
  <2>1. check' \in [Checks -> CheckType]
    BY <1>3 DEF StartAgent, SidecarInv, TypeOK, CheckType
  <2>2. \A d \in Checks : check'[d].pc \in {"fetch", "write"} => check'[d].version \in Versions
    BY <1>3 DEF StartAgent, SidecarInv, TypeOK
  <2> QED
    BY <1>3, <2>1, <2>2
       DEF StartAgent, SidecarInv, TypeOK, OneSidecar, NoModelLeftUnused, CheckType, sidecarVars
<1> QED
  BY <1>1, <1>2, <1>3

\* A switch in the registry changes nothing the agent has.
LEMMA SwitchKeepsInv ==
  ASSUME SidecarInv, NEW v \in Versions, SwitchProduction(v)
  PROVE  SidecarInv'
BY DEF SwitchProduction, SidecarInv, TypeOK, OneSidecar, NoModelLeftUnused, sidecarVars

\* Every step keeps the invariant.
LEMMA NextSidecarInv == SidecarInv /\ [Next]_vars => SidecarInv'
<1> SUFFICES ASSUME SidecarInv, [Next]_vars PROVE SidecarInv'
  OBVIOUS
<1>1. CASE UNCHANGED vars
  BY <1>1 DEF vars, sidecarVars, SidecarInv, TypeOK, OneSidecar, NoModelLeftUnused
<1>2. CASE Next
  BY <1>2, SidecarKeepsInv, CheckKeepsInv, AgentKeepsInv, SwitchKeepsInv DEF Next
<1> QED
  BY <1>1, <1>2

-----------------------------------------------------------------------------
\* The inductive invariant holds always.
THEOREM SidecarInvariant == Spec => []SidecarInv
BY InitSidecarInv, NextSidecarInv, PTL DEF Spec

\* Every variable stays in its domain, and an agent that is not up supervises
\* nothing (main.ts).
THEOREM SidecarTypeCorrect == Spec => []TypeOK
<1>1. SidecarInv => TypeOK
  BY DEF SidecarInv
<1> QED
  BY <1>1, SidecarInvariant, PTL

\* However exits, stops, backoffs, failed spawns and new models follow each
\* other, there is exactly one process or one restart to come
\* (python-sidecar.ts, main.ts).
THEOREM ExactlyOneSidecar == Spec => []OneSidecar
<1>1. SidecarInv => OneSidecar
  BY DEF SidecarInv
<1> QED
  BY <1>1, SidecarInvariant, PTL

\* REQ-9.13: once a model is on disk, no sidecar goes on without one.
THEOREM ModelReachesSidecar == Spec => []NoModelLeftUnused
<1>1. SidecarInv => NoModelLeftUnused
  BY DEF SidecarInv
<1> QED
  BY <1>1, SidecarInvariant, PTL
=============================================================================
