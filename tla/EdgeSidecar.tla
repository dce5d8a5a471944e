----------------------------- MODULE EdgeSidecar -----------------------------
(***************************************************************************)
(* apps/edge-agent: the detection sidecar it supervises and the production *)
(* model it keeps on disk (main.ts, python-sidecar.ts, model-resolver.ts,  *)
(* and vision_service/edge/sidecar.py as the child).                       *)
(*                                                                         *)
(* The model check runs on an interval that does not wait for the check    *)
(* before, and writes straight into the one cache file: on a slow link two *)
(* downloads are in the same file at once.  A sidecar reads the file when  *)
(* it starts, once at import and once in run().                            *)
(*                                                                         *)
(* Left out: what the sidecar detects (its lines go to the event buffer,   *)
(* see EdgeSync), and a sidecar whose agent was killed, which ends at its  *)
(* next line to the broken pipe.                                           *)
(***************************************************************************)
EXTENDS Naturals, FiniteSets

CONSTANTS
  Versions,       \* model versions
  NoModel,        \* nothing in production, or a sidecar that detects nothing
  Checks,         \* bound: model checks under way at once
  LoopVideo,      \* EDGE_LOOP_VIDEO
  MaxPromotions,  \* bound: promotions and rollbacks in the registry
  MaxFailures     \* bound: requests, downloads and processes that fail

ASSUME NoModelAssumption == NoModel \notin Versions
ASSUME LoopVideoAssumption == LoopVideo \in BOOLEAN
ASSUME MaxPromotionsAssumption == MaxPromotions \in Nat
ASSUME MaxFailuresAssumption == MaxFailures \in Nat

VARIABLES
  agent,         \* the agent's process: down, booting (first check), up
  configured,    \* currentModelPath is set; it only ever is the cache path
  child,         \* the sidecar process the agent supervises
  timers,        \* restarts waiting for their backoff
  sidecarReady,  \* healthState.sidecarReady
  unread,        \* the sidecar's ready line is in the pipe
  check,         \* per model check, where it is and what it resolved
  file,          \* the cache file: a version, or what is left of some
  production,    \* the registry's production model
  promotions,
  failures

sidecarVars == <<child, timers, sidecarReady, unread>>
vars == <<agent, configured, sidecarVars, check, file, production, promotions, failures>>

\* A cache file that is no model: never written, being written or broken off,
\* or holding bytes of two versions.
NotAModel == {"absent", "partial", "mixed"}
ASSUME FilesAssumption == NotAModel \cap Versions = {}

NoChild == [at |-> "none", configured |-> FALSE, model |-> NoModel]
Idle == [pc |-> "idle", version |-> NoModel, rivals |-> {}]

Init ==
  /\ agent = "down" /\ configured = FALSE
  /\ child = NoChild /\ timers = 0 /\ sidecarReady = FALSE /\ unread = FALSE
  /\ check = [c \in Checks |-> Idle]
  /\ file = "absent"
  /\ production = NoModel /\ promotions = 0
  /\ failures = 0

Fail == failures < MaxFailures /\ failures' = failures + 1

-----------------------------------------------------------------------------
(* The sidecar's life, as its supervisor sees it. *)

\* startSidecar: the child is given the path that is current now.  A spawn that
\* fails emits "error" and never "exit".
StartSidecar ==
  \/ /\ child' = [at |-> "importing", configured |-> configured, model |-> NoModel]
     /\ UNCHANGED failures
  \/ /\ Fail
     /\ child' = [NoChild EXCEPT !.at = "unborn"]

\* onExit.
Exits ==
  /\ child' = NoChild
  /\ sidecarReady' = FALSE
  /\ timers' = timers + 1

\* setTimeout(startSidecar) fires.
FireRestart ==
  /\ timers > 0
  /\ timers' = timers - 1
  /\ StartSidecar
  /\ UNCHANGED <<agent, configured, sidecarReady, unread, check, file, production,
                 promotions>>

Writers == {c \in Checks : check[c].pc = "write"}

\* build_detector, at import and again in run(), which then writes its ready
\* line; without a path it detects nothing.
LoadModel ==
  /\ child.configured => file \in Versions
  /\ \/ /\ child.at = "importing"
        /\ child' = [child EXCEPT !.at = "opening"]
        /\ UNCHANGED unread
     \/ /\ child.at = "opening"
        /\ child' = [child EXCEPT !.at = "running",
                                  !.model = IF child.configured THEN file ELSE NoModel]
        /\ unread' = TRUE
  /\ UNCHANGED <<agent, configured, timers, sidecarReady, check, file, production,
                 promotions, failures>>

\* The file is no model, or changes while it is read: the process ends.
LoadFails ==
  /\ child.at \in {"importing", "opening"}
  /\ child.configured /\ (file \in NotAModel \/ Writers # {})
  /\ Exits
  /\ UNCHANGED <<agent, configured, unread, check, file, production, promotions, failures>>

\* handleStdoutLine: the line may come after the exit of its process.
ReadReady ==
  /\ unread
  /\ unread' = FALSE
  /\ sidecarReady' = TRUE
  /\ UNCHANGED <<agent, configured, child, timers, check, file, production, promotions,
                 failures>>

\* Mutant: only a sidecar that fails is started again.
SidecarEndsForGood ==
  /\ child.at = "stopping" \/ (child.at = "running" /\ ~LoopVideo)
  /\ child' = NoChild
  /\ sidecarReady' = FALSE
  /\ UNCHANGED <<agent, configured, timers, unread, check, file, production, promotions,
                 failures>>

\* The process has been told to stop, or its video is over and does not loop.
SidecarEnds ==
  /\ child.at = "stopping" \/ (child.at = "running" /\ ~LoopVideo)
  /\ Exits
  /\ UNCHANGED <<agent, configured, unread, check, file, production, promotions, failures>>

\* An unreadable video, a failing pipeline, a killed process.
SidecarFails ==
  /\ child.at \in {"importing", "opening", "running"}
  /\ Fail
  /\ Exits
  /\ UNCHANGED <<agent, configured, unread, check, file, production, promotions>>

-----------------------------------------------------------------------------
(* checkForModelUpdate and resolveAndDownloadProductionModel. *)

PollTimer(c) ==
  /\ agent = "up" /\ check[c] = Idle
  /\ check' = [check EXCEPT ![c].pc = "resolve"]
  /\ UNCHANGED <<agent, configured, sidecarVars, file, production, promotions, failures>>

\* GET /models/production; a 404 ends the check.
Resolve(c) ==
  /\ check[c].pc = "resolve"
  /\ check' = [check EXCEPT ![c] =
       IF production = NoModel THEN Idle
       ELSE [pc |-> "fetch", version |-> production, rivals |-> {}]]
  /\ UNCHANGED <<agent, configured, sidecarVars, file, production, promotions, failures>>

\* A request fails: the error is logged.
RequestFails(c) ==
  /\ check[c].pc \in {"resolve", "fetch"}
  /\ Fail
  /\ check' = [check EXCEPT ![c] = Idle]
  /\ UNCHANGED <<agent, configured, sidecarVars, file, production, promotions>>

\* The signed URL and the file's answer are there; createWriteStream empties
\* the file.  rivals are the versions written into it at the same time.
OpenFile(c) ==
  /\ check[c].pc = "fetch"
  /\ check' = [d \in Checks |->
       IF d = c
         THEN [check[c] EXCEPT !.pc = "write",
                               !.rivals = {check[w].version : w \in Writers}]
         ELSE IF d \in Writers
           THEN [check[d] EXCEPT !.rivals = @ \cup {check[c].version}]
           ELSE check[d]]
  /\ file' = "partial"
  /\ UNCHANGED <<agent, configured, sidecarVars, production, promotions, failures>>

\* What the file holds once c has written its last byte: its version, unless
\* another download was or is in the file as well.
Written(c) ==
  LET v == check[c].version
  IN  {v} \cup (IF check[c].rivals \subseteq {v} THEN {} ELSE {"mixed"})
          \cup (IF Writers = {c} THEN {} ELSE {"partial"})

\* stop(): SIGTERM, if there is a process.
StopSidecar ==
  child' = IF child.at \in {"none", "unborn"} THEN child ELSE [child EXCEPT !.at = "stopping"]

\* Mutant: the sidecar is started anew without waiting for the exit.
FinishDownloadAndStart(c) ==
  /\ check[c].pc = "write"
  /\ file' \in Written(c)
  /\ check' = [check EXCEPT ![c] = Idle]
  /\ configured' = TRUE
  /\ IF configured \/ agent = "booting"
       THEN UNCHANGED <<child, timers>>
       ELSE StopSidecar /\ timers' = timers + 1
  /\ UNCHANGED <<agent, sidecarReady, unread, production, promotions, failures>>

\* Mutant: the running sidecar is left alone.
FinishDownloadOnly(c) ==
  /\ check[c].pc = "write"
  /\ file' \in Written(c)
  /\ check' = [check EXCEPT ![c] = Idle]
  /\ configured' = TRUE
  /\ UNCHANGED <<agent, sidecarVars, production, promotions, failures>>

\* The download is complete.  Only a path that is new stops the sidecar.
FinishDownload(c) ==
  /\ check[c].pc = "write"
  /\ file' \in Written(c)
  /\ check' = [check EXCEPT ![c] = Idle]
  /\ configured' = TRUE
  /\ IF configured THEN UNCHANGED child ELSE StopSidecar
  /\ UNCHANGED <<agent, timers, sidecarReady, unread, production, promotions, failures>>

\* What downloads that break off leave behind: a version another one completed
\* may have been overwritten in part.
Broken(S) ==
  {file} \cup (IF file \in Versions /\ \E c \in S : check[c].version # file
                 THEN {"mixed"} ELSE {})

DownloadFails(c) ==
  /\ check[c].pc = "write"
  /\ Fail
  /\ file' \in Broken({c})
  /\ check' = [check EXCEPT ![c] = Idle]
  /\ UNCHANGED <<agent, configured, sidecarVars, production, promotions>>

-----------------------------------------------------------------------------
(* main(), shutdown() and the registry. *)

StartAgent(c) ==
  /\ agent = "down"
  /\ agent' = "booting"
  /\ check' = [check EXCEPT ![c].pc = "resolve"]
  /\ UNCHANGED <<configured, sidecarVars, file, production, promotions, failures>>

\* `await checkForModelUpdate(); startSidecar();` and the intervals.
Booted ==
  /\ agent = "booting" /\ \A c \in Checks : check[c] = Idle
  /\ agent' = "up"
  /\ StartSidecar
  /\ UNCHANGED <<configured, timers, sidecarReady, unread, check, file, production,
                 promotions>>

\* Mutant: the checks under way outlive their process.
StopAgentOnly ==
  /\ agent # "down"
  /\ Fail
  /\ agent' = "down" /\ configured' = FALSE
  /\ child' = NoChild /\ timers' = 0 /\ sidecarReady' = FALSE /\ unread' = FALSE
  /\ UNCHANGED <<check, file, production, promotions>>

\* shutdown(), which ends with process.exit, or a crash.
StopAgent ==
  /\ agent # "down"
  /\ Fail
  /\ agent' = "down" /\ configured' = FALSE
  /\ child' = NoChild /\ timers' = 0 /\ sidecarReady' = FALSE /\ unread' = FALSE
  /\ check' = [c \in Checks |-> Idle]
  /\ file' \in Broken(Writers)
  /\ UNCHANGED <<production, promotions>>

\* promote or rollback in the registry.
SwitchProduction(v) ==
  /\ promotions < MaxPromotions /\ v # production
  /\ production' = v
  /\ promotions' = promotions + 1
  /\ UNCHANGED <<agent, configured, sidecarVars, check, file, failures>>

-----------------------------------------------------------------------------
SidecarStep == FireRestart \/ LoadModel \/ LoadFails \/ ReadReady \/ SidecarEnds
CheckStep(c) == Resolve(c) \/ OpenFile(c) \/ FinishDownload(c)

Next ==
  \/ SidecarStep \/ SidecarFails \/ Booted \/ StopAgent
  \/ \E c \in Checks : PollTimer(c) \/ CheckStep(c) \/ RequestFails(c)
                       \/ DownloadFails(c) \/ StartAgent(c)
  \/ \E v \in Versions : SwitchProduction(v)

Spec == Init /\ [][Next]_vars

\* Timers fire, processes run, what is in a pipe is read, and a download that
\* does not fail ends.  Polls, promotions and failures are not fair.
FairSpec ==
  /\ Spec
  /\ WF_vars(Booted) /\ WF_vars(FireRestart) /\ WF_vars(ReadReady)
  /\ WF_vars(LoadModel \/ LoadFails) /\ WF_vars(SidecarEnds)
  /\ \A c \in Checks : WF_vars(CheckStep(c))

-----------------------------------------------------------------------------
Positions == {"none", "unborn", "importing", "opening", "running", "stopping"}

\* Every variable stays in its domain, and an agent that is not up supervises
\* nothing.
TypeOK ==
  /\ agent \in {"down", "booting", "up"}
  /\ configured \in BOOLEAN /\ sidecarReady \in BOOLEAN /\ unread \in BOOLEAN
  /\ child \in [at : Positions, configured : BOOLEAN, model : Versions \cup {NoModel}]
  /\ timers \in Nat
  /\ check \in [Checks -> [pc : {"idle", "resolve", "fetch", "write"},
                           version : Versions \cup {NoModel}, rivals : SUBSET Versions]]
  /\ \A c \in Checks : check[c].pc \in {"fetch", "write"} => check[c].version \in Versions
  /\ file \in Versions \cup NotAModel
  /\ production \in Versions \cup {NoModel}
  /\ promotions \in Nat /\ failures \in Nat
  /\ agent # "up" => child = NoChild /\ timers = 0
  /\ agent = "down" => ~configured /\ \A c \in Checks : check[c] = Idle

\* One agent supervises one sidecar: once it is up there is exactly one process
\* or one restart to come, over any sequence of exits, stops and new models.
\* (A process that could not be spawned counts as the one: it is never retried.)
OneSidecar ==
  agent = "up" => timers = IF child.at = "none" THEN 1 ELSE 0

\* REQ-9.13: as soon as the agent has a model on disk, no sidecar goes on
\* without one: it was started with the model, or has been told to stop.
NoModelLeftUnused ==
  configured /\ child.at \in {"importing", "opening", "running"} => child.configured

\* REQ-9.14: once the cache file holds a version for good, sidecars detect with
\* it again and again, unless the agent's last attempt to start one failed.
\* That needs sidecars that end: the video does not loop.
ModelIsUsed ==
  \A v \in Versions :
    <>[](agent = "up" /\ configured /\ file = v) =>
      \/ []<>(child.at = "running" /\ child.model = v)
      \/ <>[](child.at = "unborn")

\* Edge_Runtime.md: a new production model is streamed to disk and the sidecar
\* is restarted with it.
NewModelRestartsSidecar ==
  [][\A c \in Checks :
       FinishDownload(c) /\ child.at = "running" /\ child.model # check[c].version
         => child'.at = "stopping"]_vars
=============================================================================
