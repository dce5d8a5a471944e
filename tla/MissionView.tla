----------------------------- MODULE MissionView -----------------------------
(***************************************************************************)
(* What one browser tab shows of a mission: the RTK Query cache            *)
(* (apps/web: apiSlice.ts and the mission pages), the mission's realtime   *)
(* channel (useMissionSocket.ts, the API's mission-events.gateway.ts) and  *)
(* the session both depend on (authSlice.ts).                              *)
(*                                                                         *)
(* The tab is told that something changed, by a relayed event or by the    *)
(* answer to a change of its own; it then invalidates tags and the cache   *)
(* reads again what carries them.  Data is the time it is of: a cache      *)
(* entry shows the database as of the change it last read after.  There    *)
(* are two lists, without and with the archived missions; one that left    *)
(* the mission out does not carry its tag.                                 *)
(*                                                                         *)
(* Left out: which statuses a control is offered in (the API decides, see  *)
(* Missions), the upload of the bytes, and the requests of other entries   *)
(* (telemetry, download URLs), which only delay an invalidation further.   *)
(***************************************************************************)
EXTENDS Naturals, Sequences

CONSTANTS
  Entries,      \* cache entries looked at
  MaxChanges,   \* bound: changes by this tab, the worker and others
  MaxMoves,     \* bound: pages opened, logins, logouts, tokens that expire
  MaxFaults     \* bound: requests that fail, connections that break, events lost

ASSUME EntriesAssumption == Entries \subseteq {"mission", "detections", "audit", "list", "all"}

VARIABLES
  clock,        \* changes made, counted from 1
  archived,     \* the mission is archived
  deleted,      \* the mission is soft-deleted
  unrelayed,    \* events applied and not yet published to the room
  session,      \* the tab's token: none, valid, or expired
  page,
  socket,       \* the tab's connection: none, down, refused, up, joined
  inbox,        \* missionEvents on their way, each the change it tells of
  cache,        \* per entry, how its last request ended and what it shows
  wire,         \* per entry, the request under way
  own,          \* per kind of change, the mutation under way
  pendingTags,  \* pendingTagInvalidations
  told,         \* history: the latest change the tab has been told of, per subject
  changes, moves, faults

apiVars == <<clock, archived, deleted, unrelayed>>
socketVars == <<socket, inbox>>
cacheVars == <<cache, wire, pendingTags>>
bounds == <<changes, moves, faults>>
vars == <<apiVars, session, page, socketVars, cacheVars, own, told, bounds>>

Later(a, b) == IF a >= b THEN a ELSE b

-----------------------------------------------------------------------------
(* Entries, tags and changes. *)

\* The list without archived missions, and the one with them.
Lists == {"list", "all"}

\* What the queries provide: of a list that could be read, the missions in it.
Provides(e, c) ==
  CASE e = "mission"    -> {"Mission"}
    [] e = "detections" -> {"Detections"}
    [] e = "audit"      -> {"AuditLog"}
    [] e \in Lists      -> IF c.ended = "failed" \/ c.holds = "none" THEN {"LIST"}
                           ELSE {"Mission", "LIST"}

\* Mutant: an event is taken for a detection.
RelayedTagsOnly == {"Detections"}

\* What a relayed event invalidates.
EventTags == {"Mission", "Detections", "AuditLog"}

Kinds == {"edit", "transition", "archive", "unarchive", "delete", "create"}

\* Mutant: a transition is followed by its audit row only.
MutationTagsAudit(kind) ==
  CASE kind = "edit"       -> {"Mission"}
    [] kind = "transition" -> {"AuditLog"}
    [] kind = "create"     -> {"LIST"}
    [] OTHER               -> {"Mission", "LIST"}

\* What the mutations invalidate; "edit" is the metadata and the upload URL.
MutationTags(kind) ==
  CASE kind = "edit"       -> {"Mission"}
    [] kind = "transition" -> {"Mission", "AuditLog"}
    [] kind = "create"     -> {"LIST"}
    [] OTHER               -> {"Mission", "LIST"}

\* What the tab can be told of: the mission, which missions the lists have, the
\* mission's detections, its audit rows.
Subjects == {"mission", "lists", "detections", "audit"}

\* What the operator who made a change knows by its answer.  The audit rows of
\* an edit or an archival are left to the next event.
Reflects(kind) ==
  CASE kind = "edit"       -> {"mission"}
    [] kind = "transition" -> {"mission", "audit"}
    [] kind = "create"     -> {"lists"}
    [] OTHER               -> {"mission", "lists"}

\* What an event of the mission's channel says.
EventReflects == {"mission", "detections", "audit"}

\* What an entry shows.  A list without the mission says nothing of its state.
Concerns(e, c) ==
  CASE e \in {"mission", "detections", "audit"} -> {e}
    [] e \in Lists -> IF c.holds = "none" THEN {"lists"} ELSE {"lists", "mission"}

-----------------------------------------------------------------------------
(* The cache. *)

Empty == [ended |-> "never", shows |-> 0, holds |-> "none"]
NoRequest == [at |-> "none", version |-> 0, holds |-> "none"]

\* A request carries the token of its moment: "stale" once that has expired.
Request(s) == [at |-> IF s = "valid" THEN "sent" ELSE "stale", version |-> 0, holds |-> "none"]

\* What a request that has read leaves in the cache.
Answer(w) == [ended |-> "ok", shows |-> w.version, holds |-> w.holds]

\* The queries the page's components use.
Subscribed(p) ==
  Entries \cap (CASE p = "detail" -> {"mission", "detections", "audit"}
                  [] p \in Lists   -> {p}
                  [] OTHER        -> {})

\* What a mounted component asks for: what no request has answered yet.
Mounted(p, s, c, w) ==
  [e \in Entries |->
     IF e \in Subscribed(p) /\ w[e] = NoRequest /\ c[e].shows = 0 THEN Request(s) ELSE w[e]]

\* A request has ended: once none is pending, the tags that waited take effect.
\* What carries them is read again if page p uses it and forgotten otherwise.
Settle(p, c, w, o, tags) ==
  LET Hit(e) == c[e].ended # "never" /\ Provides(e, c[e]) \cap tags # {}
      pending == \/ \E e \in Entries : w[e] # NoRequest
                 \/ \E k \in Kinds : o[k] # NoRequest
  IN  IF pending
      THEN [cache |-> c, wire |-> w, tags |-> tags]
      ELSE [cache |-> [e \in Entries |->
                         IF Hit(e) /\ e \notin Subscribed(p) THEN Empty ELSE c[e]],
            wire  |-> [e \in Entries |->
                         IF Hit(e) /\ e \in Subscribed(p) THEN Request(session) ELSE w[e]],
            tags  |-> {}]

\* A tab is opened, or reloaded with the session it had.
Init ==
  /\ clock = 1 /\ archived \in BOOLEAN /\ deleted = FALSE /\ unrelayed = 0
  /\ \/ session = "none" /\ page = "login"
     \/ session \in {"valid", "expired"} /\ page = "list"
  /\ socket = "none" /\ inbox = <<>>
  /\ cache = [e \in Entries |-> Empty]
  /\ wire = Mounted(page, session, cache, [e \in Entries |-> NoRequest])
  /\ own = [k \in Kinds |-> NoRequest]
  /\ pendingTags = {}
  /\ told = [s \in Subjects |-> 0]
  /\ changes = 0 /\ moves = 0 /\ faults = 0

Fault == faults < MaxFaults /\ faults' = faults + 1

\* The request for e has ended, or is aborted: what the cache holds becomes c.
Ended(e, c) ==
  LET after == Settle(page, c, [wire EXCEPT ![e] = NoRequest], own, pendingTags)
  IN  cache' = after.cache /\ wire' = after.wire /\ pendingTags' = after.tags

Failure(e) == [cache EXCEPT ![e].ended = "failed"]

\* What the database answers of the mission: a list has no deleted one, and the
\* default list no archived one.
Holding(e) ==
  CASE deleted \/ (archived /\ e = "list") -> "none"
    [] ~deleted /\ archived /\ e # "list"  -> "archived"
    [] ~deleted /\ ~archived               -> "active"

\* The API reads for an entry; a deleted mission is not found.
Read(e) ==
  /\ wire[e].at = "sent"
  /\ wire' = [wire EXCEPT ![e] =
       IF deleted /\ e \notin Lists THEN [@ EXCEPT !.at = "failed"]
       ELSE [at |-> "read", version |-> clock, holds |-> Holding(e)]]
  /\ UNCHANGED <<apiVars, session, page, socketVars, cache, pendingTags, own, told, bounds>>

\* The answer arrives.
Arrive(e) ==
  /\ wire[e].at \in {"read", "failed"}
  /\ Ended(e, IF wire[e].at = "failed" THEN Failure(e)
              ELSE [cache EXCEPT ![e] = Answer(wire[e])])
  /\ UNCHANGED <<apiVars, session, page, socketVars, own, told, bounds>>

\* The request or its answer is lost, or the API is down.
RequestFails(e) ==
  /\ wire[e].at \in {"sent", "read"} /\ Fault
  /\ Ended(e, Failure(e))
  /\ UNCHANGED <<apiVars, session, page, socketVars, own, told, changes, moves>>

\* keepUnusedDataFor is over: the entry is removed, its request aborted.
Expire(e) ==
  /\ e \notin Subscribed(page) /\ <<cache[e], wire[e]>> # <<Empty, NoRequest>>
  /\ Ended(e, [cache EXCEPT ![e] = Empty])
  /\ UNCHANGED <<apiVars, session, page, socketVars, own, told, bounds>>

-----------------------------------------------------------------------------
(* Session and pages. *)

Move == moves < MaxMoves /\ moves' = moves + 1

\* A page replaces another one: the queries of p run, the socket of the detail
\* page is opened or closed.
Opened(p, s, c, w) ==
  /\ page' = p /\ session' = s
  /\ socket' = IF p = "detail" THEN "down" ELSE "none"
  /\ inbox' = <<>>
  /\ cache' = c /\ wire' = Mounted(p, s, c, w)

\* The pages with a route of their own.
Routes == {"list", "detail", "elsewhere"}

\* ProtectedRoute lets a page be opened with a session only.  The list page
\* opens without the archived missions.
Open(p) ==
  /\ page # "login" /\ p # page /\ ~(p = "list" /\ page = "all") /\ Move
  /\ Opened(p, session, cache, wire)
  /\ UNCHANGED <<apiVars, pendingTags, own, told, changes, faults>>

\* "Show archived" is switched on or off: the list page uses the other query.
SetShowArchived ==
  /\ page \in Lists /\ Move
  /\ Opened(IF page = "list" THEN "all" ELSE "list", session, cache, wire)
  /\ UNCHANGED <<apiVars, pendingTags, own, told, changes, faults>>

\* Back to where the operator was headed.
Login(p) ==
  /\ page = "login" /\ Move
  /\ Opened(p, "valid", cache, wire)
  /\ UNCHANGED <<apiVars, pendingTags, own, told, changes, faults>>

\* The cache is kept.
Logout ==
  /\ page # "login" /\ Move
  /\ Opened("login", "none", cache, wire)
  /\ UNCHANGED <<apiVars, pendingTags, own, told, changes, faults>>

Stale(requests) ==
  [r \in DOMAIN requests |-> IF requests[r].at = "sent" THEN Request("expired") ELSE requests[r]]

TokenExpires ==
  /\ session = "valid" /\ Move
  /\ session' = "expired"
  /\ wire' = Stale(wire) /\ own' = Stale(own)
  /\ UNCHANGED <<apiVars, page, socketVars, cache, pendingTags, told, changes, faults>>

\* A 401 anywhere ends the session, also one begun since.
Unauthorized(e) ==
  /\ wire[e].at = "stale"
  /\ LET after == Settle("login", Failure(e), [wire EXCEPT ![e] = NoRequest], own, pendingTags)
     IN  Opened("login", "none", after.cache, after.wire) /\ pendingTags' = after.tags
  /\ UNCHANGED <<apiVars, own, told, bounds>>

-----------------------------------------------------------------------------
(* The operator's changes. *)

Change == changes < MaxChanges /\ changes' = changes + 1

\* A mutation is sent; its control is disabled until it ends.
Send(kind) ==
  /\ Change /\ own[kind] = NoRequest
  /\ own' = [own EXCEPT ![kind] = Request(session)]
  /\ UNCHANGED <<apiVars, session, page, socketVars, cacheVars, told, moves, faults>>

\* The detail page shows its controls once it shows the mission.
ShowsMission ==
  /\ page = "detail" /\ "mission" \in Entries
  /\ cache["mission"].shows > 0
  /\ cache["mission"].ended = "ok" \/ wire["mission"] # NoRequest

SaveMetadata == ShowsMission /\ Send("edit")
Submit == ShowsMission /\ Send("transition")
ToggleArchive ==
  /\ ShowsMission /\ own["archive"] = NoRequest /\ own["unarchive"] = NoRequest
  /\ Send(IF cache["mission"].holds = "archived" THEN "unarchive" ELSE "archive")
ConfirmDelete == ShowsMission /\ Send("delete")
CreateMission == page \in Lists /\ Send("create")

\* The API makes a change.
Written(kind) ==
  /\ deleted => kind = "create"
  /\ clock' = clock + 1
  /\ archived' = (kind = "archive" \/ (archived /\ kind # "unarchive"))
  /\ deleted' = (deleted \/ kind = "delete")

\* The tab's own is answered with the mission written.
Apply(kind) ==
  /\ own[kind].at = "sent"
  /\ Written(kind)
  /\ own' = [own EXCEPT ![kind] = [@ EXCEPT !.at = "applied", !.version = clock']]
  /\ UNCHANGED <<unrelayed, session, page, socketVars, cacheVars, told, bounds>>

\* Or refused: an illegal transition, a mission that is gone.
Refuse(kind) ==
  /\ own[kind].at = "sent" /\ kind # "create"
  /\ own' = [own EXCEPT ![kind].at = "refused"]
  /\ UNCHANGED <<apiVars, session, page, socketVars, cacheVars, told, bounds>>

\* The answer arrives, wherever the tab is by now; a refusal invalidates too.
\* After a creation or a deletion the tab moves on.
Answered(kind) ==
  LET rest == [own EXCEPT ![kind] = NoRequest]
      after == Settle(IF own[kind].at = "stale" THEN "login" ELSE page,
                      cache, wire, rest, pendingTags \cup MutationTags(kind))
      goesTo == CASE own[kind].at = "refused" \/ page = "login" -> page
                  [] kind = "delete" -> IF page = "all" THEN page ELSE "list"
                  [] kind = "create" -> "elsewhere"
                  [] OTHER           -> page
  IN  /\ own[kind].at \in {"applied", "refused", "stale"}
      /\ own' = rest /\ pendingTags' = after.tags
      /\ IF own[kind].at = "stale" THEN Opened("login", "none", after.cache, after.wire)
         ELSE IF goesTo # page THEN Opened(goesTo, session, after.cache, after.wire)
         ELSE /\ cache' = after.cache /\ wire' = after.wire
              /\ UNCHANGED <<session, page, socketVars>>
      /\ told' = [s \in Subjects |->
                    IF own[kind].at = "applied" /\ s \in Reflects(kind)
                    THEN Later(told[s], own[kind].version) ELSE told[s]]
      /\ UNCHANGED <<apiVars, bounds>>

-----------------------------------------------------------------------------
(* Everyone else's changes, and the mission's channel. *)

\* A processing event or a detection is applied.
WorkerEvent ==
  /\ Change /\ ~deleted
  /\ clock' = clock + 1 /\ unrelayed' = unrelayed + 1
  /\ UNCHANGED <<archived, deleted, session, page, socketVars, cacheVars, own, told, moves,
                 faults>>

\* Another operator's change; nobody is told of it.
OtherOperator(kind) ==
  /\ Change /\ Written(kind)
  /\ UNCHANGED <<unrelayed, session, page, socketVars, cacheVars, own, told, moves,
                 faults>>

\* The handler publishes it to whoever is in the room.
Relay ==
  /\ unrelayed > 0 /\ unrelayed' = unrelayed - 1
  /\ inbox' = IF socket = "joined" THEN Append(inbox, clock) ELSE inbox
  /\ UNCHANGED <<clock, archived, deleted, session, page, socket, cacheVars, own, told, bounds>>

\* The handler is killed first; delivered again, the event is a duplicate.
RelayLost ==
  /\ unrelayed > 0 /\ unrelayed' = unrelayed - 1
  /\ Fault
  /\ UNCHANGED <<clock, archived, deleted, session, page, socketVars, cacheVars, own, told,
                 changes, moves>>

\* The connection is up; a server that disconnects it is not tried again.
Connect ==
  /\ socket = "down"
  /\ socket' = IF session = "valid" THEN "up" ELSE "refused"
  /\ UNCHANGED <<apiVars, session, page, inbox, cacheVars, own, told, bounds>>

\* subscribeMission reaches the gateway.
Join ==
  /\ socket = "up" /\ socket' = "joined"
  /\ UNCHANGED <<apiVars, session, page, inbox, cacheVars, own, told, bounds>>

\* The connection breaks, with what was on its way; the client connects again.
Drop ==
  /\ socket \in {"up", "joined"} /\ socket' = "down" /\ inbox' = <<>>
  /\ Fault
  /\ UNCHANGED <<apiVars, session, page, cacheVars, own, told, changes, moves>>

\* Whatever the event says, the mission's entries are invalidated.
ReceiveEvent ==
  /\ inbox # <<>> /\ inbox' = Tail(inbox)
  /\ LET after == Settle(page, cache, wire, own, pendingTags \cup EventTags)
     IN  cache' = after.cache /\ wire' = after.wire /\ pendingTags' = after.tags
  /\ told' = [s \in Subjects |->
                IF s \in EventReflects THEN Later(told[s], Head(inbox)) ELSE told[s]]
  /\ UNCHANGED <<apiVars, session, page, socket, own, bounds>>

-----------------------------------------------------------------------------
Next ==
  \/ \E e \in Entries : Read(e) \/ Arrive(e) \/ RequestFails(e) \/ Expire(e) \/ Unauthorized(e)
  \/ \E p \in Routes : Open(p) \/ Login(p)
  \/ SetShowArchived \/ Logout \/ TokenExpires
  \/ SaveMetadata \/ Submit \/ ToggleArchive \/ ConfirmDelete \/ CreateMission
  \/ \E k \in Kinds : Apply(k) \/ Refuse(k) \/ Answered(k) \/ OtherOperator(k)
  \/ WorkerEvent \/ Relay \/ RelayLost
  \/ Connect \/ Join \/ Drop \/ ReceiveEvent

Spec == Init /\ [][Next]_vars

\* Every request ends, and events on a connection that stands arrive.  Nobody
\* has to click, log in again or publish.
FairSpec ==
  /\ Spec
  /\ \A e \in Entries : WF_vars(Read(e)) /\ WF_vars(Arrive(e)) /\ WF_vars(Unauthorized(e))
  /\ \A k \in Kinds : WF_vars(Apply(k) \/ Refuse(k)) /\ WF_vars(Answered(k))
  /\ WF_vars(Connect) /\ WF_vars(Join) /\ WF_vars(ReceiveEvent)

-----------------------------------------------------------------------------
(* Properties. *)

\* An entry c for e shows what the tab has been told of, or could not be read.
UpToDate(e, c) == c.ended = "failed" \/ \A s \in Concerns(e, c) : c.shows >= told[s]

\* What the cache is about to have.
Awaited(e) == IF wire[e].at = "read" THEN Answer(wire[e]) ELSE cache[e]

\* A page that shows less than the tab has been told of is about to read: a
\* request that will read it is under way, or the tag waits for those that are.
\* A read that began before the event, and ends after it, is not mistaken for
\* the one it asks for.  A list that leaves the mission out is held to what its
\* missions are, not to the state of this one (apiSlice.ts, useMissionSocket.ts).
ToldIsComing ==
  \A e \in Subscribed(page) :
    \/ wire[e].at \in {"sent", "stale", "failed"}
    \/ UpToDate(e, Awaited(e))
    \/ Provides(e, Awaited(e)) \cap pendingTags # {}

\* However reads, events, changes, pages and sessions interleave, the page
\* comes to show what it has been told of.
ToldIsShown == \A e \in Entries : []<>(e \in Subscribed(page) => UpToDate(e, cache[e]))

\* As the comment at MissionListPage.tsx:27-31 has it, toggling fetches the other
\* list, so it always reflects the server's current state: a list that has the
\* mission otherwise than the server will be read, or says that it failed, at
\* least once the tab itself has been told of the latest change.
ToggledListIsCurrent ==
  [][SetShowArchived =>
       \A e \in Subscribed(page') :
         \/ cache'[e].holds = Holding(e)
         \/ wire'[e] # NoRequest \/ Provides(e, cache'[e]) \cap pendingTags' # {}
         \/ cache'[e].ended = "failed"
         \/ told["mission"] < clock /\ told["lists"] < clock]_vars

\* As the phase's requirements describe the channel, the page reads again when
\* a dropped socket is back: an event the connection lost comes to be shown.
ReconnectReadsAgain ==
  \A v \in 2..(MaxChanges + 1) :
    (\E i \in DOMAIN inbox : inbox[i] = v) ~>
      \/ page # "detail" \/ session # "valid"
      \/ cache["mission"].shows >= v \/ cache["mission"].ended = "failed"
=============================================================================
