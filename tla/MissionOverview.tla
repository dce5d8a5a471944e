--------------------------- MODULE MissionOverview ---------------------------
(***************************************************************************)
(* The overview tab of a mission's page (apps/web: MissionDetailPage.tsx): *)
(* the map with the route and the detections on it (MissionMap.tsx) and    *)
(* the video with the overlay (VideoPlayerWithOverlay.tsx).                *)
(*                                                                         *)
(* Both draw outside React: an effect runs when what it depends on has     *)
(* changed, and draws only on what is there at that moment.  What is there *)
(* (the map's container, the map once it has loaded, the video element)    *)
(* appears at other moments, when queries, map and video answer.           *)
(*                                                                         *)
(* Telemetry or detections read are their version; 0 is data not read.     *)
(* Left out: tiles, bounds and boxes, and the window of frames drawn.      *)
(***************************************************************************)
EXTENDS Telemetry

CONSTANTS
  Files,         \* telemetry files
  Positions,     \* positions of the video
  MaxUploads,    \* bound: telemetry files uploaded
  MaxDetections, \* bound: versions of the detections
  MaxSteps       \* bound: tabs opened, sources chosen, playback events

VARIABLES
  stored, uploads,       \* the telemetry the API has, and the files it was sent
  routes,                \* history: per version of the telemetry, the route it is
  detected,              \* version of the detections the API has
  telemetry, detections, \* versions the page has read
  tab,                   \* loading the mission, overview, or another tab
  currentTime,           \* currentTimeMs, the position the page knows
  map,                   \* mapRef and loadedRef: none, loading, loaded
  route, points,         \* versions drawn: the route's, the detection points'
  marker,                \* index of the point the position marker is at, 0: no marker
  source, url, video,    \* the player's source, its URL, and the video element
  drawing,               \* the element the animation frames draw on, and with what
  elements, steps

mapVars == <<map, route, points, marker>>
playerVars == <<source, url, video, drawing, elements>>
apiVars == <<stored, uploads, routes, detected>>
vars == <<apiVars, telemetry, detections, tab, currentTime, mapVars, playerVars, steps>>

ElapsedPoints(t) == IF t = 0 THEN <<>> ELSE ToElapsed(routes[t])

-----------------------------------------------------------------------------
(* Effects. *)

NoDrawing == [on |-> 0, with |-> 0]

\* The map gets the data if it has loaded.
DataEffect(t, d) ==
  /\ route' = IF map = "loaded" THEN t ELSE route
  /\ points' = IF map = "loaded" THEN <<t, d>> ELSE points

\* The position marker moves to the nearest point, or is removed.
MarkerEffect(t, at) ==
  marker' = IF map = "loaded" THEN Nearest(ElapsedPoints(t), at) ELSE marker

\* The frames requested before are cancelled, others requested for the element
\* that is there.
DrawEffect(d) == drawing' = [on |-> video, with |-> IF video = 0 THEN 0 ELSE d]

\* Detections that are not read are a new empty array on every render of the page.
DrawIfUnread == IF detections = 0 THEN DrawEffect(0) ELSE UNCHANGED drawing

\* The overview is mounted: the map if its container is rendered, that is if
\* there are points to show; the player with the raw video.
Mounts ==
  /\ map' = IF ElapsedPoints(telemetry) # <<>> THEN "loading" ELSE "none"
  /\ route' = 0 /\ points' = <<0, 0>> /\ marker' = 0
  /\ source' = "raw" /\ url' = "asked" /\ video' = 0 /\ drawing' = NoDrawing
  /\ UNCHANGED elements

-----------------------------------------------------------------------------
Init ==
  /\ stored \in {<<>>} \cup {Ingest(<<>>, f) : f \in Files} /\ uploads = 0
  /\ routes = <<Route(stored)>> /\ detected = 1
  /\ telemetry = 0 /\ detections = 0 /\ tab = "loading" /\ currentTime = 0
  /\ map = "none" /\ route = 0 /\ points = <<0, 0>> /\ marker = 0
  /\ source = "raw" /\ url = "none" /\ video = 0 /\ drawing = NoDrawing
  /\ elements = 0 /\ steps = 0

Step == steps < MaxSteps /\ steps' = steps + 1

ReadMission ==
  /\ tab = "loading" /\ tab' = "overview"
  /\ Mounts
  /\ UNCHANGED <<apiVars, telemetry, detections, currentTime, steps>>

\* A telemetry file is uploaded and its tag invalidated.  Read again, the route
\* of a rejected one is the value the page has.
Upload(file) ==
  /\ tab # "loading" /\ uploads < MaxUploads
  /\ uploads' = uploads + 1
  /\ stored' = Ingest(stored, file)
  /\ routes' = IF Accepted(file) THEN Append(routes, Route(stored')) ELSE routes
  /\ UNCHANGED <<detected, telemetry, detections, tab, currentTime, mapVars, playerVars, steps>>

\* Events bring detections.
Detect ==
  /\ detected < MaxDetections /\ detected' = detected + 1
  /\ UNCHANGED <<stored, uploads, routes, telemetry, detections, tab, currentTime, mapVars,
                 playerVars, steps>>

\* The page reads the telemetry: the container may be rendered now, but the
\* effect that makes the map runs on mount.
ReadTelemetry ==
  /\ telemetry < Len(routes) /\ telemetry' = Len(routes)
  /\ IF tab = "overview"
     THEN DataEffect(telemetry', detections) /\ MarkerEffect(telemetry', currentTime)
          /\ DrawIfUnread
     ELSE UNCHANGED <<route, points, marker, drawing>>
  /\ UNCHANGED <<apiVars, detections, tab, currentTime, map, source, url, video, elements, steps>>

ReadDetections ==
  /\ detections < detected /\ detections' = detected
  /\ IF tab = "overview" THEN DataEffect(telemetry, detections') /\ DrawEffect(detections')
     ELSE UNCHANGED <<route, points, drawing>>
  /\ UNCHANGED <<apiVars, telemetry, tab, currentTime, map, marker, source, url, video,
                 elements, steps>>

\* The style is loaded: the map gets its sources, empty.
MapLoads ==
  /\ map = "loading" /\ map' = "loaded"
  /\ UNCHANGED <<apiVars, telemetry, detections, tab, currentTime, route, points, marker,
                 playerVars, steps>>

\* The URL asked for arrives and the video element is rendered.  Which element
\* is there is nothing the draw effect depends on.
UrlArrives ==
  /\ url = "asked" /\ url' = "shown"
  /\ elements' = elements + 1 /\ video' = elements'
  /\ UNCHANGED <<apiVars, telemetry, detections, tab, currentTime, mapVars, source, drawing,
                 steps>>

UrlFails ==
  /\ url = "asked" /\ url' = "none"
  /\ UNCHANGED <<apiVars, telemetry, detections, tab, currentTime, mapVars, source, video,
                 drawing, elements, steps>>

\* Another source: frames are requested for the element there is, which goes
\* with its URL.  An answer for the source left is dropped.
ChooseSource ==
  /\ tab = "overview" /\ Step
  /\ source' = IF source = "raw" THEN "annotated" ELSE "raw"
  /\ DrawEffect(detections)
  /\ url' = "asked" /\ video' = 0
  /\ UNCHANGED <<apiVars, telemetry, detections, tab, currentTime, mapVars, elements>>

\* The video plays: the page has its position.
TimeUpdate(at) ==
  /\ video # 0 /\ at # currentTime /\ Step
  /\ currentTime' = at
  /\ MarkerEffect(telemetry, at)
  /\ IF detections = 0 THEN DataEffect(telemetry, 0) ELSE UNCHANGED <<route, points>>
  /\ DrawIfUnread
  /\ UNCHANGED <<apiVars, telemetry, detections, tab, map, source, url, video, elements>>

\* Another tab: map and player are unmounted.
LeaveOverview ==
  /\ tab = "overview" /\ tab' = "timeline" /\ Step
  /\ map' = "none" /\ route' = 0 /\ points' = <<0, 0>> /\ marker' = 0
  /\ url' = "none" /\ video' = 0 /\ drawing' = NoDrawing
  /\ UNCHANGED <<apiVars, telemetry, detections, currentTime, source, elements>>

OpenOverview ==
  /\ tab = "timeline" /\ tab' = "overview" /\ Step
  /\ Mounts
  /\ UNCHANGED <<apiVars, telemetry, detections, currentTime>>

Next ==
  \/ ReadMission \/ ReadTelemetry \/ ReadDetections
  \/ Detect \/ \E file \in Files : Upload(file)
  \/ MapLoads \/ UrlArrives \/ UrlFails
  \/ ChooseSource \/ LeaveOverview \/ OpenOverview
  \/ \E at \in Positions : TimeUpdate(at)

\* Queries, the map's style and the URL are answered; nobody has to click.
FairSpec ==
  /\ Init /\ [][Next]_vars
  /\ WF_vars(ReadMission) /\ WF_vars(ReadTelemetry) /\ WF_vars(ReadDetections)
  /\ WF_vars(MapLoads) /\ WF_vars(UrlArrives \/ UrlFails)

-----------------------------------------------------------------------------
(* Properties. *)

\* As the map's comments have it: an overview that stays open, of a mission with
\* telemetry, comes to show its route on the map.
RouteIsDrawn ==
  (tab = "overview" /\ ElapsedPoints(telemetry) # <<>>) ~>
    (tab # "overview" \/ route = telemetry)

\* As the player's comments have it: the raw video, once it is shown, comes to
\* be drawn over with the detections read.
OverlayIsDrawn ==
  (source = "raw" /\ video # 0 /\ detections # 0) ~>
    (source # "raw" \/ video = 0 \/ drawing = [on |-> video, with |-> detections])
=============================================================================
