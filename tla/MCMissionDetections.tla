------------------------ MODULE MCMissionDetections ------------------------
(* Videos of three frames with two or three detections, for TLC. *)
EXTENDS MissionDetections

Raw(label, at, confident) ==
  [label |-> label, box |-> [at |-> at, size |-> 4], confident |-> confident]

Car(at) == Raw("car", at, TRUE)
Person == Raw("person", 1, TRUE)

\* No detection, one, or one with another: of the same object, of one beside
\* it, of another label in the same place.
FrameContents ==
  {<<>>} \cup {<<d>> : d \in {Car(0), Car(1), Person}}
         \cup {<<Car(1), d>> : d \in {Car(0), Car(1), Person}}

\* Two detections anywhere; or three: an object beside another that stays,
\* appears or vanishes, and one that comes back.
ShortVideos ==
  {v \in [1..3 -> FrameContents] : v[1] # <<>> /\ Len(v[1]) + Len(v[2]) + Len(v[3]) <= 2}
    \cup {<< <<Car(1), Car(0)>>, <<Car(1)>>, <<>> >>,
          << <<Car(0)>>, <<Car(1), Car(0)>>, <<>> >>,
          << <<Car(1)>>, <<Person>>, <<Car(1)>> >>}

-----------------------------------------------------------------------------
(* The greedy loop against what it stands for, for all short lists of tracks
   and detections. *)

Places == {Car(0), Car(1), Car(2), Car(5), Person}
Lists == UNION {[1..n -> Places] : n \in 0..3}

ASSUME MatchesAreGreedy ==
  \A tracks, detections \in Lists :
    IsGreedy(Matches(tracks, detections), tracks, detections)

\* What the filter drops leaves the order of the rest alone.
ASSUME RetainedInOrder ==
  \A list \in Lists, other \in {Raw("cat", 1, TRUE), Raw("car", 1, FALSE)} :
    \A n \in 0..Len(list) :
      Retained(SubSeq(list, 1, n) \o <<other>> \o SubSeq(list, n + 1, Len(list))) = list
=============================================================================
