------------------------------- MODULE Tracker -------------------------------
(***************************************************************************)
(* vision_service/detection: what happens to the detections of one frame   *)
(* (filters.py, tracker.py), as operators over a tracker                   *)
(*   [tracks: its tracks in order, next: the next track id].               *)
(*                                                                         *)
(* A box is an interval [at, size], the one-dimensional case of a          *)
(* rectangle: overlap, union and their ratio are all that is used of it.   *)
(***************************************************************************)
EXTENDS Integers, FiniteSets, SequencesExt

CONSTANTS
  MaxMisses,      \* DEFAULT_MAX_MISSES
  AllowedLabels   \* ALLOWED_CLASSES

ASSUME MaxMissesAssumption == MaxMisses \in Nat

Boxes == [at : Int, size : Nat]

\* What a detector may report: confident stands for a confidence that reaches
\* the threshold.
Reports == [label : STRING, box : Boxes, confident : BOOLEAN]

\* The members of S sorted by R, which holds <<p, q>> where p comes before q.
Sorted(S, R) ==
  [k \in 1..Cardinality(S) |->
     CHOOSE p \in S : Cardinality({q \in S : <<q, p>> \in R}) = k - 1]

\* The elements of s at the positions in K, in the order they have in s.
Picked(s, K) ==
  LET at == Sorted(K, {p \in K \X K : p[1] < p[2]})
  IN  [i \in DOMAIN at |-> s[at[i]]]

Retained(detections) ==
  Picked(detections, {d \in DOMAIN detections :
                        detections[d].confident /\ detections[d].label \in AllowedLabels})

-----------------------------------------------------------------------------
Intersection(a, b) ==
  LET from == IF a.at >= b.at THEN a.at ELSE b.at
      to   == IF a.at + a.size <= b.at + b.size THEN a.at + a.size ELSE b.at + b.size
  IN  IF to >= from THEN to - from ELSE 0

Union(a, b) == a.size + b.size - Intersection(a, b)

\* _iou(a, b) >= 0.3, and _iou(a, b) > _iou(c, d), over the integers.
Overlaps(a, b) == Union(a, b) > 0 /\ 10 * Intersection(a, b) >= 3 * Union(a, b)

Nearer(a, b, c, d) == Intersection(a, b) * Union(c, d) > Intersection(c, d) * Union(a, b)

-----------------------------------------------------------------------------
NewTracker == [tracks |-> <<>>, next |-> 1]

\* candidate_pairs: a track and a detection of its label close to its last box.
Candidates(tracks, detections) ==
  {p \in (DOMAIN tracks) \X (DOMAIN detections) :
     /\ tracks[p[1]].label = detections[p[2]].label
     /\ Overlaps(tracks[p[1]].box, detections[p[2]].box)}

\* The sort is stable: pairs of equal overlap stay in the order they were
\* found, track by track.
Before(tracks, detections, p, q) ==
  LET a == tracks[p[1]].box  b == detections[p[2]].box
      c == tracks[q[1]].box  d == detections[q[2]].box
  IN  \/ Nearer(a, b, c, d)
      \/ /\ ~Nearer(c, d, a, b)
         /\ p[1] < q[1] \/ (p[1] = q[1] /\ p[2] < q[2])

InOrder(tracks, detections) ==
  LET pairs == Candidates(tracks, detections)
  IN  Sorted(pairs, {o \in pairs \X pairs : Before(tracks, detections, o[1], o[2])})

\* The greedy loop: each pair in turn, unless its track or its detection is taken.
Matches(tracks, detections) ==
  FoldLeft(LAMBDA taken, p : IF \E q \in taken : q[1] = p[1] \/ q[2] = p[2] THEN taken
                             ELSE taken \cup {p},
           {}, InOrder(tracks, detections))

\* What the greedy loop stands for: no track and no detection is taken twice,
\* and a pair that is left out lost its track or its detection to a pair that
\* overlaps at least as well.
IsGreedy(matches, tracks, detections) ==
  LET NotBetter(p, q) ==
        ~Nearer(tracks[p[1]].box, detections[p[2]].box, tracks[q[1]].box, detections[q[2]].box)
  IN  /\ matches \subseteq Candidates(tracks, detections)
      /\ \A p, q \in matches : p # q => p[1] # q[1] /\ p[2] # q[2]
      /\ \A p \in Candidates(tracks, detections) \ matches :
           \E q \in matches : (p[1] = q[1] \/ p[2] = q[2]) /\ NotBetter(p, q)

\* Mutant: a track survives one miss more than it should.
AgedForgiving(tracks, matches) ==
  LET older == [t \in DOMAIN tracks |-> [tracks[t] EXCEPT !.misses = @ + 1]]
  IN  Picked(older, {t \in DOMAIN tracks : /\ \A p \in matches : p[1] # t
                                          /\ older[t].misses <= MaxMisses + 1})

\* The tracks nothing matched, one miss older, if they survive it.
Aged(tracks, matches) ==
  LET older == [t \in DOMAIN tracks |-> [tracks[t] EXCEPT !.misses = @ + 1]]
  IN  Picked(older, {t \in DOMAIN tracks : /\ \A p \in matches : p[1] # t
                                          /\ older[t].misses <= MaxMisses})

\* The track id of each detection: its match's, or the next one that is free.
TrackIds(tracker, detections) ==
  LET matches == Matches(tracker.tracks, detections)
      New(d) == \A p \in matches : p[2] # d
  IN  [d \in DOMAIN detections |->
         IF New(d) THEN tracker.next + Cardinality({e \in 1..(d - 1) : New(e)})
         ELSE tracker.tracks[(CHOOSE p \in matches : p[2] = d)[1]].id]

\* The tracker after update(detections).
Updated(tracker, detections) ==
  LET matches == Matches(tracker.tracks, detections)
      ids == TrackIds(tracker, detections)
  IN  [tracks |-> Aged(tracker.tracks, matches)
                    \o [d \in DOMAIN detections |->
                          [id |-> ids[d], label |-> detections[d].label,
                           box |-> detections[d].box, misses |-> 0]],
       next |-> tracker.next
                  + Cardinality({d \in DOMAIN detections : \A p \in matches : p[2] # d})]
=============================================================================
