----------------------------- MODULE Telemetry -----------------------------
(***************************************************************************)
(* Telemetry files (apps/api telemetry: telemetry-parser.ts,               *)
(* telemetry.service.ts, telemetry.repository.ts) and the browser's use of *)
(* the points as positions in time (apps/web: nearestInTime.ts).           *)
(*                                                                         *)
(* A file is its format and its rows; a row is the time it was captured    *)
(* and the worst thing about it: "none", an "optional" value that is not a *)
(* number, a "coordinate" out of range or no number, or "required" columns *)
(* or properties missing or unreadable.  A point is its time.              *)
(***************************************************************************)
EXTENDS Integers, Sequences, SequencesExt

CsvRowAccepted(row) == row.wrong = "none"

\* An optional property that is not a number is taken for absent.
GeoJsonRowAccepted(row) == row.wrong \in {"none", "optional"}

StrictlyIncreasing(times) == \A i \in 2..Len(times) : times[i - 1] < times[i]

Times(rows) == [i \in DOMAIN rows |-> rows[i].time]

\* The parser throws unless the file is accepted as a whole.
Accepted(file) ==
  /\ file.format \in {"csv", "geojson"}
  /\ \A i \in DOMAIN file.rows :
       IF file.format = "csv" THEN CsvRowAccepted(file.rows[i])
       ELSE GeoJsonRowAccepted(file.rows[i])
  /\ file.rows # <<>>
  /\ StrictlyIncreasing(Times(file.rows))

\* All points of a file are inserted, or none; nothing is replaced.
Ingest(stored, file) == IF Accepted(file) THEN stored \o Times(file.rows) ELSE stored

\* ORDER BY captured_at.
Route(stored) == SortSeq(stored, LAMBDA a, b : a < b)

\* Elapsed time from the first point on.
ToElapsed(route) == [i \in DOMAIN route |-> route[i] - route[1]]

Distance(a, b) == IF a >= b THEN a - b ELSE b - a

\* The first of the nearest points, 0 if there is none.
Nearest(elapsed, at) ==
  IF elapsed = <<>> THEN 0
  ELSE CHOOSE i \in DOMAIN elapsed :
         \A j \in DOMAIN elapsed :
           /\ Distance(elapsed[i], at) <= Distance(elapsed[j], at)
           /\ Distance(elapsed[i], at) = Distance(elapsed[j], at) => i <= j
=============================================================================
