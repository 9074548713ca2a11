---------------------------- MODULE GapReplacement ----------------------------
(***************************************************************************)
(* Two components of the category Data Quality one after the other, as a   *)
(* workflow that repairs a series uses them: "Gap Detection Intervals"     *)
(* reports the gaps of a series, "Replacement Locations for Gaps" the      *)
(* ticks where values have to be made up.  The values themselves are left  *)
(* out.                                                                    *)
(***************************************************************************)
EXTENDS GapIntervals

CONSTANTS
    Ranges,       \* pairs: interval_start_timestamp, interval_end_timestamp
    Frequencies,  \* expected_data_frequency in ticks
    Factors,      \* expected_data_freq_allowed_variance_factor, in halves
    MinPoints,    \* auto_freq_min_amount_datapoints
    Externals     \* pairs: externally determined gap timestamps and gap intervals

ASSUME RequestsAssumption ==
    /\ Ranges \subseteq (Times \cup {NoTime}) \X (Times \cup {NoTime})
    /\ \A r \in Ranges : (r[1] = NoTime) = (r[2] = NoTime)
    /\ Frequencies \subseteq Nat \ {0} /\ Factors \subseteq Nat
    /\ MinPoints \in Nat \ {0, 1}
    /\ \A e \in Externals : e[1] \subseteq Times /\ e[2] \in Seq(Intervals)

Automatic == 0    \* auto_frequency_determination

VARIABLES
    request,     \* the inputs of the gap detection
    stage,       \* requested, refused, detected, located
    gaps,        \* gap_info
    frequency,   \* data_frequency, or the one the locations were asked for with
    rhythm,      \* the offset the locations were determined with
    allPoints,   \* all_gap_points
    locations    \* replacement_locations

vars == <<request, stage, gaps, frequency, rhythm, allPoints, locations>>

\* The series is in the order of time; the range is given as a whole or not at all.
Requests ==
    [series : SUBSET Times, range : Ranges, frequency : Frequencies \cup {Automatic},
     offset : Times \cup {NoTime}, factor : Factors, external : Externals, internal : BOOLEAN]

TypeOK ==
    /\ request \in Requests
    /\ stage \in {"requested", "refused", "detected", "located"}
    /\ gaps \in Seq(Intervals)
    /\ frequency \in Nat /\ rhythm \in Times \cup {NoTime}
    /\ allPoints \in BOOLEAN
    /\ locations \subseteq Times

Init ==
    /\ request \in Requests
    /\ request.offset < request.frequency \/ request.offset = NoTime
    /\ stage = "requested" /\ gaps = <<>> /\ frequency = 0 /\ rhythm = NoTime
    /\ allPoints = FALSE /\ locations = {}

-----------------------------------------------------------------------------
(* Gap detection.                                                          *)

\* The bounds default to the first and the last data point.
From == IF request.range[1] # NoTime \/ request.series = {} THEN request.range[1]
        ELSE Ascending(request.series)[1]
To == IF request.range[2] # NoTime \/ request.series = {} THEN request.range[2]
      ELSE Last(Ascending(request.series))

Data == ConstrictedSeries(request.series, From, To)
Ticks == Ascending(WithBounds(Data, From, To))
Steps == {<<Ticks[k - 1], Ticks[k]>> : k \in 2 .. Len(Ticks)}

\* GapDetectionParameters and check_amount_datapoints; an offset is not taken
\* without a frequency, and to detect gaps not without a range to apply it to.
Accepted ==
    /\ From <= To
    /\ request.offset # NoTime => request.frequency # Automatic
    /\ request.internal /\ request.offset # NoTime => From # NoTime
    /\ request.internal /\ request.frequency = Automatic => Len(Ticks) >= MinPoints

\* The percentile's step, which may be any of them.
DataFrequencies ==
    IF request.frequency # Automatic THEN {request.frequency}
    ELSE IF request.internal THEN {s[2] - s[1] : s \in Steps} ELSE {Automatic}

\* Fault: a step of a frequency and a tick is not seen.
IdentifiedGapsOffByOne(f) ==
    {s \in Steps : 2 * (s[2] - s[1]) > request.factor * f + 2}

\* Steps of more than the frequency times the factor.
IdentifiedGaps(f) == {s \in Steps : 2 * (s[2] - s[1]) > request.factor * f}

\* Data points expected by the offset that are not there.
MissingPoints(f) ==
    IF request.offset = NoTime THEN {}
    ELSE Beats(RightOnto(From, f, request.offset), LeftOnto(To, f, request.offset), f) \ Data

Points(times) == LET t == Ascending(times) IN [k \in DOMAIN t |-> Point(t[k])]

\* The rows of all origins, before they are merged.
FoundGaps(f) ==
    LET identified == Ascending({s[2] : s \in IdentifiedGaps(f)})
        before(t) == CHOOSE s \in Steps : s[2] = t
        open(t) == [start |-> before(t)[1], end |-> t, startIn |-> FALSE, endIn |-> FALSE]
        external == ConstrictedIntervals(request.external[2], From, To)
                    \o Points(ConstrictedSeries(request.external[1], From, To))
    IN  IF request.internal
        THEN [k \in DOMAIN identified |-> open(identified[k])] \o external \o Points(MissingPoints(f))
        ELSE external

DetectionRefused ==
    /\ stage = "requested" /\ ~Accepted
    /\ stage' = "refused"
    /\ UNCHANGED <<request, gaps, frequency, rhythm, allPoints, locations>>

Detect ==
    /\ stage = "requested" /\ Accepted
    /\ \E f \in DataFrequencies :
        /\ frequency' = f
        /\ gaps' = Merged(FoundGaps(f))
    /\ stage' = "detected"
    /\ UNCHANGED <<request, rhythm, allPoints, locations>>

-----------------------------------------------------------------------------
(* Replacement locations.                                                  *)

\* date_range with an inclusive argument: it takes no notice of it where both
\* ends are the same tick and one of them is included.
LocationsIn(i, f, offset) ==
    LET first == RightOnto(i.start, f, offset)
        last == LeftOnto(i.end, f, offset)
        firstIn == i.startIn \/ first # i.start
        lastIn == i.endIn \/ last # i.end
    IN  IF first = last
        THEN {t \in {first} : firstIn \/ lastIn}
        ELSE {t \in Beats(first, last, f) : (t = first => firstIn) /\ (t = last => lastIn)}

\* determine_expected_data_frequency_offset: the distance of the epoch from the
\* first data point, or from the start of the range.
DeterminedOffset(f, withSeries) ==
    IF withSeries /\ Data # {} THEN (0 - Ascending(Data)[1]) % f
    ELSE IF request.range[1] # NoTime THEN (0 - request.range[1]) % f
    ELSE NoTime

\* The gaps constricted and merged once more.
GapsToFill(withSeries) ==
    Merged(IF withSeries THEN ConstrictedIntervals(gaps, From, To)
           ELSE ConstrictedIntervals(gaps, request.range[1], request.range[2]))

IsPoint(i) == i.start = i.end

\* Without any offset, the start of the first gap that is looked at serves for all.
Locate(f, offset, withSeries, all) ==
    LET rows == GapsToFill(withSeries)
        looked == SelectSeq(rows, LAMBDA i : ~(all /\ IsPoint(i)))
        known == IF offset # NoTime THEN offset ELSE DeterminedOffset(f, withSeries)
    IN  /\ stage = "detected"
        /\ request.frequency = Automatic \/ f = frequency
        /\ rhythm' = IF known # NoTime THEN known
                     ELSE IF looked # <<>> THEN looked[1].start % f ELSE NoTime
        /\ locations' = UNION {IF all /\ IsPoint(rows[k]) THEN {rows[k].start}
                               ELSE LocationsIn(rows[k], f, rhythm') : k \in DOMAIN rows}
        /\ frequency' = f
        /\ allPoints' = all
        /\ stage' = "located"
        /\ UNCHANGED <<request, gaps>>

Next ==
    \/ DetectionRefused
    \/ Detect
    \/ \E f \in Frequencies, offset \in Times \cup {NoTime}, withSeries, all \in BOOLEAN :
        offset < f /\ Locate(f, offset, withSeries, all)

Spec == Init /\ [][Next]_vars

-----------------------------------------------------------------------------
(* Properties.                                                             *)

\* What is reported covers nothing but what was found in the data, expected or
\* given from outside; unless something lies within something else, it covers all
\* of it; it is in order, and merging it again, as the second component does,
\* changes nothing.
ReportedIsWhatWasFound ==
    stage = "detected" =>
        LET found == FoundGaps(frequency)
        IN  /\ Covered(gaps) \subseteq Covered(found)
            /\ NoneInside(found) => Covered(gaps) = Covered(found)
            /\ \A k \in 2 .. Len(gaps) : gaps[k - 1].end <= gaps[k].start
            /\ Merged(gaps) = gaps

\* The purpose of the two components: with data points on the rhythm and nothing
\* but the data to go by, data points and replacements together are the whole
\* rhythm within the range.
ReplacementCompletesRhythm ==
    /\ stage = "located" /\ request.internal /\ request.external = <<{}, <<>>>>
    /\ request.factor = 2 /\ request.frequency = frequency
    /\ request.offset \in {NoTime, rhythm}
    /\ rhythm # NoTime /\ Data # {}
    /\ \A t \in Data : t % frequency = rhythm
    => {t \in From + 1 .. To - 1 : t % frequency = rhythm} \subseteq Data \cup locations
       /\ \A t \in locations : t \notin Data /\ t % frequency = rhythm

\* Every step of more than the tolerated length is reported as a gap. The code does
\* not keep this: a missing point within the step ends the gap.
LargeStepsAreReported ==
    stage = "detected" /\ request.internal =>
        \A s \in IdentifiedGaps(frequency) : 2 * s[1] + 1 .. 2 * s[2] - 1 \subseteq Covered(gaps)

\* Without an offset the replacements are on the rhythm of the first data point.
\* The code does not keep this: its offset has the opposite sign.
RhythmIsThatOfTheSeries ==
    \A f \in Frequencies : Data # {} => DeterminedOffset(f, TRUE) = Ascending(Data)[1] % f

=============================================================================
