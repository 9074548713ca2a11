----------------------------- MODULE GapIntervals -----------------------------
(***************************************************************************)
(* Time intervals as the base components of the category Data Quality      *)
(* treat them (transformations/components/data-quality): series are cut to *)
(* a processing range, gaps are intervals whose ends may belong to them,   *)
(* and intervals of different origin are merged.  Timestamps are ticks; a  *)
(* rhythm consists of the ticks at a distance of offset + k * frequency    *)
(* from the epoch, which is tick 0.                                        *)
(***************************************************************************)
EXTENDS Integers, FiniteSets, Sequences, SequencesExt

CONSTANT MaxTime   \* bound of the model: the last tick

ASSUME MaxTimeAssumption == MaxTime \in Nat

Times == 0 .. MaxTime
NoTime == -1       \* None

Intervals == [start : Times, end : Times, startIn : BOOLEAN, endIn : BOOLEAN]
Point(t) == [start |-> t, end |-> t, startIn |-> TRUE, endIn |-> TRUE]

\* The elements of a set by how many come before each of them.
InOrder(set, Before(_, _)) ==
    [k \in 1 .. Cardinality(set) |->
        CHOOSE x \in set : Cardinality({y \in set : Before(y, x)}) = k - 1]

Ascending(times) == InOrder(times, <)

-----------------------------------------------------------------------------
(* The processing range.                                                   *)

\* constrict_series_to_interval: without a start the end is not looked at.
ConstrictedSeries(times, from, to) ==
    {t \in times : from # NoTime => from <= t /\ t <= to}

WithBounds(times, from, to) == times \cup ({from, to} \ {NoTime})

\* What reaches out of the range is cut and then includes the bound; what is empty
\* is dropped.
Constricted(i, from, to) ==
    LET left == from # NoTime /\ i.start < from
        right == to # NoTime /\ i.end > to
    IN  [start |-> IF left THEN from ELSE i.start, end |-> IF right THEN to ELSE i.end,
         startIn |-> left \/ i.startIn, endIn |-> right \/ i.endIn]

NotEmpty(i) == i.start < i.end \/ (i.start = i.end /\ i.startIn /\ i.endIn)

ConstrictedIntervals(rows, from, to) ==
    SelectSeq([k \in DOMAIN rows |-> Constricted(rows[k], from, to)], NotEmpty)

-----------------------------------------------------------------------------
(* Merging: four passes over the rows in the order of start and end, each   *)
(* of which groups neighbouring rows.                                      *)

\* Rows sorted by start and end; sort_values keeps the order of equal rows.
Sorted(rows) ==
    LET before(j, k) ==
            \/ rows[j].start < rows[k].start
            \/ rows[j].start = rows[k].start /\ rows[j].end < rows[k].end
            \/ rows[j].start = rows[k].start /\ rows[j].end = rows[k].end /\ j < k
        order == InOrder(DOMAIN rows, before)
    IN  [k \in DOMAIN rows |-> rows[order[k]]]

\* groupby(....cumsum()).agg(...): a row parts from the one before it or is combined
\* with the group that one ended.  A group has its start from its first row and its
\* end from its last one, so looking at the group comes to the same as looking at
\* the row before.
Grouped(rows, Parts(_, _), Combined(_, _)) ==
    FoldLeft(LAMBDA groups, row :
                 IF groups = <<>> \/ Parts(Last(groups), row) THEN Append(groups, row)
                 ELSE Append(Front(groups), Combined(Last(groups), row)),
             <<>>, rows)

Joined(a, b) == [a EXCEPT !.end = b.end, !.endIn = b.endIn]

BySameStart(rows) ==
    Grouped(rows, LAMBDA a, b : a.start # b.start,
            LAMBDA a, b : [Joined(a, b) EXCEPT !.startIn = a.startIn \/ b.startIn])

BySameEnd(rows) ==
    Grouped(rows, LAMBDA a, b : a.end # b.end,
            LAMBDA a, b : [Joined(a, b) EXCEPT !.endIn = a.endIn \/ b.endIn])

\* The end is that of the later row, even if the earlier one reaches farther.
ByOverlap(rows) == Grouped(rows, LAMBDA a, b : b.start >= a.end, Joined)

\* Fault: intervals that touch are joined even if neither includes the tick.
ByTouchAnyhow(rows) == Grouped(rows, LAMBDA a, b : b.start > a.end, Joined)

\* Both flags are those of the later row.
ByTouch(rows) ==
    Grouped(rows, LAMBDA a, b : b.start > a.end \/ ~(b.startIn /\ b.endIn), Joined)

\* merge_intervals
Merged(rows) == ByTouch(ByOverlap(BySameEnd(BySameStart(Sorted(rows)))))

-----------------------------------------------------------------------------
(* Rhythms.                                                                *)

LeftOnto(t, frequency, offset) == t - ((t - offset) % frequency)
RightOnto(t, frequency, offset) == t + ((offset - t) % frequency)

\* date_range between two ticks of the rhythm.
Beats(first, last, frequency) == {t \in first .. last : (t - first) % frequency = 0}

-----------------------------------------------------------------------------
(* What intervals mean.  Instants are the ticks, as even numbers, and the   *)
(* open intervals between them.                                            *)

Instants(i) ==
    {x \in 2 * i.start .. 2 * i.end : (x = 2 * i.start => i.startIn) /\ (x = 2 * i.end => i.endIn)}

Covered(rows) == UNION {Instants(rows[k]) : k \in DOMAIN rows}

\* No row lies within another, other than at its start or its end.
NoneInside(rows) ==
    \A j, k \in DOMAIN rows :
        /\ rows[j].start < rows[k].start => rows[j].end <= rows[k].end
        /\ rows[j].start = rows[k].start /\ rows[j].end = rows[k].end => rows[j] = rows[k]

=============================================================================
