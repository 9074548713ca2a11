--------------------------- MODULE MCGapReplacement ---------------------------
(***************************************************************************)
(* Instances of the repair of gaps for TLC.                                *)
(***************************************************************************)
EXTENDS GapReplacement

\* No range, all of the ticks, the inner ones.
SmallRanges == {<<NoTime, NoTime>>, <<0, MaxTime>>, <<1, MaxTime - 1>>}

Row(start, end, startIn, endIn) ==
    [start |-> start, end |-> end, startIn |-> startIn, endIn |-> endIn]

\* Nothing, a point, an interval that is cut, intervals that overlap, touch, lie
\* within each other or differ in their ends only.
SmallExternals ==
    {<<{}, <<>>>>, <<{2}, <<>>>>,
     <<{}, <<Row(0, 2, FALSE, TRUE)>>>>,
     <<{2}, <<Row(2, 3, FALSE, FALSE), Row(0, 2, TRUE, FALSE)>>>>,
     <<{}, <<Row(1, 3, TRUE, FALSE), Row(2, 5, FALSE, TRUE)>>>>,
     <<{3}, <<Row(1, 5, FALSE, FALSE)>>>>,
     <<{}, <<Row(1, 3, FALSE, TRUE), Row(1, 3, TRUE, FALSE)>>>>,
     <<{}, <<Row(1, 3, FALSE, TRUE), Row(3, 4, TRUE, FALSE)>>>>}

NoExternals == {<<{}, <<>>>>}
=============================================================================
