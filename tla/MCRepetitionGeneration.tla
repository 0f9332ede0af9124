---------------------- MODULE MCRepetitionGeneration ----------------------
(* A count and an open range that start at once, and an open range that starts later. *)
EXTENDS RepetitionGeneration

Stored(mode, start, count) ==
    [mode |-> mode, start |-> start, interval |-> 1, count |-> count, end |-> None]

MCSettings ==
    {Stored("MANUAL_COUNT", 0, 2), Stored("DATE_RANGE", 0, None), Stored("DATE_RANGE", 1, None)}

OpenOnly == {Stored("DATE_RANGE", 0, None)}
=============================================================================
