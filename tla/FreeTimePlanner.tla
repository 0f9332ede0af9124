--------------------------- MODULE FreeTimePlanner ---------------------------
(***************************************************************************)
(* How a refresh fills the time that tasks and blocks leave with free-time *)
(* activities (domain/free_time.py, called by services/                    *)
(* free_time_assignment.py).                                               *)
(*                                                                         *)
(* Times are minutes and a half-open window is the set of its minutes, so  *)
(* merging windows is union, the gaps between blockers are a difference,   *)
(* and the windows of a set of minutes are its maximal runs.               *)
(***************************************************************************)
EXTENDS Integers, FiniteSets, SequencesExt

CONSTANTS
    WeekAnchors,   \* the minutes at which a local week starts (never a fixed
                   \* length apart: the local zone has daylight saving time)
    Families,      \* block families
    FreeTime,      \* the two reserved families
    Default

ASSUME FamiliesAssumption == {FreeTime, Default} \subseteq Families /\ FreeTime # Default
ASSUME AnchorsAssumption == WeekAnchors \subseteq Int /\ WeekAnchors # {}

\* A calendar: the run's start, the end of the master horizon, the published task
\* rows and the published block rows with their families.
Minutes(w) == w.start .. w.end - 1

Covered(ws) == UNION {Minutes(w) : w \in ws}

-----------------------------------------------------------------------------
(* Where an activity may go.                                               *)

\* What allowed_block_families means; no families stored is the empty set.
Effective(stored) ==
    IF stored = {} THEN {FreeTime, Default} ELSE stored \cup {FreeTime}

NextAnchors(a) == {b \in WeekAnchors : b > a}

\* Mutant of Bucket: the last week runs on past the horizon.
BucketPastHorizon(a, cal) ==
    {t \in cal.run .. cal.horizon : a <= t /\ \A b \in NextAnchors(a) : t < b}

\* The part of the local week of anchor a between the run and the horizon.
Bucket(a, cal) ==
    {t \in cal.run .. cal.horizon - 1 : a <= t /\ \A b \in NextAnchors(a) : t < b}

\* A task that runs when the refresh starts blocks nothing.
FutureTasks(cal) == {w \in cal.tasks : w.start >= cal.run}

\* Mutant of Blockers: blocks take no time.
TasksOnly(cal) == Covered(FutureTasks(cal))

Blockers(cal) == Covered(FutureTasks(cal)) \cup Covered(cal.blocks)

BlocksOf(fs, cal) == {w \in cal.blocks : w.family \in fs}

InGaps(bucket, cal) ==
    (bucket \ Blockers(cal)) \cup (bucket \cap Covered(BlocksOf({FreeTime}, cal)))

InDefaultTime(bucket, cal) ==
    bucket \ (Covered(BlocksOf(Families \ {Default}, cal)) \cup Covered(FutureTasks(cal)))

Eligible(bucket, fs, cal) ==
    UNION { IF FreeTime \in fs THEN InGaps(bucket, cal) ELSE {},
            IF Default \in fs THEN InDefaultTime(bucket, cal) ELSE {},
            bucket \cap Covered(BlocksOf(fs \ {FreeTime, Default}, cal)) }

\* The maximal windows of a set of minutes.
Windows(ms) ==
    {w \in [start : ms, end : {t + 1 : t \in ms}] :
        w.start < w.end /\ Minutes(w) \subseteq ms /\ w.start - 1 \notin ms /\ w.end \notin ms}

\* The gaps of a set of minutes, in order.
Gaps(ms) ==
    LET ws == Windows(ms) IN
    [n \in 1 .. Cardinality(ws) |->
        CHOOSE w \in ws : Cardinality({v \in ws : v.start < w.start}) = n - 1]

-----------------------------------------------------------------------------
(* How much of it, and which windows.                                      *)

\* num / den has a finite decimal expansion (of up to six digits).
FiniteDecimal(num, den) == (num * 1000000) % den = 0

\* The minutes of a bucket that a share of num / den is worth: the product of two
\* 28-digit decimals, cut.  A share such as 1/3 is rounded down, so a product that
\* should be whole may fall just short of it.
Quotas(minutes, num, den) ==
    LET exact == (minutes * num) \div den IN
    IF (minutes * num) % den = 0 /\ exact > 0 /\ ~FiniteDecimal(num, den)
    THEN {exact, exact - 1} ELSE {exact}

LeastChunk(minimum) == IF minimum <= 0 THEN 1 ELSE minimum

\* Offer what is left of the quota to the i-th gap; its start moves past the row.
Offer(fill, i, least) ==
    LET gap == fill.gaps[i]
        room == gap.end - gap.start
        chunk == IF fill.left < room THEN fill.left ELSE room
    IN  IF chunk < least THEN fill
        ELSE [gaps |-> [fill.gaps EXCEPT ![i].start = @ + chunk],
              left |-> fill.left - chunk,
              windows |-> fill.windows \cup {[start |-> gap.start, end |-> gap.start + chunk]}]

\* Mutant of Pass: only the first gap is offered.
PassFirstGap(fill, least) == IF fill.gaps = <<>> THEN fill ELSE Offer(fill, 1, least)

\* One pass over the gaps from left to right.
Pass(fill, least) ==
    FoldLeft(LAMBDA f, i : Offer(f, i, least), fill, [i \in DOMAIN fill.gaps |-> i])

\* Passes until the quota is placed or a pass places nothing: at most quota of them.
Place(gaps, quota, minimum) ==
    FoldLeft(LAMBDA f, i : Pass(f, LeastChunk(minimum)),
             [gaps |-> gaps, left |-> quota, windows |-> {}],
             [i \in 1 .. quota |-> i]).windows

\* The rows of one activity.  Each activity is placed against the same gaps, as if
\* it were alone.  short: the weeks whose product falls short of a whole minute.
RowsOf(id, activity, share, cal, short) ==
    UNION {
        LET region == Eligible(Bucket(a, cal), Effective(activity.families), cal)
            quotas == Quotas(Cardinality(region), share.num, share.den)
            quota == CHOOSE q \in quotas :
                         \A r \in quotas : IF a \in short THEN q <= r ELSE q >= r
        IN  {[label |-> id, source |-> id, start |-> w.start, end |-> w.end] :
                 w \in Place(Gaps(region), quota, activity.minimum)}
      : a \in WeekAnchors }
=============================================================================
