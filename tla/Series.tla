------------------------------- MODULE Series -------------------------------
(***************************************************************************)
(* The two endpoints that read rounds, on a database that the storage      *)
(* writer, the rollup worker and the retention worker change between their *)
(* statements.  A series is made of three reads: the number of rounds,     *)
(* which decides between raw rounds and the rows of a resolution; the rows *)
(* of that resolution; and the rounds that have no row.  Rounds themselves *)
(* are read in pages, the newest first, each page by a request of its own. *)
(* A reader changes nothing, so one reader stands for all of them.         *)
(***************************************************************************)
EXTENDS Rollups, SeriesPoints

CONSTANTS
    Requests,       \* [from, to, maxPoints] that are asked for
    FallbackLimit,  \* MAX_SERIES_FALLBACK_ROUNDS
    Limits          \* the page sizes that are asked for

ASSUME RequestsAssumption ==
    /\ \A q \in Requests :
        q.from \in Nat /\ q.to \in Nat /\ q.from < q.to /\ q.maxPoints \in Nat \ {0}
    /\ FallbackLimit \in Nat /\ Limits \subseteq Nat \ {0}

VARIABLES
    reading,    \* "nothing", "raw", "buckets", "uncovered" or "pages": the next statement
    asked,      \* the pair and the request
    resolution, \* the resolution that was chosen
    rows,       \* the rows that were read, by bucket_start
    cursor,     \* the round the last page ended with
    seen,       \* history: the rounds that were returned
    owed        \* history: those that were there at the first page and were not returned

reader == <<reading, asked, resolution, rows, cursor, seen, owed>>
database == <<now, stored, raw, rollup, cycle, retention, faults>>

Nothing == [pair |-> 0, from |-> 0, to |-> 0, maxPoints |-> 0]
NoRows == [b \in Instants |-> {}]

SeriesInit ==
    /\ Init
    /\ reading = "nothing" /\ asked = Nothing /\ resolution = 0 /\ rows = NoRows
    /\ cursor = MaxNow + 1 /\ seen = {} /\ owed = {}

-----------------------------------------------------------------------------
(***************************************************************************)
(* A series.                                                               *)
(***************************************************************************)

Between(S, first, end) == {t \in S : first <= t /\ t < end}

\* get_series: raw rounds when they are few, else the finest rows that are few.  Nobody asks
\* for the future.
AskSeries(p, q) ==
    LET threshold == (q.maxPoints * 3) \div 2
    IN  /\ reading = "nothing" /\ q.to <= now + 1
        /\ asked' = [pair |-> p, from |-> q.from, to |-> q.to, maxPoints |-> q.maxPoints]
        /\ IF Cardinality(Between(raw[p], q.from, q.to)) <= threshold
           THEN reading' = "raw" /\ resolution' = 0
           ELSE /\ reading' = "buckets"
                /\ resolution' = IF (q.to - q.from) \div Fine <= threshold THEN Fine ELSE Coarse
        /\ UNCHANGED <<rows, cursor, seen, owed, database>>

RawPoints ==
    LET layout == RawLayout(asked.from, asked.to, asked.maxPoints)
        rounds == Between(raw[asked.pair], asked.from, asked.to)
        Point(at) == IF at = {} THEN Missing ELSE RawPoint(at)
    IN  [layout |-> layout,
         points |-> [i \in 0..(layout.number - 1) |->
                        Point({t \in rounds : IndexOf(t, layout) = i})]]

AlignedFrom == BucketOf(asked.from, resolution)

ReadBuckets ==
    /\ reading = "buckets"
    /\ rows' = [b \in Instants |->
                  IF AlignedFrom <= b /\ b < asked.to THEN rollup[asked.pair][resolution][b] ELSE {}]
    /\ reading' = "uncovered"
    /\ UNCHANGED <<asked, resolution, cursor, seen, owed, database>>

\* Mutant: rounds are read whether their bucket has a row or not.
EveryRound == Between(raw[asked.pair], AlignedFrom, asked.to)

\* query_without_matching_rollup
Uncovered ==
    {t \in Between(raw[asked.pair], AlignedFrom, asked.to) :
        rollup[asked.pair][resolution][BucketOf(t, resolution)] = {}}

RowPoints ==
    LET layout == RowLayout(asked.from, asked.to, asked.maxPoints, resolution)
        uncovered == Uncovered
        read == {b \in Instants : rows[b] # {}}
        bare == {BucketOf(t, resolution) : t \in uncovered}
        At(i) == {RowPoint(rows[b]) : b \in {c \in read : IndexOf(c, layout) = i}}
            \cup {RawPoint({t \in uncovered : BucketOf(t, resolution) = b}) :
                    b \in {c \in bare : IndexOf(c, layout) = i}}
    IN  [layout |-> layout, points |-> [i \in 0..(layout.number - 1) |-> Merged(At(i))]]

\* series_busy: too many rounds have no row.
Busy == reading = "uncovered" /\ Cardinality(Uncovered) > FallbackLimit

\* What the endpoint answers when it makes its last statement now.
Answering == reading \in {"raw", "uncovered"} /\ ~Busy
Answer == IF reading = "raw" THEN RawPoints ELSE RowPoints

EndSeries ==
    /\ reading \in {"raw", "uncovered"}
    /\ reading' = "nothing" /\ asked' = Nothing /\ resolution' = 0 /\ rows' = NoRows
    /\ UNCHANGED <<cursor, seen, owed, database>>

-----------------------------------------------------------------------------
(***************************************************************************)
(* Pages of rounds.                                                        *)
(***************************************************************************)

\* A list of one page is left out.
AskPages(p, limit) ==
    /\ reading = "nothing" /\ Cardinality(raw[p]) > limit
    /\ reading' = "pages" /\ asked' = [Nothing EXCEPT !.pair = p, !.maxPoints = limit]
    /\ owed' = raw[p]
    /\ UNCHANGED <<resolution, rows, cursor, seen, database>>

\* The newest rounds before the cursor, at most n of them.
Newest(n) ==
    LET older == {t \in raw[asked.pair] : t < cursor}
    IN  {t \in older : Cardinality({u \in older : u > t}) < n}

\* query_recent_by_check asks for one round more than the page holds.
HasMore == Cardinality(Newest(asked.maxPoints + 1)) > asked.maxPoints

Page == Newest(asked.maxPoints)

\* Mutant: the cursor is the round that was read to see that there is more.
NextCursorAfterExtra == Least(Newest(asked.maxPoints + 1))

NextCursor == Least(Page)

NextPage ==
    /\ reading = "pages"
    /\ IF HasMore
       THEN /\ cursor' = NextCursor
            /\ seen' = seen \cup Page
            /\ owed' = owed \ Page
            /\ UNCHANGED <<reading, asked>>
       ELSE /\ reading' = "nothing" /\ asked' = Nothing
            /\ cursor' = MaxNow + 1 /\ seen' = {} /\ owed' = {}
    /\ UNCHANGED <<resolution, rows, database>>

ReaderStep ==
    \/ \E p \in Pairs, q \in Requests : AskSeries(p, q)
    \/ ReadBuckets \/ EndSeries
    \/ \E p \in Pairs, limit \in Limits : AskPages(p, limit)
    \/ NextPage

\* A sweep of retention ends in the tick it began in: between what it keeps of rounds and what
\* it keeps of rows there is more than a sweep may last.
SeriesNext ==
    \/ Tick /\ sweep = "idle" /\ UNCHANGED reader
    \/ Work /\ UNCHANGED reader
    \/ ReaderStep

SeriesSpec == SeriesInit /\ [][SeriesNext]_<<vars, reader>>

-----------------------------------------------------------------------------
(***************************************************************************)
(* Properties.                                                             *)
(***************************************************************************)

\* The rounds that a point stands for.
RoundsOf(point) == {tagged[2] : tagged \in point.rounds}

\* However the workers interleave with the statements, the points are no more than asked
\* for, each lies where its rounds do, and a round of the range that is in the database
\* is in one of them, unless a row that was written since the rows were read hides it, or
\* a row leaves it out; of raw rounds fewer than maxPoints seconds at the end are cut off.
RoundsShown ==
    Answering =>
        LET answer == Answer
            layout == answer.layout
            shown == UNION {RoundsOf(answer.points[i]) : i \in DOMAIN answer.points}
            row(t) == rollup[asked.pair][resolution][BucketOf(t, resolution)]
        IN  /\ layout.number <= asked.maxPoints
            /\ \A i \in DOMAIN answer.points : \A t \in RoundsOf(answer.points[i]) :
                    /\ layout.start + i * layout.width <= t
                    /\ t < layout.start + (i + 1) * layout.width
            /\ \A t \in Between(raw[asked.pair], asked.from, asked.to) \ shown :
                    IF reading = "raw" THEN asked.to - t < asked.maxPoints
                    ELSE /\ row(t) # {}
                         /\ t \in row(t) => rows[BucketOf(t, resolution)] # row(t)

\* A round is counted once, although retention deletes rows between the statements and the
\* rounds of a deleted row count as rounds without a row: it deletes the rounds first.
NoRoundTwice ==
    Answering =>
        LET points == Answer.points
        IN  \A i \in DOMAIN points :
                Cardinality(RoundsOf(points[i])) = Cardinality(points[i].rounds)

\* Whatever a point was merged from, it is missing when it has no round, observed when one
\* of its rounds was executed, and its quantiles are, up to one rank, those of the latencies
\* of all its rounds.
Tells(point, rounds) ==
    LET all == HistogramOf(rounds)
        n == Samples(all)
        Rank(bin, percent) ==
            /\ 100 * (UpTo(all, bin) + 1) >= percent * n
            /\ 100 * (UpTo(all, bin - 1) - 1) <= percent * n
    IN  /\ point.status = "missing" <=> rounds = {}
        /\ (\E t \in rounds : Ended[t] \in {"complete", "partial"}) => point.status = "observed"
        /\ (\A t \in rounds : Ended[t] \in {"skipped", "cancelled"}) => point.status # "observed"
        /\ point.p50 = NoLatency <=> n = 0
        /\ n # 0 => Rank(point.p50, 50) /\ Rank(point.p95, 95)

PointsTell ==
    Answering =>
        LET points == Answer.points
        IN  \A i \in DOMAIN points : Tells(points[i], RoundsOf(points[i]))

\* "Cursor pages do not lose or repeat records": rounds are stored and deleted between the
\* pages, the late ones behind the cursor, and still no page repeats a round, and those that
\* were there from the first page to the last are all returned.
PagesExact ==
    reading = "pages" =>
        /\ Page \cap seen = {}
        /\ ~HasMore => owed \cap raw[asked.pair] \subseteq Page
        /\ \A t \in owed \cap raw[asked.pair] : t < cursor
=============================================================================
