----------------------------- MODULE MCGapRepair -----------------------------
EXTENDS GapRepair

Session(from, to) == [start |-> from, end |-> to]

\* Open throughout; a break inside an hour; a close between two hours; a
\* session that follows another within an hour.
MCMarkets ==
    {{Session(0, 20)},
     {Session(0, 5), Session(7, 20)},
     {Session(2, 6), Session(8, 20)},
     {Session(0, 7), Session(7, 20)}}
=============================================================================
