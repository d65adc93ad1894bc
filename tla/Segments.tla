------------------------------ MODULE Segments ------------------------------
(***************************************************************************)
(* buildSegments of httpengine: the byte ranges a download is divided      *)
(* into, one connection each.  The loop cuts off `size' bytes at a time    *)
(* and gives the remainder to the last range; what it has in `start' when  *)
(* it comes to range k is (k - 1) * size, which is written out here.       *)
(***************************************************************************)
EXTENDS Integers

CONSTANT MinSegmentSize   \* minSegmentSize

ASSUME MinSegmentSizeAssumption == MinSegmentSize \in Nat \ {0}

Smaller(a, b) == IF a < b THEN a ELSE b
AtLeastOne(n) == IF n < 1 THEN 1 ELSE n

\* How many ranges: no more than connections, none below the least size.
Pieces(total, maxConn) ==
    AtLeastOne(Smaller(AtLeastOne(maxConn), total \div MinSegmentSize))

\* n ranges of [0, total - 1], each with its first byte still to come.
BoundedSegments(total, n) ==
    LET size == total \div n
    IN  [k \in 1 .. n |->
            [start   |-> (k - 1) * size,
             current |-> (k - 1) * size,
             end     |-> IF k = n THEN total - 1 ELSE k * size - 1]]

\* One range without an end, when the server does not support ranges or does
\* not say how large the file is.
Unbounded == [k \in 1 .. 1 |-> [start |-> 0, current |-> 0, end |-> -1]]

BuildSegments(total, maxConn, rangesSupported) ==
    IF rangesSupported /\ total > 0
    THEN BoundedSegments(total, Pieces(total, maxConn))
    ELSE Unbounded
=============================================================================
