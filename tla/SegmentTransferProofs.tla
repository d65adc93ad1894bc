------------------------ MODULE SegmentTransferProofs ------------------------
(***************************************************************************)
(* TransferInv is inductive, for every size, number of connections,        *)
(* retries and mirrors: a complete download is the whole content, and the  *)
(* sidecar is never ahead of the file.                                     *)
(***************************************************************************)
EXTENDS SegmentTransfer, FiniteSetTheorems, TLAPS

-----------------------------------------------------------------------------
(* buildSegments divides a file without gap or overlap, for every size and *)
(* every number of connections.                                            *)

LEMMA DivisionBounds ==
    ASSUME NEW a \in Nat, NEW n \in Nat \ {0}
    PROVE  /\ a \div n \in Nat
           /\ n * (a \div n) <= a
           /\ a < n * (a \div n) + n
  BY SMT

\* Products with natural numbers grow with either factor.
LEMMA ProductGrows ==
    ASSUME NEW a \in Nat, NEW b \in Nat, NEW c \in Nat, a <= b
    PROVE  a * c <= b * c /\ a * c \in Nat /\ b * c \in Nat
<1>1. (b - a) * c >= 0 /\ (b - a) * c = b * c - a * c
  BY SMT
<1>2. QED
  BY <1>1, SMT

LEMMA OneMore ==
    ASSUME NEW q \in Nat, NEW c \in Nat
    PROVE  (q + 1) * c = c * q + c /\ q * c = c * q
  BY SMT

LEMMA Sized ==
    ASSUME NEW total \in Nat \ {0}, NEW maxConn \in Int
    PROVE  /\ Pieces(total, maxConn) \in 1 .. total
           /\ Pieces(total, maxConn) <= AtLeastOne(maxConn)
<1>1. total \div MinSegmentSize \in Nat /\ total \div MinSegmentSize <= total
  BY DivisionBounds, MinSegmentSizeAssumption, SMT
<1>2. QED
  BY <1>1 DEF Pieces, Smaller, AtLeastOne

\* The ranges lie within the file, none is empty, and none is begun.
LEMMA WithinFile ==
    ASSUME NEW total \in Nat \ {0}, NEW n \in 1 .. total, NEW k \in 1 .. n
    PROVE  LET s == BoundedSegments(total, n)[k]
           IN  /\ s = [start |-> s.start, current |-> s.start, end |-> s.end]
               /\ s.start \in 0 .. total - 1
               /\ s.end \in 0 .. total - 1
               /\ s.start <= s.end
<1> DEFINE size == total \div n
           s == BoundedSegments(total, n)[k]
<1>1. size \in Nat \ {0} /\ n * size <= total
  <2>1. size \in Nat /\ n * size <= total /\ total < n * size + n
    BY DivisionBounds
  <2>2. size # 0
    BY <2>1, SMT
  <2>3. QED
    BY <2>1, <2>2
<1> HIDE DEF size
<1>2. /\ s = [start |-> (k - 1) * size, current |-> (k - 1) * size,
              end |-> IF k = n THEN total - 1 ELSE k * size - 1]
      /\ n \in Nat /\ k \in Nat /\ k - 1 \in Nat /\ k <= n
  BY DEF BoundedSegments, size
<1>3. (k - 1) * size \in Nat /\ k * size \in Nat /\ k * size <= n * size
  BY <1>1, <1>2, ProductGrows
<1>4. k * size = (k - 1) * size + size
  BY <1>1, <1>2, SMT
<1> HIDE DEF s
<1>5. (k - 1) * size + size <= total
  BY <1>1, <1>3, <1>4
<1>6. s.start = (k - 1) * size /\ s.current = (k - 1) * size
      /\ s.end = IF k = n THEN total - 1 ELSE (k - 1) * size + size - 1
  BY <1>1, <1>2, <1>3, <1>4
<1>7. s.start \in 0 .. total - 1 /\ s.end \in 0 .. total - 1 /\ s.start <= s.end
  BY <1>1, <1>3, <1>5, <1>6
<1>8. s = [start |-> s.start, current |-> s.start, end |-> s.end]
  BY <1>2
<1>9. QED
  BY <1>7, <1>8 DEF s

\* Each range begins where the one before it ends: no byte is fetched twice.
THEOREM Contiguous ==
    ASSUME NEW total \in Nat \ {0}, NEW n \in 1 .. total
    PROVE  LET segs == BoundedSegments(total, n)
           IN  /\ segs[1].start = 0
               /\ segs[n].end = total - 1
               /\ \A k \in 1 .. n - 1 : segs[k + 1].start = segs[k].end + 1
<1> DEFINE size == total \div n
<1>1. size \in Nat
  BY DivisionBounds
<1> HIDE DEF size
<1>2. /\ BoundedSegments(total, n)[1].start = (1 - 1) * size
      /\ BoundedSegments(total, n)[n].end = total - 1
      /\ \A k \in 1 .. n - 1 :
            /\ BoundedSegments(total, n)[k + 1].start = (k + 1 - 1) * size
            /\ BoundedSegments(total, n)[k].end = k * size - 1
  BY DEF BoundedSegments, size
<1>3. (1 - 1) * size = 0 /\ \A k \in 1 .. n - 1 : (k + 1 - 1) * size = k * size - 1 + 1
  BY <1>1, SMT
<1>4. QED
  BY <1>2, <1>3

\* Every byte of the file is in a range: none is left out.
THEOREM Covered ==
    ASSUME NEW total \in Nat \ {0}, NEW n \in 1 .. total, NEW b \in 0 .. total - 1
    PROVE  \E k \in 1 .. n : b \in BoundedSegments(total, n)[k].start
                                      .. BoundedSegments(total, n)[k].end
<1> DEFINE size == total \div n
           k == IF b \div size < n THEN b \div size + 1 ELSE n
<1>1. size \in Nat \ {0} /\ n * size <= total
  <2>1. size \in Nat /\ n * size <= total /\ total < n * size + n
    BY DivisionBounds
  <2>2. QED
    BY <2>1, SMT
<1>2. /\ b \div size \in Nat
      /\ size * (b \div size) <= b
      /\ b < size * (b \div size) + size
  BY <1>1, DivisionBounds
<1>3. k \in 1 .. n /\ k - 1 \in Nat /\ k - 1 <= b \div size
  BY <1>2
<1>4. (k - 1) * size <= b
  <2>1. (k - 1) * size <= (b \div size) * size
    BY <1>1, <1>2, <1>3, ProductGrows
  <2>2. (b \div size) * size = size * (b \div size)
    BY <1>1, <1>2, OneMore
  <2>3. QED
    BY <1>1, <1>2, <1>3, <2>1, <2>2, SMT
<1>5. k # n => b <= k * size - 1
  <2>1. SUFFICES ASSUME k # n PROVE b <= k * size - 1
    OBVIOUS
  <2>2. k = b \div size + 1
    BY <2>1
  <2>3. (b \div size + 1) * size = size * (b \div size) + size
    BY <1>1, <1>2, OneMore
  <2>4. QED
    BY <1>1, <1>2, <2>2, <2>3
<1>6. /\ BoundedSegments(total, n)[k].start = (k - 1) * size
      /\ BoundedSegments(total, n)[k].end = IF k = n THEN total - 1 ELSE k * size - 1
  BY <1>3 DEF BoundedSegments
<1> HIDE DEF k, size
<1>7. (k - 1) * size \in Int /\ k * size \in Int
  BY <1>1, <1>3, SMT
<1>8. QED
  BY <1>3, <1>4, <1>5, <1>6, <1>7

-----------------------------------------------------------------------------
(* What the transfer makes of the ranges.                                  *)

Made(r) == BuildSegments(Total, MaxConn, r)

\* The bytes of a segment that have been fetched, and all of them.
Begun(s) == s.start .. s.current - 1
Whole(s) == s.start .. Limit(s) - 1

-----------------------------------------------------------------------------
(* Lists of segments.                                                      *)

\* A list has a segment for some of the connections, each of its type.
LEMMA ListFacts ==
    ASSUME NEW segs \in SegmentLists
    PROVE  /\ DOMAIN segs \subseteq Connections
           /\ IsFiniteSet(DOMAIN segs)
           /\ \A k \in DOMAIN segs :
                 /\ segs[k] \in Segment
                 /\ Limit(segs[k]) \in 0 .. Size
<1>1. PICK n \in 0 .. MaxConn : segs \in [1 .. n -> Segment]
  BY DEF SegmentLists
<1>2. DOMAIN segs = 1 .. n /\ n \in Int
  BY <1>1, LimitsAssumption
<1>3. DOMAIN segs \subseteq Connections
  BY <1>1, <1>2, LimitsAssumption DEF Connections
<1>4. IsFiniteSet(DOMAIN segs)
  BY <1>2, FS_Interval
<1>5. \A k \in DOMAIN segs : segs[k] \in Segment
  BY <1>1, <1>2
<1>6. \A s \in Segment : Limit(s) \in 0 .. Size
  BY SizeAssumption DEF Segment, Limit
<1> QED
  BY <1>3, <1>4, <1>5, <1>6

\* Two lists have the same ranges.
SameRanges(a, b) ==
    /\ DOMAIN b = DOMAIN a
    /\ \A j \in DOMAIN a :
          b[j].start = a[j].start /\ b[j].end = a[j].end /\ Limit(b[j]) = Limit(a[j])

\* Moving one resume point leaves the rest of the list as it is.
LEMMA ListExcept ==
    ASSUME NEW segs \in SegmentLists, NEW k \in DOMAIN segs, NEW c \in 0 .. Size,
           NEW new, new = [segs EXCEPT ![k].current = c]
    PROVE  /\ new \in SegmentLists
           /\ SameRanges(segs, new)
           /\ new[k].current = c
           /\ \A j \in DOMAIN segs \ {k} : new[j] = segs[j]
<1>1. PICK n \in 0 .. MaxConn : segs \in [1 .. n -> Segment]
  BY DEF SegmentLists
<1>2. new \in [1 .. n -> Segment]
  BY <1>1 DEF Segment
<1>3. new \in SegmentLists
  BY <1>2 DEF SegmentLists
<1>4. /\ DOMAIN new = DOMAIN segs
      /\ new[k].current = c
      /\ \A j \in DOMAIN segs : new[j].start = segs[j].start /\ new[j].end = segs[j].end
      /\ \A j \in DOMAIN segs \ {k} : new[j] = segs[j]
  BY <1>1 DEF Segment
<1>5. \A j \in DOMAIN segs : Limit(new[j]) = Limit(segs[j])
  BY <1>4 DEF Limit
<1> QED
  BY <1>3, <1>4, <1>5 DEF SameRanges

\* What buildSegments makes for the size the servers tell, or do not: at least
\* one segment, none begun, and a range for every byte.
LEMMA MadeFacts ==
    ASSUME NEW r \in BOOLEAN
    PROVE  /\ Made(r) \in SegmentLists
           /\ DOMAIN Made(r) # {}
           /\ \A k \in DOMAIN Made(r) :
                 /\ Made(r)[k].current = Made(r)[k].start
                 /\ Made(r)[k].start <= Limit(Made(r)[k])
                 /\ ~r => Made(r)[k].start = 0
           /\ \A b \in Bytes : \E k \in DOMAIN Made(r) : b \in Whole(Made(r)[k])
<1>1. CASE ~(r /\ Total > 0)
  <2>1. Made(r) = [k \in 1 .. 1 |-> [start |-> 0, current |-> 0, end |-> -1]]
    BY <1>1 DEF Made, BuildSegments, Unbounded
  <2>2. [start |-> 0, current |-> 0, end |-> -1] \in Segment
    BY SizeAssumption DEF Segment
  <2>3. Made(r) \in SegmentLists
    BY <2>1, <2>2, LimitsAssumption DEF SegmentLists
  <2>4. Limit([start |-> 0, current |-> 0, end |-> -1]) = Size
    BY SizeAssumption DEF Limit
  <2> QED
    BY <2>1, <2>3, <2>4, SizeAssumption DEF Whole, Bytes
<1>2. CASE r /\ Total > 0
  <2> DEFINE n == Pieces(Size, MaxConn)
  <2>1. Total = Size
    BY <1>2 DEF Total
  <2>2. n \in 1 .. Size /\ n \in 0 .. MaxConn /\ 1 \in 1 .. n
    BY Sized, SizeAssumption, LimitsAssumption DEF AtLeastOne
  <2>3. Made(r) = BoundedSegments(Size, n)
    BY <1>2, <2>1 DEF Made, BuildSegments
  <2> HIDE DEF n
  <2>4. DOMAIN Made(r) = 1 .. n
    BY <2>3 DEF BoundedSegments
  <2>5. \A k \in 1 .. n :
           /\ Made(r)[k] = [start |-> Made(r)[k].start, current |-> Made(r)[k].start,
                            end |-> Made(r)[k].end]
           /\ Made(r)[k].start \in 0 .. Size - 1
           /\ Made(r)[k].end \in 0 .. Size - 1
           /\ Made(r)[k].start <= Made(r)[k].end
    BY <2>2, <2>3, WithinFile, SizeAssumption
  <2>6. \A k \in 1 .. n :
           /\ Made(r)[k] \in Segment
           /\ Made(r)[k].current = Made(r)[k].start
           /\ Made(r)[k].end \in Int
           /\ Limit(Made(r)[k]) = Made(r)[k].end + 1
           /\ Made(r)[k].start <= Limit(Made(r)[k])
    <3> TAKE k \in 1 .. n
    <3> DEFINE a == Made(r)[k].start
               e == Made(r)[k].end
    <3>1. Made(r)[k] = [start |-> a, current |-> a, end |-> e]
          /\ a \in 0 .. Size - 1 /\ e \in 0 .. Size - 1 /\ a <= e
      BY <2>5
    <3> HIDE DEF a, e
    <3> QED
      BY <3>1, SizeAssumption DEF Segment, Limit
  <2>7. Made(r) \in [1 .. n -> Segment]
    BY <2>3, <2>6 DEF BoundedSegments
  <2>8. Made(r) \in SegmentLists
    BY <2>2, <2>7 DEF SegmentLists
  <2>9. ASSUME NEW b \in Bytes PROVE \E k \in 1 .. n : b \in Whole(Made(r)[k])
    <3>1. PICK k \in 1 .. n : b \in Made(r)[k].start .. Made(r)[k].end
      BY <2>2, <2>3, Covered, SizeAssumption DEF Bytes
    <3>2. Made(r)[k].end \in Int /\ Limit(Made(r)[k]) = Made(r)[k].end + 1
      BY <2>6
    <3>3. Limit(Made(r)[k]) - 1 = Made(r)[k].end
      BY <3>2
    <3> QED
      BY <3>1, <3>3 DEF Whole
  <2> QED
    BY <1>2, <2>2, <2>4, <2>6, <2>8, <2>9
<1> QED
  BY <1>1, <1>2

\* The sum of what has been fetched is a number.
LEMMA BytesFetchedType ==
    ASSUME NEW segs \in SegmentLists
    PROVE  BytesFetched(segs) \in Nat
<1> DEFINE pairs == (DOMAIN segs) \X Bytes
<1>1. IsFiniteSet(DOMAIN segs) /\ IsFiniteSet(Bytes)
  BY ListFacts, FS_Interval, SizeAssumption DEF Bytes
<1>2. IsFiniteSet(pairs)
  BY <1>1, FS_Product
<1>3. \A S \in SUBSET pairs : Cardinality(S) \in Nat
  BY <1>2, FS_Subset, FS_CardinalityType
<1> QED
  BY <1>3 DEF BytesFetched

\* The values that stand for nothing.
LEMMA Nothing ==
    /\ NoSegments \in SegmentLists /\ DOMAIN NoSegments = {}
    /\ NoSnapshot \in Snapshots
    /\ AllOff \in [Workers -> {"off", "ask", "read", "wrote", "save", "opened", "check"}]
    /\ AllZero \in [Workers -> 0 .. Size] /\ AllZero \in [Workers -> 0 .. MaxRetries]
    /\ NoSnapshots \in [Workers -> Snapshots]
<1>1. DOMAIN NoSegments = {} /\ NoSegments \in [1 .. 0 -> Segment]
  BY DEF NoSegments
<1>2. NoSegments \in SegmentLists
  BY <1>1, LimitsAssumption DEF SegmentLists
<1>3. NoSnapshot \in Snapshots
  BY <1>2 DEF NoSnapshot, Snapshots
<1> QED
  BY <1>1, <1>2, <1>3, SizeAssumption, LimitsAssumption DEF AllOff, AllZero, NoSnapshots

-----------------------------------------------------------------------------
(* What is in the file.                                                    *)

\* A list is in the file when each of its segments is.
LEMMA FetchedEach ==
    ASSUME NEW segs, NEW f
    PROVE  Fetched(segs) \subseteq f <=> \A k \in DOMAIN segs : Begun(segs[k]) \subseteq f
BY DEF Fetched, Begun

\* A plan stays in the file while the file grows.
LEMMA BackedGrows ==
    ASSUME NEW f, NEW g, f \subseteq g, NEW p, Backed(p, f)
    PROVE  Backed(p, g)
BY DEF Backed

\* Nothing has been claimed by an empty plan, nor by a fresh one.
LEMMA EmptyBacked ==
    ASSUME NEW p, DOMAIN p.segments = {}, NEW f
    PROVE  Backed(p, f)
BY FetchedEach DEF Shaped, Backed

\* What New finds is the sidecar, or nothing: it claims no more.
LEMMA FoundBacked ==
    ASSUME NEW f, Backed(sidecar.snapshot, f), NEW found \in {sidecar, Absent}
    PROVE  Backed(found.snapshot, f)
<1>1. CASE found = Absent
  <2>1. DOMAIN found.snapshot.segments = {}
    BY <1>1, Nothing DEF Absent, NoSnapshot
  <2> QED
    BY <2>1, EmptyBacked
<1>2. CASE found = sidecar
  BY <1>2
<1> QED
  BY <1>1, <1>2

LEMMA FoundType ==
    ASSUME TypeOK, NEW found \in {sidecar, Absent}
    PROVE  found.snapshot \in Snapshots
BY Nothing, SizeAssumption DEF TypeOK, Absent

LEMMA FreshBacked ==
    ASSUME NEW r \in BOOLEAN, NEW f
    PROVE  Backed([ranged |-> r, segments |-> Made(r)], f)
<1>1. \A k \in DOMAIN Made(r) :
         Made(r)[k].current \in Made(r)[k].start .. Limit(Made(r)[k])
  <2> TAKE k \in DOMAIN Made(r)
  <2>1. Made(r)[k] \in Segment /\ Limit(Made(r)[k]) \in 0 .. Size
    BY MadeFacts, ListFacts
  <2> QED
    BY <2>1, MadeFacts, SizeAssumption DEF Segment
<1>2. \A k \in DOMAIN Made(r) : Begun(Made(r)[k]) = {}
  <2> TAKE k \in DOMAIN Made(r)
  <2>1. Made(r)[k].start \in Int /\ Made(r)[k].current = Made(r)[k].start
    BY MadeFacts, ListFacts, SizeAssumption DEF Segment
  <2> QED
    BY <2>1 DEF Begun
<1>3. Fetched(Made(r)) \subseteq f
  BY <1>2, FetchedEach
<1> QED
  BY <1>1, <1>3 DEF Backed, Shaped, Made

\* A resume point may be moved to any place its bytes have got to.
LEMMA BackedMoved ==
    ASSUME NEW r \in BOOLEAN, NEW segs \in SegmentLists, NEW k \in DOMAIN segs,
           NEW c \in segs[k].start .. Limit(segs[k]),
           NEW f,
           Backed([ranged |-> r, segments |-> segs], f),
           segs[k].start .. c - 1 \subseteq f,
           NEW new, new = [segs EXCEPT ![k].current = c]
    PROVE  Backed([ranged |-> r, segments |-> new], f)
<1>1. c \in 0 .. Size
  BY ListFacts, SizeAssumption DEF Segment
<1>2. /\ DOMAIN new = DOMAIN segs
      /\ new[k].current = c
      /\ \A j \in DOMAIN segs : new[j].start = segs[j].start /\ new[j].end = segs[j].end
      /\ \A j \in DOMAIN segs \ {k} : new[j] = segs[j]
  BY <1>1, ListExcept DEF SameRanges
<1>3. /\ DOMAIN segs = DOMAIN Made(r)
      /\ \A j \in DOMAIN segs :
            /\ segs[j].start = Made(r)[j].start /\ segs[j].end = Made(r)[j].end
            /\ segs[j].current \in Made(r)[j].start .. Limit(Made(r)[j])
  BY DEF Backed, Shaped, Made
<1>4. Limit(segs[k]) = Limit(Made(r)[k])
  BY <1>3 DEF Limit
<1>5. \A j \in DOMAIN segs :
         /\ new[j].start = Made(r)[j].start /\ new[j].end = Made(r)[j].end
         /\ new[j].current \in Made(r)[j].start .. Limit(Made(r)[j])
  BY <1>2, <1>3, <1>4
<1>6. Shaped([ranged |-> r, segments |-> new])
  BY <1>2, <1>3, <1>5 DEF Shaped, Made
<1>7. \A j \in DOMAIN segs : Begun(segs[j]) \subseteq f
  BY FetchedEach DEF Backed
<1>8. \A j \in DOMAIN new : Begun(new[j]) \subseteq f
  BY <1>2, <1>7 DEF Begun
<1>9. Fetched(new) \subseteq f
  BY <1>8, FetchedEach
<1> QED
  BY <1>6, <1>9 DEF Backed

-----------------------------------------------------------------------------
(* What the invariant says of one segment, and the two moves of a resume   *)
(* point.                                                                  *)

LEMMA AtWork ==
    ASSUME TransferInv, NEW k \in Connections, pc[k] # "off"
    PROVE  /\ run = "fetch" /\ status = "active"
           /\ k \in DOMAIN segments
           /\ segments[k].start \in 0 .. Size
           /\ BodyEnd(k) \in 0 .. Size
           /\ offset[k] \in 0 .. Size
           /\ pc[k] \in {"read", "wrote", "save", "opened", "check"} =>
                 /\ offset[k] \in segments[k].start .. BodyEnd(k)
                 /\ segments[k].start .. offset[k] - 1 \subseteq file
<1>1. run = "fetch" /\ k \in DOMAIN segments
  BY DEF TransferInv, Discipline
<1>2. status = "active"
  BY <1>1 DEF TransferInv, Discipline
<1>3. segments \in SegmentLists /\ offset[k] \in 0 .. Size
  BY DEF TransferInv, TypeOK, Workers, Connections
<1>4. segments[k] \in Segment /\ Limit(segments[k]) \in 0 .. Size
  BY <1>1, <1>3, ListFacts
<1> QED
  BY <1>1, <1>2, <1>3, <1>4 DEF BodyEnd, Segment, TransferInv, WrittenBeforeRecorded

\* The resume points of the plan move, to where its bytes have got to.
PlanMoved ==
    /\ segments' \in SegmentLists
    /\ SameRanges(segments, segments')
    /\ Backed([ranged |-> ranged, segments |-> segments'], file)

LEMMA StartOverEffect ==
    ASSUME TransferInv, NEW k \in Connections, StartOver(k)
    PROVE  /\ PlanMoved
           /\ downloaded' \in Nat
           /\ segments'[k].current \in segments[k].start .. BodyEnd(k)
           /\ segments[k].start .. segments'[k].current - 1 \subseteq file
<1>1. /\ k \in DOMAIN segments /\ segments \in SegmentLists
      /\ ranged \in BOOLEAN /\ downloaded \in Nat
  BY AtWork DEF StartOver, TransferInv, TypeOK
<1>2. segments[k] \in Segment /\ BodyEnd(k) \in 0 .. Size
  BY <1>1, ListFacts DEF BodyEnd
<1>3. Backed([ranged |-> ranged, segments |-> segments], file)
  BY DEF TransferInv, AllBacked
<1>4. segments[k].current \in segments[k].start .. BodyEnd(k)
  BY <1>1, <1>3 DEF Backed, Shaped, BodyEnd, Limit
<1>5. segments[k].start .. segments[k].current - 1 \subseteq file
  BY <1>1, <1>3, FetchedEach DEF Begun, Backed
<1>6. CASE ranged
  <2>1. segments' = segments /\ downloaded' = downloaded
    BY <1>1, <1>6 DEF StartOver
  <2>2. SameRanges(segments, segments')
    BY <2>1 DEF SameRanges
  <2> QED
    BY <1>1, <1>3, <1>4, <1>5, <2>1, <2>2 DEF PlanMoved
<1>7. CASE ~ranged
  <2>1. segments' = [segments EXCEPT ![k].current = 0] /\ downloaded' = 0
    BY <1>7 DEF StartOver
  <2>2. segments[k].start = 0
    <3>1. k \in DOMAIN Made(ranged) /\ segments[k].start = Made(ranged)[k].start
      BY <1>1, <1>3 DEF Backed, Shaped, Made
    <3> QED
      BY <1>1, <1>7, <3>1, MadeFacts
  <2>3. 0 \in segments[k].start .. Limit(segments[k]) /\ 0 \in 0 .. Size
        /\ segments[k].start .. 0 - 1 \subseteq file
    BY <1>2, <2>2, SizeAssumption DEF BodyEnd
  <2>4. Backed([ranged |-> ranged, segments |-> segments'], file)
    BY <1>1, <1>3, <2>1, <2>3, BackedMoved
  <2>5. segments' \in SegmentLists
    BY <1>1, <2>1, <2>3, ListExcept
  <2>6. SameRanges(segments, segments')
    BY <1>1, <2>1, <2>3, ListExcept
  <2>7. segments'[k].current = 0
    BY <1>1, <2>1, <2>3, ListExcept
  <2> QED
    BY <2>1, <2>2, <2>3, <2>4, <2>5, <2>6, <2>7 DEF PlanMoved, BodyEnd
<1> QED
  BY <1>6, <1>7

LEMMA RecordEffect ==
    ASSUME TransferInv, NEW k \in Connections, Record(k)
    PROVE  PlanMoved
<1>1. /\ k \in DOMAIN segments /\ segments \in SegmentLists
      /\ ranged \in BOOLEAN
      /\ offset[k] \in 0 .. Size
      /\ offset[k] \in segments[k].start .. Limit(segments[k])
      /\ segments[k].start .. offset[k] - 1 \subseteq file
      /\ segments' = [segments EXCEPT ![k].current = offset[k]]
  BY AtWork DEF Record, TransferInv, TypeOK, BodyEnd
<1>2. Backed([ranged |-> ranged, segments |-> segments], file)
  BY DEF TransferInv, AllBacked
<1>3. Backed([ranged |-> ranged, segments |-> segments'], file)
  BY <1>1, <1>2, BackedMoved
<1>4. segments' \in SegmentLists
  BY <1>1, ListExcept
<1>5. SameRanges(segments, segments')
  BY <1>1, ListExcept
<1> QED
  BY <1>3, <1>4, <1>5 DEF PlanMoved

-----------------------------------------------------------------------------
(* Typing.                                                                 *)

LEMMA TypeInit == Init => TypeOK
<1> SUFFICES ASSUME Init PROVE TypeOK
  OBVIOUS
<1>1. sidecar \in [kind : {"absent", "torn", "spoiled", "saved"}, snapshot : Snapshots]
  BY Nothing DEF Init, Absent
<1>2. segments \in SegmentLists /\ file \subseteq Bytes /\ mirror \in 1 .. Mirrors
  BY Nothing, LimitsAssumption DEF Init
<1>3. /\ pc \in [Workers -> {"off", "ask", "read", "wrote", "save", "opened", "check"}]
      /\ offset \in [Workers -> 0 .. Size]
      /\ snap \in [Workers -> Snapshots]
      /\ tries \in [Workers -> 0 .. MaxRetries]
  BY Nothing DEF Init
<1> QED
  BY <1>1, <1>2, <1>3 DEF Init, TypeOK

\* The plan a segment's goroutine takes with it.
LEMMA SnapshotType ==
    ASSUME TypeOK, NEW w \in Workers, NEW r \in BOOLEAN, NEW segs \in SegmentLists
    PROVE  [snap EXCEPT ![w] = [ranged |-> r, segments |-> segs]] \in [Workers -> Snapshots]
<1>1. [ranged |-> r, segments |-> segs] \in Snapshots
  BY DEF Snapshots
<1>2. snap \in [Workers -> Snapshots]
  BY DEF TypeOK
<1> QED
  BY <1>1, <1>2

\* A goroutine moves on, tries again, or leaves.
LEMMA GoesType ==
    ASSUME TypeOK, NEW w \in Workers,
           NEW next \in {"off", "ask", "read", "wrote", "save", "opened", "check"},
           GoesTo(w, next)
    PROVE  /\ status' = status /\ run' = run /\ mirror' = mirror
           /\ ctxDone' = ctxDone /\ pausing' = pausing
           /\ pc' \in [Workers -> {"off", "ask", "read", "wrote", "save", "opened", "check"}]
BY DEF TypeOK, GoesTo

LEMMA LeaveType ==
    ASSUME TypeOK, NEW k \in Connections, NEW err \in {"none", "fault", "cancelled"},
           Leave(k, err)
    PROVE  /\ status' = status /\ run' = run /\ mirror' = mirror
           /\ ctxDone' = ctxDone /\ pausing' = pausing
           /\ pc' \in [Workers -> {"off", "ask", "read", "wrote", "save", "opened", "check"}]
           /\ offset' \in [Workers -> 0 .. Size]
           /\ firstErr' \in {"none", "fault", "cancelled"}
           /\ snap' = snap /\ tries' = tries
<1>1. k \in Workers
  BY LimitsAssumption DEF Connections, Workers
<1>2. offset' \in [Workers -> 0 .. Size]
  BY <1>1, SizeAssumption DEF Leave, TypeOK
<1> QED
  BY <1>1, <1>2, GoesType DEF Leave, TypeOK

LEMMA TryAgainType ==
    ASSUME TypeOK, NEW k \in Connections, TryAgain(k)
    PROVE  /\ status' = status /\ run' = run /\ mirror' = mirror
           /\ ctxDone' = ctxDone /\ pausing' = pausing
           /\ pc' \in [Workers -> {"off", "ask", "read", "wrote", "save", "opened", "check"}]
           /\ offset' \in [Workers -> 0 .. Size]
           /\ tries' \in [Workers -> 0 .. MaxRetries]
           /\ firstErr' \in {"none", "fault", "cancelled"}
           /\ snap' = snap
<1>1. k \in Workers
  BY LimitsAssumption DEF Connections, Workers
<1>2. CASE tries[k] = MaxRetries /\ Leave(k, "fault")
  BY <1>2, LeaveType DEF TypeOK
<1>3. CASE /\ tries[k] < MaxRetries
           /\ tries' = [tries EXCEPT ![k] = @ + 1]
           /\ offset' = [offset EXCEPT ![k] = 0]
           /\ GoesTo(k, "ask")
           /\ UNCHANGED <<snap, firstErr>>
  <2>1. tries' \in [Workers -> 0 .. MaxRetries]
    BY <1>1, <1>3, LimitsAssumption DEF TypeOK
  <2>2. offset' \in [Workers -> 0 .. Size]
    BY <1>1, <1>3, SizeAssumption DEF TypeOK
  <2> QED
    BY <1>1, <1>3, <2>1, <2>2, GoesType DEF TypeOK
<1> QED
  BY <1>2, <1>3 DEF TryAgain

LEMMA TypeStep == TransferInv /\ [Next]_vars => TypeOK'
<1> SUFFICES ASSUME TransferInv, [Next]_vars PROVE TypeOK'
  OBVIOUS
<1>0. TypeOK /\ 0 \in Workers /\ Connections \subseteq Workers /\ 1 \in 1 .. Mirrors
  BY LimitsAssumption DEF TransferInv, Workers, Connections
<1> USE <1>0 DEF plan, workers
<1>1. CASE Resume
  BY <1>1 DEF Resume, TypeOK
<1>2. CASE Pause
  BY <1>2 DEF Pause, TypeOK
<1>3. CASE PauseReturns
  BY <1>3 DEF PauseReturns, TypeOK
<1>4. CASE Probed
  <2>1. ranged' \in BOOLEAN /\ segments' = Made(ranged')
    BY <1>4 DEF Probed, Made
  <2>2. segments' \in SegmentLists
    BY <2>1, MadeFacts
  <2>3. snap' \in [Workers -> Snapshots]
    BY <1>4, <2>1, <2>2, SnapshotType DEF Probed, TypeOK
  <2> QED
    BY <1>4, <2>1, <2>2, <2>3 DEF Probed, Fail, TypeOK
<1>5. CASE ProbeFails
  BY <1>5 DEF ProbeFails, Stop, Fail, TypeOK
<1>21. CASE OpenFails
  <2>1. mirror' \in 1 .. Mirrors
    BY <1>21, LimitsAssumption DEF OpenFails, NextMirror, Fail, TypeOK
  <2>2. /\ status' \in {"active", "error"} \cup {status} /\ run' \in {"open", "off"}
        /\ ctxDone' = ctxDone /\ pausing' = pausing /\ firstErr' = firstErr /\ faulted' = TRUE
    BY <1>21 DEF OpenFails, NextMirror, Fail
  <2>3. UNCHANGED <<plan, workers, file, sidecar>>
    BY <1>21 DEF OpenFails
  <2> QED
    BY <2>1, <2>2, <2>3 DEF TypeOK, plan, workers
<1>6. CASE Open
  BY <1>6, Nothing DEF Open, TypeOK
<1>7. CASE Collect
  <2>1. sidecar' \in {sidecar, Absent}
    BY <1>7 DEF Collect, NextMirror
  <2>2. sidecar' \in [kind : {"absent", "torn", "spoiled", "saved"}, snapshot : Snapshots]
    BY <2>1, Nothing DEF Absent, TypeOK
  <2>3. mirror' \in 1 .. Mirrors
    BY <1>7, LimitsAssumption DEF Collect, NextMirror, Stop, Fail, TypeOK
  <2> QED
    BY <1>7, <2>2, <2>3 DEF Collect, NextMirror, Stop, Fail, TypeOK
<1>8. ASSUME NEW k \in Connections, Ask(k) PROVE TypeOK'
  <2>1. segments' \in SegmentLists /\ downloaded' \in Nat
        /\ segments'[k].current \in segments[k].start .. BodyEnd(k)
    BY <1>8, StartOverEffect DEF Ask, PlanMoved
  <2>2. segments'[k].current \in 0 .. Size
    BY <1>8, <2>1, AtWork, SizeAssumption DEF Ask, StartOver
  <2>3. offset' \in [Workers -> 0 .. Size]
    BY <1>8, <2>2 DEF Ask, TypeOK
  <2> QED
    BY <1>8, <2>1, <2>3, GoesType DEF Ask, StartOver, TypeOK
<1>9. ASSUME NEW k \in Connections, AskFails(k) PROVE TypeOK'
  <2>1. segments' \in SegmentLists /\ downloaded' \in Nat
    BY <1>9, StartOverEffect DEF AskFails, PlanMoved
  <2>2. faulted' \in BOOLEAN /\ ranged' = ranged /\ file' = file /\ sidecar' = sidecar
    BY <1>9 DEF AskFails, StartOver, TypeOK
  <2>3. CASE TryAgain(k)
    BY <2>1, <2>3, <2>2, TryAgainType DEF TypeOK
  <2>4. CASE Leave(k, "cancelled") /\ UNCHANGED faulted
    BY <2>1, <2>4, <2>2, LeaveType DEF TypeOK
  <2> QED
    BY <1>9, <2>3, <2>4 DEF AskFails
<1>10. ASSUME NEW k \in Connections, Write(k) PROVE TypeOK'
  <2>1. PICK n \in 1 .. BodyEnd(k) - offset[k] :
           /\ file' = file \cup (offset[k] .. offset[k] + n - 1)
           /\ offset' = [offset EXCEPT ![k] = @ + n]
           /\ downloaded' = downloaded + n
    BY <1>10 DEF Write
  <2>2. BodyEnd(k) \in 0 .. Size /\ offset[k] \in 0 .. Size
    BY <1>10, AtWork DEF Write
  <2>3. offset[k] + n \in 0 .. Size /\ n \in Nat
    BY <2>1, <2>2, SizeAssumption
  <2>4. offset[k] .. offset[k] + n - 1 \subseteq Bytes
    BY <2>2, <2>3, SizeAssumption DEF Bytes
  <2>5. file' \subseteq Bytes
    BY <2>1, <2>4 DEF TypeOK
  <2>6. offset' \in [Workers -> 0 .. Size] /\ downloaded' \in Nat
    BY <2>1, <2>3 DEF TypeOK
  <2> QED
    BY <1>10, <2>5, <2>6, GoesType DEF Write, TypeOK
<1>11. ASSUME NEW k \in Connections, Record(k) PROVE TypeOK'
  <2>1. segments' \in SegmentLists
    BY <1>11, RecordEffect DEF PlanMoved
  <2>2. snap' \in [Workers -> Snapshots]
    BY <1>11, <2>1, SnapshotType DEF Record, TypeOK
  <2> QED
    BY <1>11, <2>1, <2>2, GoesType DEF Record, TypeOK
<1>12. ASSUME NEW k \in Connections, EndOfBody(k) \/ ReadCancelled(k) PROVE TypeOK'
  <2>1. Leave(k, "none") \/ Leave(k, "cancelled")
    BY <1>12 DEF EndOfBody, ReadCancelled
  <2> QED
    BY <1>12, <2>1, LeaveType DEF EndOfBody, ReadCancelled, TypeOK
<1>13. ASSUME NEW k \in Connections, ReadOn(k) PROVE TypeOK'
  BY <1>13, GoesType DEF ReadOn, TypeOK
<1>14. ASSUME NEW k \in Connections, ReadFails(k) PROVE TypeOK'
  BY <1>14, TryAgainType DEF ReadFails, TypeOK
<1>15. ASSUME NEW w \in Workers, OpenSidecar(w) PROVE TypeOK'
  <2>1. Torn \in [kind : {"absent", "torn", "spoiled", "saved"}, snapshot : Snapshots]
    BY Nothing DEF Torn
  <2> QED
    BY <1>15, <2>1, GoesType DEF OpenSidecar, TypeOK
<1>16. ASSUME NEW w \in Workers, WriteSidecar(w) PROVE TypeOK'
  <2>1. sidecar' \in {Saved(snap[w]), Spoiled} /\ snap[w] \in Snapshots
    BY <1>16 DEF WriteSidecar, TypeOK
  <2>2. sidecar' \in [kind : {"absent", "torn", "spoiled", "saved"}, snapshot : Snapshots]
    BY <2>1, Nothing DEF Spoiled, Saved
  <2>3. snap' \in [Workers -> Snapshots]
    BY <1>16, Nothing DEF WriteSidecar, TypeOK
  <2> QED
    BY <1>16, <2>2, <2>3 DEF WriteSidecar, TypeOK
<1>17. ASSUME NEW w \in Workers, SaveFails(w) PROVE TypeOK'
  <2>1. snap' \in [Workers -> Snapshots]
    BY <1>17, Nothing DEF SaveFails, TypeOK
  <2> QED
    BY <1>17, <2>1 DEF SaveFails, Fail, TypeOK
<1>18. CASE Crash
  BY <1>18, Nothing DEF Crash, TypeOK
<1>19. CASE Restart
  <2>1. ranged' \in BOOLEAN /\ segments' \in SegmentLists
    BY <1>19, FoundType DEF Restart, Snapshots
  <2>2. downloaded' \in Nat
    BY <1>19, <2>1, BytesFetchedType DEF Restart
  <2> QED
    BY <1>19, <2>1, <2>2 DEF Restart, TypeOK
<1>20. CASE UNCHANGED vars
  BY <1>20 DEF vars, control, TypeOK
<1> QED
  BY <1>1, <1>2, <1>3, <1>4, <1>5, <1>6, <1>7, <1>8, <1>9, <1>10, <1>11, <1>12,
     <1>13, <1>14, <1>15, <1>16, <1>17, <1>18, <1>19, <1>20, <1>21
     DEF Next, RunStep, SegmentStep, SaveStep

-----------------------------------------------------------------------------
(* What a step of a segment's goroutine, or of a save, does to the rest.   *)

\* Its place, its offset and the first error are as they must be.
AsRecorded(k) ==
    /\ pc'[k] \in {"read", "wrote", "save", "opened", "check"} =>
          /\ offset'[k] \in segments[k].start .. BodyEnd(k)
          /\ segments[k].start .. offset'[k] - 1 \subseteq file'
    /\ pc'[k] = "off" =>
          firstErr' # "none" \/ segments[k].start .. BodyEnd(k) - 1 \subseteq file

LEMMA SegmentStepEffect ==
    ASSUME TransferInv, NEW k \in Connections, SegmentStep(k)
    PROVE  /\ run = "fetch" /\ k \in DOMAIN segments
           /\ status' = status /\ run' = run
           /\ \A j \in Workers \ {k} : pc'[j] = pc[j] /\ offset'[j] = offset[j]
           /\ SameRanges(segments, segments')
           /\ file \subseteq file'
           /\ firstErr # "none" => firstErr' = firstErr
           /\ AsRecorded(k)
<1>0. TypeOK /\ k \in Workers
  BY LimitsAssumption DEF TransferInv, Workers, Connections
<1>1. pc[k] # "off" /\ SameRanges(segments, segments)
  BY DEF SegmentStep, Ask, AskFails, StartOver, Write, Record, EndOfBody, ReadOn,
         ReadCancelled, ReadFails, SameRanges
<1>2. /\ run = "fetch" /\ k \in DOMAIN segments
      /\ segments[k].start \in 0 .. Size /\ BodyEnd(k) \in 0 .. Size
      /\ pc[k] \in {"read", "wrote", "save", "opened", "check"} =>
            /\ offset[k] \in segments[k].start .. BodyEnd(k)
            /\ segments[k].start .. offset[k] - 1 \subseteq file
  BY <1>1, AtWork
<1>3. ASSUME Leave(k, "fault") \/ Leave(k, "cancelled")
      PROVE  /\ status' = status /\ run' = run
             /\ \A j \in Workers \ {k} : pc'[j] = pc[j] /\ offset'[j] = offset[j]
             /\ firstErr # "none" => firstErr' = firstErr
             /\ AsRecorded(k)
  BY <1>0, <1>3 DEF Leave, GoesTo, TypeOK, AsRecorded
<1>4. ASSUME TryAgain(k)
      PROVE  /\ status' = status /\ run' = run
             /\ \A j \in Workers \ {k} : pc'[j] = pc[j] /\ offset'[j] = offset[j]
             /\ firstErr # "none" => firstErr' = firstErr
             /\ AsRecorded(k)
  <2>1. CASE Leave(k, "fault")
    BY <2>1, <1>3
  <2>2. CASE /\ offset' = [offset EXCEPT ![k] = 0]
             /\ GoesTo(k, "ask")
             /\ UNCHANGED <<snap, firstErr>>
    BY <1>0, <2>2 DEF GoesTo, TypeOK, AsRecorded
  <2> QED
    BY <1>4, <2>1, <2>2 DEF TryAgain
<1>5. CASE Ask(k)
  <2>1. /\ SameRanges(segments, segments')
        /\ segments'[k].current \in segments[k].start .. BodyEnd(k)
        /\ segments[k].start .. segments'[k].current - 1 \subseteq file
    BY <1>5, StartOverEffect DEF Ask, PlanMoved
  <2>2. /\ pc'[k] = "read" /\ offset'[k] = segments'[k].current
        /\ \A j \in Workers \ {k} : pc'[j] = pc[j] /\ offset'[j] = offset[j]
        /\ file' = file /\ firstErr' = firstErr /\ status' = status /\ run' = run
    BY <1>0, <1>5 DEF Ask, GoesTo, StartOver, TypeOK
  <2>3. AsRecorded(k)
    BY <2>1, <2>2 DEF AsRecorded
  <2> QED
    BY <1>2, <2>1, <2>2, <2>3
<1>6. CASE AskFails(k)
  <2>1. SameRanges(segments, segments') /\ file' = file
    BY <1>6, StartOverEffect DEF AskFails, StartOver, PlanMoved
  <2> QED
    BY <1>2, <1>3, <1>4, <1>6, <2>1 DEF AskFails
<1>7. CASE Write(k)
  <2>1. PICK n \in 1 .. BodyEnd(k) - offset[k] :
           /\ file' = file \cup (offset[k] .. offset[k] + n - 1)
           /\ offset' = [offset EXCEPT ![k] = @ + n]
    BY <1>7 DEF Write
  <2>2. /\ pc'[k] = "wrote" /\ offset'[k] = offset[k] + n
        /\ \A j \in Workers \ {k} : pc'[j] = pc[j] /\ offset'[j] = offset[j]
        /\ segments' = segments /\ firstErr' = firstErr /\ status' = status /\ run' = run
    BY <1>0, <1>7, <2>1 DEF Write, GoesTo, TypeOK
  <2>3. /\ offset[k] \in segments[k].start .. BodyEnd(k)
        /\ segments[k].start .. offset[k] - 1 \subseteq file
    BY <1>2, <1>7 DEF Write
  <2>4. /\ offset'[k] \in segments[k].start .. BodyEnd(k)
        /\ segments[k].start .. offset'[k] - 1 \subseteq file'
    BY <1>2, <2>1, <2>2, <2>3, SizeAssumption
  <2>5. AsRecorded(k)
    BY <2>2, <2>4 DEF AsRecorded
  <2> QED
    BY <1>1, <1>2, <2>1, <2>2, <2>5
<1>8. CASE Record(k)
  <2>1. SameRanges(segments, segments')
    BY <1>8, RecordEffect DEF PlanMoved
  <2>2. /\ pc'[k] = "save" /\ offset' = offset
        /\ \A j \in Workers \ {k} : pc'[j] = pc[j]
        /\ file' = file /\ firstErr' = firstErr /\ status' = status /\ run' = run
    BY <1>0, <1>8 DEF Record, GoesTo, TypeOK
  <2>3. AsRecorded(k)
    BY <1>2, <1>8, <2>2 DEF AsRecorded, Record
  <2> QED
    BY <1>2, <2>1, <2>2, <2>3
<1>9. CASE EndOfBody(k)
  <2>1. segments' = segments /\ file' = file /\ Leave(k, "none")
        /\ segments[k].start .. BodyEnd(k) - 1 \subseteq file
    BY <1>2, <1>9 DEF EndOfBody, plan
  <2>2. AsRecorded(k)
    BY <1>0, <2>1 DEF Leave, GoesTo, TypeOK, AsRecorded
  <2> QED
    BY <1>0, <1>1, <1>2, <2>1, <2>2 DEF Leave, GoesTo, TypeOK
<1>10. CASE ReadOn(k)
  <2>1. AsRecorded(k)
    BY <1>0, <1>2, <1>10 DEF ReadOn, GoesTo, TypeOK, AsRecorded
  <2> QED
    BY <1>0, <1>1, <1>2, <1>10, <2>1 DEF ReadOn, GoesTo, TypeOK, plan
<1>11. CASE ReadCancelled(k)
  BY <1>1, <1>2, <1>3, <1>11 DEF ReadCancelled, plan
<1>12. CASE ReadFails(k)
  BY <1>1, <1>2, <1>4, <1>12 DEF ReadFails, plan
<1> QED
  BY <1>5, <1>6, <1>7, <1>8, <1>9, <1>10, <1>11, <1>12 DEF SegmentStep

LEMMA SaveStepEffect ==
    ASSUME TransferInv, NEW w \in Workers, SaveStep(w)
    PROVE  /\ segments' = segments /\ ranged' = ranged
           /\ file' = file /\ offset' = offset /\ firstErr' = firstErr
           /\ \A j \in Workers \ {w} : pc'[j] = pc[j]
           /\ w # 0 => /\ pc[w] \in {"save", "opened"} /\ pc'[w] \in {"opened", "check"}
                       /\ run' = run /\ status' = status
           /\ w = 0 => \/ pc'[0] # "off" /\ pc[0] # "off" /\ run' = run /\ status' = status
                       \/ pc'[0] = "off" /\ run' = "open" /\ status' = status /\ run = "save"
                       \/ pc'[0] = "off" /\ run' = "off" /\ run = "save" /\ status' = "error"
<1>0. TypeOK /\ (pc[0] # "off" => run = "save")
  BY DEF TransferInv, Discipline
<1>1. CASE OpenSidecar(w)
  BY <1>0, <1>1 DEF OpenSidecar, GoesTo, TypeOK, plan
<1>2. CASE WriteSidecar(w)
  BY <1>0, <1>2 DEF WriteSidecar, TypeOK, plan
<1>3. CASE SaveFails(w)
  BY <1>0, <1>3 DEF SaveFails, Fail, TypeOK, plan
<1> QED
  BY <1>1, <1>2, <1>3 DEF SaveStep

-----------------------------------------------------------------------------
(* The steps.                                                              *)

\* Nothing that was written is lost.
LEMMA FileGrows ==
    ASSUME TransferInv, [Next]_vars
    PROVE  file \subseteq file'
<1>1. ASSUME NEW k \in Connections, SegmentStep(k) PROVE file \subseteq file'
  BY <1>1, SegmentStepEffect
<1>2. ASSUME NEW w \in Workers, SaveStep(w) PROVE file' = file
  BY <1>2, SaveStepEffect
<1>3. CASE Resume \/ Pause \/ PauseReturns \/ RunStep \/ Crash \/ Restart \/ UNCHANGED vars
  BY <1>3 DEF Resume, Pause, PauseReturns, RunStep, Probed, ProbeFails, OpenFails, NextMirror, Open, Collect,
              Crash, Restart, vars
<1> QED
  BY <1>1, <1>2, <1>3 DEF Next

LEMMA PlanBackedStep ==
    ASSUME TransferInv, [Next]_vars
    PROVE  Backed([ranged |-> ranged', segments |-> segments'], file')
<1>0. Backed([ranged |-> ranged, segments |-> segments], file) /\ file \subseteq file'
  BY FileGrows DEF TransferInv, AllBacked
<1>1. CASE ranged' = ranged /\ segments' = segments
  BY <1>0, <1>1, BackedGrows
<1>2. CASE ranged' = ranged /\ PlanMoved
  BY <1>0, <1>2, BackedGrows DEF PlanMoved
<1>3. CASE Probed
  <2>1. ranged' \in BOOLEAN /\ segments' = Made(ranged')
    BY <1>3 DEF Probed, Made
  <2> QED
    BY <2>1, FreshBacked
<1>4. CASE Crash
  <2>1. DOMAIN segments' = {}
    BY <1>4, Nothing DEF Crash
  <2> QED
    BY <2>1, EmptyBacked
<1>5. CASE Restart
  <2>1. PICK found \in {sidecar, Absent} :
            ranged' = found.snapshot.ranged /\ segments' = found.snapshot.segments
    BY <1>5 DEF Restart
  <2>2. Backed(found.snapshot, file)
    BY FoundBacked DEF TransferInv, AllBacked
  <2>3. found.snapshot = [ranged |-> ranged', segments |-> segments']
    BY <2>1, FoundType DEF Snapshots, TransferInv
  <2> QED
    BY <1>0, <2>2, <2>3, BackedGrows
<1>6. ASSUME NEW k \in Connections, SegmentStep(k)
      PROVE  ranged' = ranged /\ (PlanMoved \/ segments' = segments)
  <2>1. CASE Ask(k) \/ AskFails(k)
    BY <2>1, StartOverEffect DEF Ask, AskFails, StartOver
  <2>2. CASE Record(k)
    BY <2>2, RecordEffect DEF Record
  <2>3. CASE Write(k) \/ EndOfBody(k) \/ ReadOn(k) \/ ReadCancelled(k) \/ ReadFails(k)
    BY <2>3 DEF Write, EndOfBody, ReadOn, ReadCancelled, ReadFails, plan
  <2> QED
    BY <1>6, <2>1, <2>2, <2>3 DEF SegmentStep
<1>7. ASSUME NEW w \in Workers, SaveStep(w)
      PROVE  ranged' = ranged /\ segments' = segments
  BY <1>7, SaveStepEffect
<1>8. CASE Resume \/ Pause \/ PauseReturns \/ ProbeFails \/ OpenFails \/ Open \/ Collect \/ UNCHANGED vars
  BY <1>1, <1>8 DEF Resume, Pause, PauseReturns, ProbeFails, OpenFails, NextMirror, Open, Collect, vars, plan
<1> QED
  BY <1>1, <1>2, <1>3, <1>4, <1>5, <1>6, <1>7, <1>8 DEF Next, RunStep

\* A snapshot is taken of the plan as it is after the step.
LEMMA SnapBackedStep ==
    ASSUME TransferInv, [Next]_vars, NEW w \in Workers
    PROVE  Backed(snap'[w], file')
<1>0. TypeOK /\ 0 \in Workers /\ Connections \subseteq Workers
  BY LimitsAssumption DEF TransferInv, Workers, Connections
<1>1. CASE snap'[w] = snap[w]
  <2>1. Backed(snap[w], file)
    BY DEF TransferInv, AllBacked
  <2> QED
    BY <1>1, <2>1, FileGrows, BackedGrows
<1>2. CASE snap'[w] = NoSnapshot
  <2>1. DOMAIN snap'[w].segments = {}
    BY <1>2, Nothing DEF NoSnapshot
  <2> QED
    BY <2>1, EmptyBacked
<1>3. CASE snap'[w] = [ranged |-> ranged', segments |-> segments']
  BY <1>3, PlanBackedStep
<1>4. ASSUME NEW k \in Connections, SegmentStep(k)
      PROVE  snap'[w] = snap[w] \/ snap'[w] = [ranged |-> ranged', segments |-> segments']
  <2>1. CASE Record(k)
    BY <1>0, <2>1 DEF Record, TypeOK
  <2>2. CASE ~Record(k)
    BY <1>4, <2>2 DEF SegmentStep, Ask, AskFails, Write, EndOfBody, ReadOn, ReadCancelled,
                      ReadFails, Leave, TryAgain
  <2> QED
    BY <2>1, <2>2
<1>5. ASSUME NEW v \in Workers, SaveStep(v)
      PROVE  snap'[w] = snap[w] \/ snap'[w] = NoSnapshot
  BY <1>0, <1>5 DEF SaveStep, OpenSidecar, WriteSidecar, SaveFails, TypeOK
<1>6. CASE Probed
  <2>1. snap' \in {snap, [snap EXCEPT ![0] = [ranged |-> ranged', segments |-> segments']]}
    BY <1>6 DEF Probed
  <2> QED
    BY <1>0, <1>1, <1>3, <2>1 DEF TypeOK
<1>7. CASE Crash
  BY <1>2, <1>7 DEF Crash, NoSnapshots
<1>8. CASE Resume \/ Pause \/ PauseReturns \/ ProbeFails \/ OpenFails \/ Open \/ Collect \/ Restart
           \/ UNCHANGED vars
  BY <1>1, <1>8 DEF Resume, Pause, PauseReturns, ProbeFails, OpenFails, NextMirror, Open, Collect, Restart,
                    vars, workers
<1> QED
  BY <1>1, <1>2, <1>3, <1>4, <1>5, <1>6, <1>7, <1>8 DEF Next, RunStep

\* What is saved is a snapshot, or nothing.
LEMMA SidecarBackedStep ==
    ASSUME TransferInv, [Next]_vars
    PROVE  Backed(sidecar'.snapshot, file')
<1>1. CASE sidecar' = sidecar
  BY <1>1, FileGrows, BackedGrows DEF TransferInv, AllBacked
<1>2. CASE sidecar' \in {Absent, Torn, Spoiled}
  <2>1. DOMAIN sidecar'.snapshot.segments = {}
    BY <1>2, Nothing DEF Absent, Torn, Spoiled, NoSnapshot
  <2> QED
    BY <2>1, EmptyBacked
<1>3. ASSUME NEW w \in Workers, sidecar' = Saved(snap[w])
      PROVE  Backed(sidecar'.snapshot, file')
  <2>1. Backed(snap[w], file) /\ sidecar'.snapshot = snap[w]
    BY <1>3 DEF TransferInv, AllBacked, Saved
  <2> QED
    BY <2>1, FileGrows, BackedGrows
<1>4. ASSUME NEW k \in Connections, SegmentStep(k) PROVE sidecar' = sidecar
  BY <1>4 DEF SegmentStep, Ask, AskFails, StartOver, Write, Record, EndOfBody, ReadOn,
              ReadCancelled, ReadFails
<1>5. ASSUME NEW w \in Workers, SaveStep(w)
      PROVE  sidecar' = sidecar \/ sidecar' \in {Torn, Spoiled} \/ sidecar' = Saved(snap[w])
  BY <1>5 DEF SaveStep, OpenSidecar, WriteSidecar, SaveFails
<1>6. CASE Collect
  BY <1>1, <1>2, <1>6 DEF Collect, NextMirror
<1>7. CASE Resume \/ Pause \/ PauseReturns \/ Probed \/ ProbeFails \/ OpenFails \/ Open \/ Crash
           \/ Restart \/ UNCHANGED vars
  BY <1>1, <1>7 DEF Resume, Pause, PauseReturns, Probed, ProbeFails, OpenFails, NextMirror, Open, Crash, Restart, vars
<1> QED
  BY <1>1, <1>2, <1>3, <1>4, <1>5, <1>6, <1>7 DEF Next, RunStep

LEMMA BackedStep == TransferInv /\ [Next]_vars => AllBacked'
BY PlanBackedStep, SnapBackedStep, SidecarBackedStep DEF AllBacked, Workers

LEMMA DisciplineStep == TransferInv /\ [Next]_vars => Discipline'
<1> SUFFICES ASSUME TransferInv, [Next]_vars PROVE Discipline'
  OBVIOUS
<1>0. /\ TypeOK /\ Discipline /\ 0 \in Workers /\ Connections \subseteq Workers
      /\ 0 \notin Connections
  BY LimitsAssumption DEF TransferInv, Workers, Connections
<1>1. CASE Resume
  BY <1>0, <1>1 DEF Resume, Discipline, plan, workers
<1>2. CASE Pause \/ UNCHANGED vars
  BY <1>0, <1>2 DEF Pause, Discipline, plan, workers, control, vars
<1>3. CASE PauseReturns
  BY <1>0, <1>3 DEF PauseReturns, Discipline, plan, workers
<1>4. CASE Probed
  <2>1. ranged' \in BOOLEAN /\ segments' = Made(ranged')
    BY <1>4 DEF Probed, Made
  <2>2. DOMAIN segments' # {}
    BY <2>1, MadeFacts
  <2>3. \A k \in Connections : pc'[k] = "off"
    BY <1>0, <1>4 DEF Probed, Discipline, TypeOK
  <2>4. pc'[0] # "off" => run' = "save"
    BY <1>0, <1>4 DEF Probed, Discipline, TypeOK
  <2>5. run' # "off" => status' = "active"
    BY <1>0, <1>4 DEF Probed, Discipline, Fail
  <2> QED
    BY <2>2, <2>3, <2>4, <2>5 DEF Discipline
<1>5. CASE ProbeFails \/ OpenFails
  BY <1>0, <1>5 DEF ProbeFails, OpenFails, NextMirror, Stop, Fail, Discipline, plan, workers
<1>6. CASE Open
  <2>1. DOMAIN segments \subseteq Connections
    BY <1>0, ListFacts DEF TypeOK
  <2>2. segments' = segments /\ status' = status /\ run = "open" /\ run' = "fetch"
    BY <1>6 DEF Open, plan
  <2>3. \A w \in Workers : pc'[w] # "off" => w \in DOMAIN segments
    BY <1>6 DEF Open
  <2> QED
    BY <1>0, <2>1, <2>2, <2>3 DEF Discipline
<1>7. CASE Collect
  <2>1. /\ segments' = segments /\ pc' = AllOff /\ run' \in {"off", "open"} /\ run = "fetch"
        /\ run' = "open" => status' = status
    BY <1>7 DEF Collect, NextMirror, Stop, Fail, plan, workers
  <2> QED
    BY <1>0, <2>1 DEF Discipline, AllOff
<1>8. ASSUME NEW k \in Connections, SegmentStep(k) PROVE Discipline'
  BY <1>0, <1>8, SegmentStepEffect DEF Discipline, SameRanges
<1>9. ASSUME NEW w \in Workers, SaveStep(w) PROVE Discipline'
  <2>1. CASE w = 0
    BY <1>0, <1>9, <2>1, SaveStepEffect DEF Discipline
  <2>2. CASE w # 0
    BY <1>0, <1>9, <2>2, SaveStepEffect DEF Discipline, Workers, Connections
  <2> QED
    BY <2>1, <2>2
<1>10. CASE Crash
  BY <1>0, <1>10 DEF Crash, Discipline, AllOff
<1>11. CASE Restart
  BY <1>0, <1>11 DEF Restart, Discipline, workers
<1> QED
  BY <1>1, <1>2, <1>3, <1>4, <1>5, <1>6, <1>7, <1>8, <1>9, <1>10, <1>11 DEF Next, RunStep

LEMMA WrittenStep == TransferInv /\ [Next]_vars => WrittenBeforeRecorded'
<1> SUFFICES ASSUME TransferInv, [Next]_vars, NEW k \in Connections,
                    pc'[k] \in {"read", "wrote", "save", "opened", "check"}
             PROVE  /\ offset'[k] \in segments'[k].start .. Limit(segments'[k])
                    /\ segments'[k].start .. offset'[k] - 1 \subseteq file'
  BY DEF WrittenBeforeRecorded, BodyEnd
<1>0. TypeOK /\ Discipline /\ k \in Workers /\ k # 0 /\ file \subseteq file'
  BY FileGrows, LimitsAssumption DEF TransferInv, Workers, Connections
<1>1. \* It was at work before, at the same place in its range.
      ASSUME pc[k] \in {"read", "wrote", "save", "opened", "check"},
             offset'[k] = offset[k],
             SameRanges(segments, segments')
      PROVE  /\ offset'[k] \in segments'[k].start .. Limit(segments'[k])
             /\ segments'[k].start .. offset'[k] - 1 \subseteq file'
  <2>1. /\ k \in DOMAIN segments
        /\ offset[k] \in segments[k].start .. Limit(segments[k])
        /\ segments[k].start .. offset[k] - 1 \subseteq file
    BY <1>1, AtWork DEF BodyEnd
  <2> QED
    BY <1>0, <1>1, <2>1 DEF SameRanges
<1>2. SameRanges(segments, segments)
  BY DEF SameRanges
<1>3. CASE SegmentStep(k)
  BY <1>3, SegmentStepEffect DEF AsRecorded, SameRanges, BodyEnd
<1>4. ASSUME NEW j \in Connections \ {k}, SegmentStep(j)
      PROVE  pc'[k] = pc[k] /\ offset'[k] = offset[k] /\ SameRanges(segments, segments')
  BY <1>0, <1>4, SegmentStepEffect
<1>5. ASSUME NEW w \in Workers, SaveStep(w)
      PROVE  /\ pc[k] \in {"read", "wrote", "save", "opened", "check"}
             /\ offset'[k] = offset[k] /\ SameRanges(segments, segments')
  <2>1. segments' = segments /\ offset' = offset
    BY <1>5, SaveStepEffect
  <2>2. CASE w = k
    BY <1>0, <1>2, <1>5, <2>1, <2>2, SaveStepEffect
  <2>3. CASE w # k
    BY <1>0, <1>2, <1>5, <2>1, <2>3, SaveStepEffect
  <2> QED
    BY <2>2, <2>3
<1>6. CASE Resume \/ Pause \/ PauseReturns \/ ProbeFails \/ OpenFails \/ Collect \/ UNCHANGED vars
  <2>1. pc' = pc /\ offset' = offset /\ segments' = segments
    BY <1>6 DEF Resume, Pause, PauseReturns, ProbeFails, OpenFails, NextMirror, Collect, vars, plan, workers
  <2> QED
    BY <1>1, <1>2, <2>1
<1>7. CASE Probed \/ Open \/ Crash
  <2>1. pc'[k] \in {"off", "ask"}
    BY <1>0, <1>7 DEF Probed, Open, Crash, AllOff, Discipline, TypeOK
  <2> QED
    BY <2>1
<1>8. CASE Restart
  <2>1. pc'[k] = "off"
    BY <1>0, <1>8 DEF Restart, Discipline, workers
  <2> QED
    BY <2>1
<1> QED
  BY <1>1, <1>3, <1>4, <1>5, <1>6, <1>7, <1>8 DEF Next, RunStep

LEMMA SkippedStep == TransferInv /\ [Next]_vars => NothingSkipped'
<1> SUFFICES ASSUME TransferInv, [Next]_vars, run' = "fetch", NEW k \in DOMAIN segments',
                    pc'[k] = "off", firstErr' = "none"
             PROVE  segments'[k].start .. Limit(segments'[k]) - 1 \subseteq file'
  BY DEF NothingSkipped, BodyEnd
<1>0. TypeOK /\ Discipline /\ file \subseteq file'
  BY FileGrows DEF TransferInv
<1>1. segments' \in SegmentLists /\ k \in Connections /\ k \in Workers /\ k # 0
  BY TypeStep, ListFacts, LimitsAssumption DEF TypeOK, Workers, Connections
<1>2. \* It was gone before.
      ASSUME run = "fetch", pc[k] = "off", firstErr = "none", SameRanges(segments, segments')
      PROVE  segments'[k].start .. Limit(segments'[k]) - 1 \subseteq file'
  BY <1>0, <1>2 DEF TransferInv, NothingSkipped, SameRanges, BodyEnd
<1>3. SameRanges(segments, segments)
  BY DEF SameRanges
<1>4. CASE SegmentStep(k)
  <2>1. segments[k].start .. Limit(segments[k]) - 1 \subseteq file
    BY <1>1, <1>4, SegmentStepEffect DEF AsRecorded, BodyEnd
  <2>2. SameRanges(segments, segments') /\ k \in DOMAIN segments
    BY <1>1, <1>4, SegmentStepEffect
  <2> QED
    BY <1>0, <2>1, <2>2 DEF SameRanges
<1>5. ASSUME NEW j \in Connections \ {k}, SegmentStep(j)
      PROVE  /\ run = "fetch" /\ pc[k] = "off" /\ firstErr = "none"
             /\ SameRanges(segments, segments')
  BY <1>1, <1>5, SegmentStepEffect
<1>6. ASSUME NEW w \in Workers, SaveStep(w)
      PROVE  segments'[k].start .. Limit(segments'[k]) - 1 \subseteq file'
  <2>1. segments' = segments /\ firstErr' = firstErr
    BY <1>6, SaveStepEffect
  <2>2. w # k
    BY <1>1, <1>6, SaveStepEffect
  <2>3. pc[k] = "off"
    BY <1>1, <1>6, <2>2, SaveStepEffect
  <2>4. run = "fetch"
    BY <1>0, <1>6, SaveStepEffect DEF Discipline
  <2> QED
    BY <1>2, <1>3, <2>1, <2>3, <2>4
<1>7. CASE Pause \/ UNCHANGED vars
  <2>1. run = "fetch" /\ pc' = pc /\ firstErr' = firstErr /\ segments' = segments
    BY <1>7 DEF Pause, vars, control, plan, workers
  <2> QED
    BY <1>2, <1>3, <2>1
<1>8. CASE Open
  <2>1. segments' = segments /\ k \in DOMAIN segments /\ ~Pending(k)
    BY <1>1, <1>8 DEF Open, plan
  <2>2. Backed([ranged |-> ranged, segments |-> segments], file)
        /\ segments[k] \in Segment /\ ranged \in BOOLEAN
    BY <1>0, <2>1, ListFacts DEF TransferInv, AllBacked, TypeOK
  <2>3. segments[k].start .. segments[k].current - 1 \subseteq file
    BY <2>1, <2>2, FetchedEach DEF Begun, Backed
  <2>4. segments[k].current \in segments[k].start .. Limit(segments[k])
    BY <2>1, <2>2 DEF Backed, Shaped, Limit
  <2>5. Limit(segments[k]) = segments[k].current
    BY <2>1, <2>2, <2>4, SizeAssumption DEF Pending, Limit, Segment
  <2> QED
    BY <1>0, <2>1, <2>3, <2>5
<1>9. CASE Resume \/ PauseReturns \/ Probed \/ ProbeFails \/ OpenFails \/ Collect \/ Crash \/ Restart
  <2>1. run' # "fetch"
    BY <1>0, <1>9 DEF Resume, PauseReturns, Probed, ProbeFails, OpenFails, NextMirror, Collect, Crash, Restart,
                      Stop, Fail, Discipline
  <2> QED
    BY <2>1
<1> QED
  BY <1>2, <1>4, <1>5, <1>6, <1>7, <1>8, <1>9 DEF Next, RunStep

\* When run collects goroutines that left no error, every range of the list is
\* in the file, and the ranges leave no byte out.
LEMMA AllFetched ==
    ASSUME TransferInv, run = "fetch", pc = AllOff, firstErr = "none"
    PROVE  Bytes \subseteq file
<1>0. /\ TypeOK /\ DOMAIN segments # {}
      /\ Backed([ranged |-> ranged, segments |-> segments], file)
  BY DEF TransferInv, AllBacked, Discipline
<1>1. segments \in SegmentLists /\ ranged \in BOOLEAN
  BY <1>0 DEF TypeOK
<1>2. \A k \in DOMAIN segments : Whole(segments[k]) \subseteq file
  <2>1. DOMAIN segments \subseteq Workers
    BY <1>1, ListFacts, LimitsAssumption DEF Connections, Workers
  <2>2. \A k \in DOMAIN segments : pc[k] = "off"
    BY <2>1 DEF AllOff
  <2> QED
    BY <2>2 DEF TransferInv, NothingSkipped, BodyEnd, Whole
<1>3. \A b \in Bytes : \E k \in DOMAIN Made(ranged) : b \in Whole(Made(ranged)[k])
  BY <1>1, MadeFacts
<1>4. /\ DOMAIN segments = DOMAIN Made(ranged)
      /\ \A k \in DOMAIN Made(ranged) :
            /\ segments[k].start = Made(ranged)[k].start
            /\ segments[k].end = Made(ranged)[k].end
  BY <1>0 DEF Backed, Shaped, Made
<1>5. \A k \in DOMAIN segments : Whole(segments[k]) = Whole(Made(ranged)[k])
  BY <1>4 DEF Whole, Limit
<1> QED
  BY <1>2, <1>3, <1>4, <1>5

LEMMA CompleteStep == TransferInv /\ [Next]_vars => CompleteMeansContent'
<1> SUFFICES ASSUME TransferInv, [Next]_vars, status' = "complete" PROVE file' = Bytes
  BY DEF CompleteMeansContent
<1>0. file \subseteq file' /\ file' \subseteq Bytes
  <2>1. TypeOK'
    BY TypeStep
  <2> QED
    BY <2>1, FileGrows DEF TypeOK
<1>1. CASE status = "complete"
  BY <1>0, <1>1 DEF TransferInv, CompleteMeansContent
<1>2. CASE Collect /\ status # "complete"
  <2>1. run = "fetch" /\ pc = AllOff /\ firstErr = "none"
    BY <1>2 DEF Collect, NextMirror, Stop, Fail
  <2> QED
    BY <1>0, <2>1, AllFetched
<1>3. ASSUME NEW k \in Connections, SegmentStep(k) PROVE status = "complete"
  BY <1>3, SegmentStepEffect
<1>4. ASSUME NEW w \in Workers, SaveStep(w) PROVE status = "complete"
  <2>1. w = 0 \/ w # 0
    OBVIOUS
  <2> QED
    BY <1>4, <2>1, SaveStepEffect
<1>5. CASE Resume \/ Pause \/ PauseReturns \/ Probed \/ ProbeFails \/ OpenFails \/ Open \/ Crash
           \/ Restart \/ UNCHANGED vars
  <2>1. status = "complete"
    BY <1>5 DEF Resume, Pause, PauseReturns, Probed, ProbeFails, OpenFails, NextMirror, Open, Crash, Restart,
                Stop, Fail, vars, control
  <2> QED
    BY <1>1, <2>1
<1> QED
  BY <1>1, <1>2, <1>3, <1>4, <1>5 DEF Next, RunStep

-----------------------------------------------------------------------------
(* Errors, when the servers tell the size: an error has a cause outside,   *)
(* because no goroutine asks for a range it has all of, unless an attempt  *)
(* of its own has failed before.                                           *)

AsksForMore ==
    ~faulted => \A k \in DOMAIN segments : pc[k] = "ask" => Pending(k)

ErrorInv ==
    /\ NoErrorWithoutFault
    /\ firstErr = "fault" => faulted
    /\ AsksForMore

\* Such a range begins before its end.
LEMMA BytesLeft ==
    ASSUME SizeKnown, TransferInv, NEW k \in Connections, StartOver(k), Pending(k)
    PROVE  segments'[k].current < BodyEnd(k)
<1>1. /\ k \in DOMAIN segments /\ segments \in SegmentLists /\ ranged \in BOOLEAN
      /\ segments[k] \in Segment
  BY AtWork, ListFacts DEF StartOver, TransferInv, TypeOK
<1>2. DOMAIN segments = DOMAIN Made(ranged) /\ segments[k].end = Made(ranged)[k].end
  BY <1>1 DEF TransferInv, AllBacked, Backed, Shaped, Made
<1>3. CASE ranged
  <2>1. segments'[k].current = segments[k].current
    BY <1>3 DEF StartOver
  <2>2. Made(TRUE) = BoundedSegments(Size, Pieces(Size, MaxConn))
    BY SizeAssumption DEF Made, BuildSegments, Total
  <2>3. Pieces(Size, MaxConn) \in 1 .. Size
    BY Sized, SizeAssumption, LimitsAssumption
  <2>4. k \in 1 .. Pieces(Size, MaxConn)
    BY <1>1, <1>2, <1>3, <2>2 DEF BoundedSegments
  <2>5. segments[k].end \in 0 .. Size - 1
    BY <1>2, <1>3, <2>2, <2>3, <2>4, WithinFile, SizeAssumption
  <2> QED
    BY <1>1, <2>1, <2>5, SizeAssumption DEF Pending, BodyEnd, Limit, Segment
<1>4. CASE ~ranged
  <2>1. segments'[k].current = 0
    BY <1>1, <1>4, ListExcept, SizeAssumption DEF StartOver
  <2>2. segments[k].end = -1
    BY <1>1, <1>2, <1>4 DEF Made, BuildSegments, Unbounded
  <2> QED
    BY <2>1, <2>2, SizeAssumption DEF BodyEnd, Limit
<1> QED
  BY <1>1, <1>3, <1>4

\* A goroutine tries again, or reports a fault, only after one.
LEMMA FaultFirst ==
    ASSUME SizeKnown, TransferInv, ErrorInv, NEW k \in Connections, SegmentStep(k)
    PROVE  /\ faulted => faulted'
           /\ firstErr' = "fault" => faulted'
           /\ ~faulted' => pc'[k] # "ask"
<1>0. k \in DOMAIN pc /\ faulted \in BOOLEAN /\ (firstErr = "fault" => faulted)
  BY LimitsAssumption DEF TransferInv, TypeOK, Workers, Connections, ErrorInv
<1>1. CASE Ask(k)
  BY <1>0, <1>1 DEF Ask, GoesTo
<1>2. CASE AskFails(k)
  <2>1. CASE faulted' = TRUE
    BY <2>1
  <2>2. CASE ctxDone /\ Leave(k, "cancelled") /\ UNCHANGED faulted
    BY <1>0, <2>2 DEF Leave, GoesTo
  <2>3. CASE segments'[k].current >= BodyEnd(k) /\ UNCHANGED faulted
    <3>1. k \in DOMAIN segments /\ BodyEnd(k) \in Int /\ pc[k] = "ask"
      BY <1>2, AtWork DEF AskFails, StartOver
    <3>2. segments'[k].current \in Int /\ StartOver(k)
      BY <1>2, <3>1, AtWork, StartOverEffect DEF AskFails
    <3>3. faulted
      BY <2>3, <3>1, <3>2, BytesLeft DEF ErrorInv, AsksForMore
    <3> QED
      BY <2>3, <3>3
  <2> QED
    BY <1>2, <2>1, <2>2, <2>3 DEF AskFails
<1>3. CASE Write(k) \/ Record(k) \/ ReadOn(k)
  BY <1>0, <1>3 DEF Write, Record, ReadOn, GoesTo
<1>4. CASE EndOfBody(k) \/ ReadCancelled(k)
  BY <1>0, <1>4 DEF EndOfBody, ReadCancelled, Leave, GoesTo
<1>5. CASE ReadFails(k)
  BY <1>5 DEF ReadFails
<1> QED
  BY <1>1, <1>2, <1>3, <1>4, <1>5 DEF SegmentStep

LEMMA ErrorInvStep == SizeKnown /\ TransferInv /\ ErrorInv /\ [Next]_vars => ErrorInv'
<1> SUFFICES ASSUME SizeKnown, TransferInv, ErrorInv, [Next]_vars PROVE ErrorInv'
  OBVIOUS
<1>0. /\ TypeOK /\ Discipline /\ DOMAIN segments \subseteq Connections
      /\ Connections \subseteq Workers /\ 0 \in Workers /\ 0 \notin Connections
  BY ListFacts, LimitsAssumption DEF TransferInv, TypeOK, Workers, Connections
<1>1. ASSUME NEW k \in Connections, SegmentStep(k) PROVE ErrorInv'
  <2>1. /\ faulted => faulted'
        /\ firstErr' = "fault" => faulted'
        /\ ~faulted' => pc'[k] # "ask"
    BY <1>1, FaultFirst
  <2>2. /\ status' = status /\ DOMAIN segments' = DOMAIN segments
        /\ \A j \in Workers \ {k} : pc'[j] = pc[j]
    BY <1>1, SegmentStepEffect DEF SameRanges
  <2>3. \A j \in DOMAIN segments \ {k} : segments'[j] = segments[j]
    <3>1. k \in DOMAIN segments /\ segments \in SegmentLists
      BY <1>0, <1>1, SegmentStepEffect DEF TypeOK
    <3> QED
      BY <1>1, <3>1 DEF SegmentStep, Ask, AskFails, StartOver, Write, Record, EndOfBody,
                        ReadOn, ReadCancelled, ReadFails, plan
  <2>4. AsksForMore'
    BY <1>0, <2>1, <2>2, <2>3 DEF ErrorInv, AsksForMore, Pending
  <2> QED
    BY <2>1, <2>2, <2>4 DEF ErrorInv, NoErrorWithoutFault
<1>2. ASSUME NEW w \in Workers, SaveStep(w) PROVE ErrorInv'
  <2>1. /\ segments' = segments /\ firstErr' = firstErr
        /\ \A j \in Connections : pc'[j] = "ask" => pc[j] = "ask"
    BY <1>0, <1>2, SaveStepEffect
  <2>2. (faulted => faulted') /\ (status' = "error" => status = "error" \/ faulted')
    BY <1>0, <1>2 DEF SaveStep, OpenSidecar, WriteSidecar, SaveFails, GoesTo, Fail
  <2> QED
    BY <1>0, <2>1, <2>2 DEF ErrorInv, NoErrorWithoutFault, AsksForMore, Pending
<1>3. CASE Resume \/ Pause \/ PauseReturns \/ UNCHANGED vars
  BY <1>3 DEF Resume, Pause, PauseReturns, vars, control, plan, workers, ErrorInv,
              NoErrorWithoutFault, AsksForMore, Pending
<1>4. CASE Probed
  <2>1. \A k \in Connections : pc'[k] # "ask"
    BY <1>0, <1>4 DEF Probed, Discipline, TypeOK
  <2>2. DOMAIN segments' \subseteq Connections
    BY TypeStep, ListFacts DEF TypeOK
  <2>3. /\ firstErr' = firstErr /\ (faulted => faulted')
        /\ status' = "error" => status = "error" \/ faulted'
    BY <1>4 DEF Probed, Fail
  <2> QED
    BY <2>1, <2>2, <2>3 DEF ErrorInv, NoErrorWithoutFault, AsksForMore
<1>5. CASE ProbeFails \/ OpenFails
  BY <1>5 DEF ProbeFails, OpenFails, NextMirror, Stop, Fail, plan, workers, ErrorInv, NoErrorWithoutFault,
              AsksForMore, Pending
<1>6. CASE Open
  BY <1>0, <1>6 DEF Open, plan, ErrorInv, NoErrorWithoutFault, AsksForMore, Pending
<1>7. CASE Collect
  BY <1>7 DEF Collect, NextMirror, Stop, Fail, plan, workers, ErrorInv, NoErrorWithoutFault,
              AsksForMore, Pending
<1>8. CASE Crash
  <2>1. DOMAIN segments' = {}
    BY <1>8, Nothing DEF Crash
  <2> QED
    BY <1>8, <2>1 DEF Crash, ErrorInv, NoErrorWithoutFault, AsksForMore
<1>9. CASE Restart
  <2>1. \A k \in Connections : pc'[k] # "ask"
    BY <1>0, <1>9 DEF Restart, workers, Discipline
  <2>2. DOMAIN segments' \subseteq Connections
    BY TypeStep, ListFacts DEF TypeOK
  <2> QED
    BY <1>9, <2>1, <2>2 DEF Restart, ErrorInv, NoErrorWithoutFault, AsksForMore
<1> QED
  BY <1>1, <1>2, <1>3, <1>4, <1>5, <1>6, <1>7, <1>8, <1>9 DEF Next, RunStep

-----------------------------------------------------------------------------
(* The counter.  It runs ahead of the resume points by what the goroutines *)
(* have written and not recorded yet, and by nothing else.                 *)

\* How far a segment has got, recorded or not.
Reach(k) == IF pc[k] = "wrote" THEN offset[k] ELSE segments[k].current

\* The bytes behind that, each with its segment.
Counted ==
    {b \in (DOMAIN segments) \X Bytes :
        segments[b[1]].start <= b[2] /\ b[2] < Reach(b[1])}

\* Everything written is counted, once.
CountRight == downloaded = Cardinality(Counted)

\* Resume sends run to ensureSegments only when there is no plan.
PlannedOnce == run = "ensure" => DOMAIN segments = {}

\* But for what was just written a goroutine is where its segment is.
InStep ==
    \A k \in Connections :
        pc[k] \in {"read", "save", "opened", "check"} => offset[k] = segments[k].current

\* A goroutine that is gone has moved its resume point to the end, or has
\* left an error.
NoneLeftBehind ==
    run = "fetch" =>
        \A k \in DOMAIN segments :
            \/ pc[k] # "off"
            \/ firstErr # "none"
            \/ segments[k].current = BodyEnd(k)

\* And so all of them have when the task is complete.
AllAtEnd ==
    status = "complete" =>
        /\ DOMAIN segments # {}
        /\ \A k \in DOMAIN segments : segments[k].current = BodyEnd(k)

ProgressInv ==
    /\ CountRight
    /\ PlannedOnce
    /\ InStep
    /\ NoneLeftBehind
    /\ AllAtEnd

\* Progress never reports more than there is, and all of it in the end.
ProgressWithin ==
    /\ downloaded <= Size
    /\ status = "complete" => downloaded = Size

LEMMA CountedFinite ==
    ASSUME TypeOK
    PROVE  IsFiniteSet(Counted) /\ Cardinality(Counted) \in Nat
<1> DEFINE pairs == (DOMAIN segments) \X Bytes
<1>1. IsFiniteSet(pairs)
  <2>1. IsFiniteSet(DOMAIN segments) /\ IsFiniteSet(Bytes)
    BY ListFacts, FS_Interval, SizeAssumption DEF Bytes, TypeOK
  <2> QED
    BY <2>1, FS_Product
<1>2. Counted \in SUBSET pairs
  BY DEF Counted
<1> HIDE DEF pairs
<1>3. IsFiniteSet(Counted)
  BY <1>1, <1>2, FS_Subset
<1> QED
  BY <1>3, FS_CardinalityType

\* A step after which every segment has got as far as before counts nothing.
LEMMA SameCount ==
    ASSUME CountRight, downloaded' = downloaded, SameRanges(segments, segments'),
           \A j \in DOMAIN segments : Reach(j)' = Reach(j)
    PROVE  CountRight'
<1>1. Counted' = Counted
  BY DEF Counted, SameRanges
<1> QED
  BY <1>1 DEF CountRight

\* Where no segment has got anywhere there is nothing to count.
LEMMA NoneCounted ==
    ASSUME NEW segs \in SegmentLists, NEW S,
           \A b \in S : /\ b[1] \in DOMAIN segs /\ b[2] \in Bytes
                        /\ segs[b[1]].start <= b[2] /\ b[2] < segs[b[1]].start
    PROVE  Cardinality(S) = 0
<1>1. \A k \in DOMAIN segs : segs[k].start \in Int
  BY ListFacts, SizeAssumption DEF Segment
<1>2. \A b \in Bytes : b \in Int
  BY SizeAssumption DEF Bytes
<1>3. S = {}
  BY <1>1, <1>2
<1> QED
  BY <1>3, FS_EmptySet

\* A body that begins again at the first byte: the only segment there is, and
\* nothing of it counts any more.
LEMMA StartOverCount ==
    ASSUME TransferInv, CountRight, NEW k \in Connections, StartOver(k), TypeOK',
           pc'[k] # "wrote", \A j \in Workers \ {k} : pc'[j] = pc[j] /\ offset'[j] = offset[j]
    PROVE  CountRight'
<1>1. /\ k \in DOMAIN segments /\ segments \in SegmentLists
      /\ DOMAIN segments \subseteq Workers
      /\ pc[k] = "ask" /\ ranged \in BOOLEAN
  BY AtWork, ListFacts, LimitsAssumption DEF StartOver, TransferInv, TypeOK, Workers, Connections
<1>2. SameRanges(segments, segments')
  BY StartOverEffect DEF PlanMoved
<1>3. CASE ranged
  <2>1. segments' = segments /\ downloaded' = downloaded
    BY <1>3 DEF StartOver
  <2>2. \A j \in DOMAIN segments : Reach(j)' = Reach(j)
    BY <1>1, <2>1 DEF Reach
  <2> QED
    BY <1>2, <2>1, <2>2, SameCount
<1>4. CASE ~ranged
  <2>1. segments' = [segments EXCEPT ![k].current = 0] /\ downloaded' = 0
    BY <1>4 DEF StartOver
  <2>2. /\ DOMAIN segments = DOMAIN Made(ranged)
        /\ \A j \in DOMAIN segments : segments[j].start = Made(ranged)[j].start
    BY <1>1 DEF TransferInv, AllBacked, Backed, Shaped, Made
  <2>3. DOMAIN segments = {k} /\ segments[k].start = 0
    BY <1>1, <1>4, <2>2 DEF Made, BuildSegments, Unbounded
  <2>4. segments'[k].current = 0 /\ segments'[k].start = 0 /\ DOMAIN segments' = {k}
    BY <1>1, <1>2, <2>1, <2>3, ListExcept, SizeAssumption DEF SameRanges
  <2>5. \A j \in DOMAIN segments' : Reach(j)' = segments'[j].start
    BY <2>4 DEF Reach
  <2>6. (Cardinality(Counted) = 0)'
    <3>1. segments' \in SegmentLists
      BY DEF TypeOK
    <3> QED
      BY <2>5, <3>1, NoneCounted DEF Counted
  <2> QED
    BY <2>1, <2>6 DEF CountRight
<1> QED
  BY <1>3, <1>4

\* What is written is counted as it is written.
LEMMA WriteCount ==
    ASSUME TransferInv, CountRight, InStep, NEW k \in Connections, Write(k)
    PROVE  CountRight'
<1>1. /\ k \in DOMAIN segments /\ k \in Workers /\ DOMAIN segments \subseteq Workers
      /\ segments[k].start \in 0 .. Size /\ BodyEnd(k) \in 0 .. Size
      /\ offset[k] \in segments[k].start .. BodyEnd(k)
      /\ offset[k] = segments[k].current
      /\ TypeOK
  <2>1. pc[k] = "read"
    BY DEF Write
  <2>2. TypeOK /\ k \in Workers /\ DOMAIN segments \subseteq Workers
    BY ListFacts, LimitsAssumption DEF TransferInv, TypeOK, Workers, Connections
  <2> QED
    BY <2>1, <2>2, AtWork DEF InStep
<1>2. PICK n \in 1 .. BodyEnd(k) - offset[k] :
         offset' = [offset EXCEPT ![k] = @ + n] /\ downloaded' = downloaded + n
  BY DEF Write
<1>3. /\ pc[k] = "read" /\ pc'[k] = "wrote" /\ offset'[k] = offset[k] + n
      /\ \A j \in Workers \ {k} : pc'[j] = pc[j] /\ offset'[j] = offset[j]
      /\ segments' = segments
  BY <1>1, <1>2 DEF Write, GoesTo, TypeOK
<1>4. Reach(k) = offset[k] /\ Reach(k)' = offset[k] + n
      /\ \A j \in DOMAIN segments \ {k} : Reach(j)' = Reach(j)
  BY <1>1, <1>3 DEF Reach
<1> DEFINE new == {k} \X (offset[k] .. offset[k] + n - 1)
<1>5. offset[k] \in Int /\ n \in Int /\ 0 <= offset[k] /\ 1 <= n /\ offset[k] + n <= Size
      /\ segments[k].start \in Int /\ segments[k].start <= offset[k]
  BY <1>1, <1>2, SizeAssumption
<1>6. Counted' = Counted \cup new
  <2>1. ASSUME NEW j \in DOMAIN segments, NEW b \in Bytes
        PROVE  <<j, b>> \in Counted' <=> <<j, b>> \in Counted \cup new
    <3>0. b \in Int
      BY SizeAssumption DEF Bytes
    <3>1. CASE j = k
      BY <1>3, <1>4, <1>5, <2>1, <3>0, <3>1 DEF Counted
    <3>2. CASE j # k
      BY <1>3, <1>4, <2>1, <3>2 DEF Counted
    <3> QED
      BY <3>1, <3>2
  <2>2. new \subseteq (DOMAIN segments) \X Bytes
    BY <1>1, <1>5, SizeAssumption DEF Bytes
  <2>3. Counted \subseteq (DOMAIN segments) \X Bytes /\ Counted' \subseteq (DOMAIN segments) \X Bytes
    BY <1>3 DEF Counted
  <2> HIDE DEF new
  <2> QED
    BY <2>1, <2>2, <2>3
<1>7. Counted \cap new = {}
  BY <1>4, <1>5 DEF Counted
<1>8. IsFiniteSet(new) /\ Cardinality(new) = n
  <2> DEFINE last == offset[k] + n - 1
             bytes == offset[k] .. last
  <2>1. IsFiniteSet(bytes) /\ Cardinality(bytes) = n
    <3>1. last \in Int /\ offset[k] <= last /\ last - offset[k] + 1 = n
      BY <1>5
    <3> HIDE DEF last
    <3> QED
      BY <1>5, <3>1, FS_Interval
  <2>2. IsFiniteSet({k}) /\ Cardinality({k}) = 1
    BY FS_Singleton
  <2> HIDE DEF bytes
  <2>3. IsFiniteSet({k} \X bytes) /\ Cardinality({k} \X bytes) = 1 * n
    BY <2>1, <2>2, FS_Product
  <2> QED
    BY <1>5, <2>3 DEF bytes
<1> HIDE DEF new
<1>9. IsFiniteSet(Counted) /\ Cardinality(Counted) \in Nat
  BY <1>1, CountedFinite
<1>10. Cardinality(Counted') = Cardinality(Counted) + n - Cardinality({})
  BY <1>6, <1>7, <1>8, <1>9, FS_Union
<1> QED
  BY <1>2, <1>5, <1>9, <1>10, FS_EmptySet DEF CountRight

\* A goroutine of a segment counts what it writes, and only that.
LEMMA SegmentCount ==
    ASSUME TransferInv, CountRight, InStep, TypeOK', NEW k \in Connections, SegmentStep(k)
    PROVE  CountRight'
<1>1. /\ k \in DOMAIN segments /\ k \in DOMAIN pc /\ k \in Workers
      /\ DOMAIN segments \subseteq Workers /\ segments \in SegmentLists
      /\ offset[k] \in 0 .. Size
  <2>1. k \in DOMAIN segments
    BY SegmentStepEffect
  <2>2. TypeOK /\ k \in Workers /\ Connections \subseteq Workers
    BY LimitsAssumption DEF TransferInv, Workers, Connections
  <2>3. DOMAIN segments \subseteq Connections
    BY <2>2, ListFacts DEF TypeOK
  <2> QED
    BY <2>1, <2>2, <2>3 DEF TypeOK
<1>2. /\ SameRanges(segments, segments')
      /\ \A j \in Workers \ {k} : pc'[j] = pc[j] /\ offset'[j] = offset[j]
  BY SegmentStepEffect
<1>3. CASE Ask(k)
  <2>1. StartOver(k) /\ pc'[k] # "wrote"
    BY <1>1, <1>3 DEF Ask, GoesTo
  <2> QED
    BY <1>2, <2>1, StartOverCount
<1>4. CASE AskFails(k)
  <2>1. StartOver(k) /\ pc'[k] # "wrote"
    BY <1>1, <1>4 DEF AskFails, TryAgain, Leave, GoesTo
  <2> QED
    BY <1>2, <2>1, StartOverCount
<1>5. CASE Write(k)
  BY <1>5, WriteCount
<1>6. CASE Record(k)
  <2>1. /\ segments' = [segments EXCEPT ![k].current = offset[k]]
        /\ downloaded' = downloaded /\ pc[k] = "wrote" /\ pc'[k] = "save"
    BY <1>1, <1>6 DEF Record, GoesTo
  <2>2. segments'[k].current = offset[k] /\ \A j \in DOMAIN segments \ {k} : segments'[j] = segments[j]
    BY <1>1, <2>1, ListExcept
  <2>3. \A j \in DOMAIN segments : Reach(j)' = Reach(j)
    BY <1>1, <1>2, <2>1, <2>2 DEF Reach
  <2> QED
    BY <1>2, <2>1, <2>3, SameCount
<1>7. CASE EndOfBody(k) \/ ReadOn(k) \/ ReadCancelled(k) \/ ReadFails(k)
  <2>1. /\ segments' = segments /\ downloaded' = downloaded
        /\ pc[k] # "wrote" /\ pc'[k] # "wrote"
    BY <1>1, <1>7 DEF EndOfBody, ReadOn, ReadCancelled, ReadFails, TryAgain, Leave, GoesTo, plan
  <2>2. \A j \in DOMAIN segments : Reach(j)' = Reach(j)
    BY <1>1, <1>2, <2>1 DEF Reach
  <2> QED
    BY <1>2, <2>1, <2>2, SameCount
<1> QED
  BY <1>3, <1>4, <1>5, <1>6, <1>7 DEF SegmentStep

LEMMA CountStep == TransferInv /\ ProgressInv /\ [Next]_vars => CountRight'
<1> SUFFICES ASSUME TransferInv, ProgressInv, [Next]_vars PROVE CountRight'
  OBVIOUS
<1>0. /\ TypeOK /\ TypeOK' /\ CountRight /\ InStep /\ PlannedOnce /\ Discipline
      /\ segments \in SegmentLists /\ DOMAIN segments \subseteq Connections
      /\ Connections \subseteq Workers /\ 0 \in Workers /\ 0 \notin Connections
  <2>1. TypeOK /\ TypeOK' /\ Discipline
    BY TypeStep DEF TransferInv
  <2>2. segments \in SegmentLists /\ DOMAIN segments \subseteq Connections
    BY <2>1, ListFacts DEF TypeOK
  <2>3. Connections \subseteq Workers /\ 0 \in Workers /\ 0 \notin Connections
    BY LimitsAssumption DEF Workers, Connections
  <2> QED
    BY <2>1, <2>2, <2>3 DEF ProgressInv
<1>1. CASE UNCHANGED <<plan, workers>>
  <2>1. segments' = segments /\ downloaded' = downloaded
        /\ \A j \in DOMAIN segments : Reach(j)' = Reach(j)
    BY <1>1 DEF plan, workers, Reach
  <2> QED
    BY <1>0, <2>1, SameCount DEF SameRanges
<1>2. ASSUME NEW k \in Connections, SegmentStep(k) PROVE CountRight'
  BY <1>0, <1>2, SegmentCount
<1>3. ASSUME NEW w \in Workers, SaveStep(w) PROVE CountRight'
  <2>1. segments' = segments /\ downloaded' = downloaded
    BY <1>3 DEF SaveStep, OpenSidecar, WriteSidecar, SaveFails, plan
  <2>2. /\ offset' = offset /\ \A j \in Workers \ {w} : pc'[j] = pc[j]
        /\ w # 0 => pc[w] # "wrote" /\ pc'[w] # "wrote"
    BY <1>3, SaveStepEffect
  <2>3. \A j \in DOMAIN segments : Reach(j)' = Reach(j)
    BY <1>0, <2>1, <2>2 DEF Reach
  <2> QED
    BY <1>0, <2>1, <2>3, SameCount DEF SameRanges
<1>4. CASE Open
  <2>1. /\ segments' = segments /\ downloaded' = downloaded /\ offset' = offset
        /\ \A j \in Connections : pc[j] = "off" /\ pc'[j] # "wrote"
    BY <1>0, <1>4 DEF Open, Discipline, plan
  <2>2. \A j \in DOMAIN segments : Reach(j)' = Reach(j)
    BY <1>0, <2>1 DEF Reach
  <2> QED
    BY <1>0, <2>1, <2>2, SameCount DEF SameRanges
<1>5. CASE Probed
  <2>1. DOMAIN segments = {}
    BY <1>0, <1>5 DEF Probed, PlannedOnce
  <2>2. downloaded = 0
    <3>1. Counted = {}
      BY <2>1 DEF Counted
    <3> QED
      BY <1>0, <3>1, FS_EmptySet DEF CountRight
  <2>3. /\ segments' = Made(ranged') /\ ranged' \in BOOLEAN /\ downloaded' = downloaded
        /\ \A j \in Connections : pc'[j] = "off"
    BY <1>0, <1>5 DEF Probed, Made, Discipline, TypeOK
  <2>4. segments' \in SegmentLists /\ DOMAIN segments' \subseteq Connections
        /\ \A j \in DOMAIN segments' : segments'[j].current = segments'[j].start
    BY <2>3, MadeFacts, ListFacts
  <2>5. \A j \in DOMAIN segments' : Reach(j)' = segments'[j].start
    BY <2>3, <2>4 DEF Reach
  <2>6. (Cardinality(Counted) = 0)'
    BY <2>4, <2>5, NoneCounted DEF Counted
  <2> QED
    BY <2>2, <2>3, <2>6 DEF CountRight
<1>6. CASE Crash
  <2>1. DOMAIN segments' = {} /\ downloaded' = 0
    BY <1>6, Nothing DEF Crash
  <2>2. Counted' = {}
    BY <2>1 DEF Counted
  <2> QED
    BY <2>1, <2>2, FS_EmptySet DEF CountRight
<1>7. CASE Restart
  <2>1. downloaded' = BytesFetched(segments') /\ pc' = pc /\ status = "down"
    BY <1>7 DEF Restart, workers
  <2>2. \A j \in Connections : pc'[j] = "off"
    BY <1>0, <2>1 DEF Discipline
  <2>3. segments' \in SegmentLists /\ DOMAIN segments' \subseteq Connections
    BY <1>0, ListFacts DEF TypeOK
  <2>4. \A j \in DOMAIN segments' : Reach(j)' = segments'[j].current
    BY <2>2, <2>3 DEF Reach
  <2>5. Counted' = {b \in (DOMAIN segments') \X Bytes :
                      segments'[b[1]].start <= b[2] /\ b[2] < segments'[b[1]].current}
    BY <2>4 DEF Counted
  <2> QED
    BY <2>1, <2>5 DEF CountRight, BytesFetched
<1> QED
  BY <1>1, <1>2, <1>3, <1>4, <1>5, <1>6, <1>7
  DEF Next, RunStep, Resume, Pause, PauseReturns, ProbeFails, OpenFails, NextMirror, Collect, vars

LEMMA PlannedStep == TransferInv /\ PlannedOnce /\ [Next]_vars => PlannedOnce'
<1> SUFFICES ASSUME TransferInv, PlannedOnce, [Next]_vars PROVE PlannedOnce'
  OBVIOUS
<1>1. ASSUME NEW k \in Connections, SegmentStep(k) PROVE PlannedOnce'
  BY <1>1, SegmentStepEffect DEF PlannedOnce
<1>2. ASSUME NEW w \in Workers, SaveStep(w) PROVE PlannedOnce'
  <2>1. segments' = segments /\ (run' = "ensure" => run = "ensure")
    BY <1>2, SaveStepEffect
  <2> QED
    BY <2>1 DEF PlannedOnce
<1>3. CASE Resume \/ Pause \/ PauseReturns \/ ProbeFails \/ OpenFails \/ Open \/ Collect \/ UNCHANGED vars
  BY <1>3 DEF Resume, Pause, PauseReturns, ProbeFails, OpenFails, NextMirror, Open, Collect, Stop, Fail, vars,
              control, plan, workers, PlannedOnce
<1>4. CASE Probed \/ Crash
  BY <1>4 DEF Probed, Fail, Crash, PlannedOnce
<1>5. CASE Restart
  BY <1>5 DEF Restart, PlannedOnce, TransferInv, Discipline
<1> QED
  BY <1>1, <1>2, <1>3, <1>4, <1>5 DEF Next, RunStep

\* What a goroutine of a segment does to the other segments, and to its own.
LEMMA OwnSegment ==
    ASSUME TransferInv, InStep, NEW k \in Connections, SegmentStep(k)
    PROVE  /\ \A j \in DOMAIN segments \ {k} : segments'[j] = segments[j]
           /\ pc'[k] \in {"read", "save", "opened", "check"} => offset'[k] = segments'[k].current
           /\ pc'[k] = "off" => firstErr' # "none" \/ segments'[k].current = BodyEnd(k)
<1>1. /\ k \in DOMAIN segments /\ k \in DOMAIN pc /\ k \in DOMAIN offset
      /\ segments \in SegmentLists /\ offset[k] \in 0 .. Size
  <2>1. k \in DOMAIN segments
    BY SegmentStepEffect
  <2>2. TypeOK /\ k \in Workers
    BY LimitsAssumption DEF TransferInv, Workers, Connections
  <2> QED
    BY <2>1, <2>2 DEF TypeOK
<1>2. CASE Ask(k)
  <2>1. pc'[k] = "read" /\ offset'[k] = segments'[k].current
    BY <1>1, <1>2 DEF Ask, GoesTo
  <2>2. \A j \in DOMAIN segments \ {k} : segments'[j] = segments[j]
    BY <1>2, <1>1 DEF Ask, StartOver
  <2> QED
    BY <2>1, <2>2
<1>3. CASE AskFails(k)
  <2>1. \A j \in DOMAIN segments \ {k} : segments'[j] = segments[j]
    BY <1>3, <1>1 DEF AskFails, StartOver
  <2>2. pc'[k] = "ask" \/ (pc'[k] = "off" /\ firstErr' # "none")
    BY <1>1, <1>3 DEF AskFails, TryAgain, Leave, GoesTo
  <2> QED
    BY <2>1, <2>2
<1>4. CASE Write(k)
  <2>1. segments' = segments /\ pc'[k] = "wrote"
    BY <1>1, <1>4 DEF Write, GoesTo
  <2> QED
    BY <2>1
<1>5. CASE Record(k)
  <2>1. segments' = [segments EXCEPT ![k].current = offset[k]] /\ pc'[k] = "save" /\ offset' = offset
    BY <1>1, <1>5 DEF Record, GoesTo
  <2>2. segments'[k].current = offset[k] /\ \A j \in DOMAIN segments \ {k} : segments'[j] = segments[j]
    BY <1>1, <2>1, ListExcept
  <2> QED
    BY <2>1, <2>2
<1>6. CASE EndOfBody(k)
  <2>1. /\ segments' = segments /\ pc'[k] = "off"
        /\ pc[k] \in {"read", "check"} /\ offset[k] = BodyEnd(k)
    BY <1>1, <1>6 DEF EndOfBody, Leave, GoesTo, plan
  <2> QED
    BY <2>1 DEF InStep
<1>7. CASE ReadOn(k)
  <2>1. segments' = segments /\ offset' = offset /\ pc[k] = "check" /\ pc'[k] = "read"
    BY <1>1, <1>7 DEF ReadOn, GoesTo, plan
  <2> QED
    BY <2>1 DEF InStep
<1>8. CASE ReadCancelled(k) \/ ReadFails(k)
  <2>1. /\ segments' = segments
        /\ pc'[k] = "ask" \/ (pc'[k] = "off" /\ firstErr' # "none")
    BY <1>1, <1>8 DEF ReadCancelled, ReadFails, TryAgain, Leave, GoesTo, plan
  <2> QED
    BY <2>1
<1> QED
  BY <1>2, <1>3, <1>4, <1>5, <1>6, <1>7, <1>8 DEF SegmentStep

\* With the goroutines of the segments all gone there is nothing to be in
\* step with.
LEMMA NoneAtWork ==
    ASSUME \A k \in Connections : pc[k] = "off" \/ pc[k] = "ask"
    PROVE  InStep
BY DEF InStep

LEMMA InStepStep == TransferInv /\ InStep /\ [Next]_vars => InStep'
<1> SUFFICES ASSUME TransferInv, InStep, [Next]_vars PROVE InStep'
  OBVIOUS
<1>0. /\ TypeOK /\ Discipline /\ Connections \subseteq Workers /\ 0 \in Workers
      /\ 0 \notin Connections
  BY LimitsAssumption DEF TransferInv, Workers, Connections
<1>1. CASE UNCHANGED <<plan, workers>>
  BY <1>1 DEF plan, workers, InStep
<1>2. ASSUME NEW k \in Connections, SegmentStep(k) PROVE InStep'
  <2>1. ASSUME NEW j \in Connections, pc'[j] \in {"read", "save", "opened", "check"}
        PROVE  offset'[j] = segments'[j].current
    <3>1. CASE j = k
      BY <1>2, <2>1, <3>1, OwnSegment
    <3>2. CASE j # k
      <4>1. pc'[j] = pc[j] /\ offset'[j] = offset[j]
        BY <1>0, <1>2, <3>2, SegmentStepEffect
      <4>2. j \in DOMAIN segments
        BY <2>1, <4>1, <1>0 DEF Discipline
      <4>3. segments'[j] = segments[j]
        BY <1>2, <3>2, <4>2, OwnSegment
      <4> QED
        BY <2>1, <4>1, <4>3 DEF InStep
    <3> QED
      BY <3>1, <3>2
  <2> QED
    BY <2>1 DEF InStep
<1>3. ASSUME NEW w \in Workers, SaveStep(w) PROVE InStep'
  <2>1. /\ segments' = segments /\ offset' = offset
        /\ \A j \in Workers \ {w} : pc'[j] = pc[j]
        /\ w # 0 => pc[w] \in {"save", "opened"}
    BY <1>3, SaveStepEffect
  <2> QED
    BY <1>0, <2>1 DEF InStep
<1>4. CASE Open
  <2>1. \A k \in Connections : pc'[k] = "off" \/ pc'[k] = "ask"
    BY <1>0, <1>4 DEF Open
  <2> QED
    BY <2>1 DEF InStep
<1>5. CASE Probed \/ Restart
  <2>1. \A k \in Connections : pc[k] = "off" /\ pc'[k] = pc[k]
    BY <1>0, <1>5 DEF Probed, Restart, workers, Discipline, TypeOK
  <2> QED
    BY <2>1 DEF InStep
<1>6. CASE Crash
  BY <1>0, <1>6 DEF Crash, AllOff, InStep
<1> QED
  BY <1>1, <1>2, <1>3, <1>4, <1>5, <1>6
  DEF Next, RunStep, Resume, Pause, PauseReturns, ProbeFails, OpenFails, NextMirror, Collect, vars

LEMMA BehindStep == TransferInv /\ InStep /\ NoneLeftBehind /\ [Next]_vars => NoneLeftBehind'
<1> SUFFICES ASSUME TransferInv, InStep, NoneLeftBehind, [Next]_vars PROVE NoneLeftBehind'
  OBVIOUS
<1>0. /\ TypeOK /\ Discipline /\ Connections \subseteq Workers /\ 0 \in Workers
      /\ 0 \notin Connections
      /\ segments \in SegmentLists /\ DOMAIN segments \subseteq Connections
  <2>1. segments \in SegmentLists
    BY DEF TransferInv, TypeOK
  <2> QED
    BY <2>1, ListFacts, LimitsAssumption DEF TransferInv, Workers, Connections
<1>1. CASE UNCHANGED <<run, firstErr, plan, workers>>
  BY <1>1 DEF plan, workers, NoneLeftBehind, BodyEnd
<1>2. ASSUME NEW k \in Connections, SegmentStep(k) PROVE NoneLeftBehind'
  <2>1. ASSUME run' = "fetch", NEW j \in DOMAIN segments', pc'[j] = "off", firstErr' = "none"
        PROVE  segments'[j].current = BodyEnd(j)'
    <3>1. /\ DOMAIN segments' = DOMAIN segments /\ BodyEnd(j)' = BodyEnd(j)
          /\ run = "fetch" /\ firstErr = "none" /\ j \in Workers
      BY <1>0, <1>2, <2>1, SegmentStepEffect DEF SameRanges, BodyEnd
    <3>2. CASE j = k
      BY <1>2, <2>1, <3>1, <3>2, OwnSegment
    <3>3. CASE j # k
      <4>1. pc'[j] = pc[j] /\ segments'[j] = segments[j]
        BY <1>2, <3>1, <3>3, SegmentStepEffect, OwnSegment
      <4> QED
        BY <2>1, <3>1, <4>1 DEF NoneLeftBehind
    <3> QED
      BY <3>2, <3>3
  <2> QED
    BY <2>1 DEF NoneLeftBehind
<1>3. ASSUME NEW w \in Workers, SaveStep(w) PROVE NoneLeftBehind'
  <2>1. CASE w = 0
    <3>1. run' # "fetch"
      BY <1>0, <1>3, <2>1, SaveStepEffect DEF Discipline
    <3> QED
      BY <3>1 DEF NoneLeftBehind
  <2>2. CASE w # 0
    <3>1. /\ segments' = segments /\ firstErr' = firstErr /\ run' = run
          /\ \A j \in Workers \ {w} : pc'[j] = pc[j]
          /\ pc'[w] # "off"
      BY <1>3, <2>2, SaveStepEffect
    <3> QED
      BY <1>0, <3>1 DEF NoneLeftBehind, BodyEnd
  <2> QED
    BY <2>1, <2>2
<1>4. CASE Open
  <2>1. segments' = segments /\ \A j \in DOMAIN segments : pc'[j] = "off" => ~Pending(j)
    BY <1>0, <1>4 DEF Open, plan
  <2>2. ASSUME NEW j \in DOMAIN segments, ~Pending(j)
        PROVE  segments[j].current = BodyEnd(j)
    <3>1. segments[j] \in Segment
      BY <1>0, ListFacts
    <3>2. /\ DOMAIN segments = DOMAIN Made(ranged) /\ segments[j].end = Made(ranged)[j].end
          /\ segments[j].current \in Made(ranged)[j].start .. Limit(Made(ranged)[j])
      BY DEF TransferInv, AllBacked, Backed, Shaped, Made
    <3>3. segments[j].current <= BodyEnd(j)
      BY <3>2 DEF BodyEnd, Limit
    <3> QED
      BY <2>2, <3>1, <3>3, SizeAssumption DEF Pending, BodyEnd, Limit, Segment
  <2> QED
    BY <2>1, <2>2 DEF NoneLeftBehind, BodyEnd
<1>5. CASE Resume \/ ProbeFails \/ OpenFails \/ Collect \/ Probed \/ Crash
  <2>1. run' # "fetch"
    BY <1>5 DEF Resume, ProbeFails, OpenFails, NextMirror, Collect, Probed, Crash, Stop, Fail
  <2> QED
    BY <2>1 DEF NoneLeftBehind
<1>6. CASE Restart
  BY <1>0, <1>6 DEF Restart, NoneLeftBehind, Discipline
<1> QED
  BY <1>1, <1>2, <1>3, <1>4, <1>5, <1>6
  DEF Next, RunStep, Pause, PauseReturns, vars, control

LEMMA AtEndStep == TransferInv /\ NoneLeftBehind /\ AllAtEnd /\ [Next]_vars => AllAtEnd'
<1> SUFFICES ASSUME TransferInv, NoneLeftBehind, AllAtEnd, [Next]_vars, status' = "complete"
             PROVE  /\ DOMAIN segments' # {}
                    /\ \A k \in DOMAIN segments' : segments'[k].current = BodyEnd(k)'
  BY DEF AllAtEnd
<1>1. CASE status = "complete" /\ segments' = segments
  BY <1>1 DEF AllAtEnd, BodyEnd
<1>2. CASE Collect
  <2>1. CASE status = "complete"
    BY <1>2, <2>1 DEF Collect, NextMirror, TransferInv, Discipline
  <2>2. CASE status # "complete"
    <3>1. /\ run = "fetch" /\ pc = AllOff /\ firstErr = "none" /\ segments' = segments
      BY <1>2, <2>2 DEF Collect, NextMirror, Stop, Fail, plan
    <3>2. DOMAIN segments # {}
      BY <3>1 DEF TransferInv, Discipline
    <3>3. DOMAIN segments \subseteq Workers
      <4>1. DOMAIN segments \subseteq Connections
        BY ListFacts DEF TransferInv, TypeOK
      <4> QED
        BY <4>1, LimitsAssumption DEF Workers, Connections
    <3>4. \A k \in DOMAIN segments : segments[k].current = BodyEnd(k)
      BY <3>1, <3>3 DEF NoneLeftBehind, AllOff
    <3> QED
      BY <3>1, <3>2, <3>4 DEF BodyEnd
  <2> QED
    BY <2>1, <2>2
<1>3. CASE Resume \/ Crash \/ Restart
  BY <1>3 DEF Resume, Crash, Restart
<1>4. CASE Pause \/ PauseReturns \/ UNCHANGED vars
  BY <1>1, <1>4 DEF Pause, PauseReturns, plan, vars, control
<1>5. CASE ProbeFails \/ OpenFails \/ Probed \/ Open
  BY <1>5 DEF ProbeFails, OpenFails, NextMirror, Probed, Open, Stop, Fail, TransferInv, Discipline
<1>6. ASSUME NEW k \in Connections, SegmentStep(k) PROVE FALSE
  BY <1>6, SegmentStepEffect DEF TransferInv, Discipline
<1>7. ASSUME NEW w \in Workers, SaveStep(w) PROVE FALSE
  <2>1. status' = status /\ run # "off"
    BY <1>7, SaveStepEffect DEF TransferInv, Discipline, Workers, Connections
  <2> QED
    BY <2>1 DEF TransferInv, Discipline
<1> QED
  BY <1>2, <1>3, <1>4, <1>5, <1>6, <1>7 DEF Next, RunStep

\* The ranges that buildSegments makes do not overlap.
LEMMA MadeApart ==
    ASSUME NEW r \in BOOLEAN, NEW j \in DOMAIN Made(r), NEW k \in DOMAIN Made(r), j < k
    PROVE  Limit(Made(r)[j]) <= Made(r)[k].start
<1>1. CASE ~(r /\ Total > 0)
  BY <1>1 DEF Made, BuildSegments, Unbounded
<1>2. CASE r /\ Total > 0
  <2> DEFINE n == Pieces(Size, MaxConn)
             size == Size \div n
  <2>1. Made(r) = BoundedSegments(Size, n)
    BY <1>2 DEF Made, BuildSegments, Total
  <2>2. n \in 1 .. Size
    BY Sized, SizeAssumption, LimitsAssumption
  <2>3. size \in Nat
    BY <2>2, DivisionBounds, SizeAssumption
  <2>4. BoundedSegments(Size, n) =
           [i \in 1 .. n |-> [start |-> (i - 1) * size, current |-> (i - 1) * size,
                              end |-> IF i = n THEN Size - 1 ELSE i * size - 1]]
    BY DEF BoundedSegments
  <2> HIDE DEF n, size
  <2>5. j \in 1 .. n /\ k \in 1 .. n /\ j # n /\ n \in Nat /\ j \in Nat /\ k - 1 \in Nat
        /\ j <= k - 1
    BY <2>1, <2>2, <2>4
  <2>6. Made(r)[j].end = j * size - 1 /\ Made(r)[k].start = (k - 1) * size
    BY <2>1, <2>4, <2>5
  <2>7. j * size <= (k - 1) * size /\ j * size \in Nat /\ (k - 1) * size \in Nat
    BY <2>3, <2>5, ProductGrows
  <2>8. Made(r)[j].end \in 0 .. Size - 1
    BY <2>1, <2>2, <2>5, WithinFile, SizeAssumption
  <2> QED
    BY <2>6, <2>7, <2>8, SizeAssumption DEF Limit
<1> QED
  BY <1>1, <1>2

\* No segment gets beyond the end of its range.
LEMMA ReachWithin ==
    ASSUME TransferInv, NEW k \in DOMAIN segments
    PROVE  /\ segments[k].start \in 0 .. Size /\ BodyEnd(k) \in 0 .. Size
           /\ Reach(k) \in segments[k].start .. BodyEnd(k)
           /\ k \in DOMAIN Made(ranged) /\ segments[k].start = Made(ranged)[k].start
           /\ BodyEnd(k) = Limit(Made(ranged)[k])
<1>1. segments \in SegmentLists /\ k \in Connections
  BY ListFacts DEF TransferInv, TypeOK
<1>2. segments[k] \in Segment /\ BodyEnd(k) \in 0 .. Size
  BY <1>1, ListFacts DEF BodyEnd
<1>3. /\ k \in DOMAIN Made(ranged)
      /\ segments[k].start = Made(ranged)[k].start
      /\ segments[k].end = Made(ranged)[k].end
      /\ segments[k].current \in Made(ranged)[k].start .. Limit(Made(ranged)[k])
  BY DEF TransferInv, AllBacked, Backed, Shaped, Made
<1>4. BodyEnd(k) = Limit(Made(ranged)[k])
  BY <1>3 DEF BodyEnd, Limit
<1>5. Reach(k) \in segments[k].start .. BodyEnd(k)
  BY <1>1, <1>3, <1>4 DEF Reach, TransferInv, WrittenBeforeRecorded
<1> QED
  BY <1>2, <1>3, <1>4, <1>5 DEF Segment

\* Every byte is counted for one segment at most.
LEMMA CountedOnce ==
    ASSUME TransferInv
    PROVE  [b \in Counted |-> b[2]] \in Injection(Counted, Bytes)
<1>1. \A b \in Counted : /\ b[1] \in DOMAIN segments /\ b[2] \in Bytes /\ b = <<b[1], b[2]>>
                         /\ segments[b[1]].start <= b[2] /\ b[2] < BodyEnd(b[1])
  <2> TAKE b \in Counted
  <2>1. /\ b[1] \in DOMAIN segments /\ b[2] \in Bytes /\ b = <<b[1], b[2]>>
        /\ segments[b[1]].start <= b[2] /\ b[2] < Reach(b[1])
    BY DEF Counted
  <2> QED
    BY <2>1, ReachWithin, SizeAssumption DEF Bytes
<1>2. DOMAIN segments \subseteq Nat
  <2>1. DOMAIN segments \subseteq Connections
    BY ListFacts DEF TransferInv, TypeOK
  <2> QED
    BY <2>1, LimitsAssumption DEF Connections
<1>3. ASSUME NEW j \in DOMAIN segments, NEW k \in DOMAIN segments, j < k
      PROVE  BodyEnd(j) <= segments[k].start
  BY <1>3, MadeApart, ReachWithin DEF TransferInv, TypeOK
<1>4. ASSUME NEW b \in Counted, NEW c \in Counted, b[2] = c[2]
      PROVE  b = c
  <2>1. /\ BodyEnd(b[1]) \in Int /\ BodyEnd(c[1]) \in Int /\ b[2] \in Int
        /\ segments[b[1]].start \in Int /\ segments[c[1]].start \in Int
        /\ b[1] \in Int /\ c[1] \in Int
    BY <1>1, <1>2, ReachWithin, SizeAssumption DEF Bytes
  <2>2. ~(b[1] < c[1])
    <3>1. b[1] < c[1] => BodyEnd(b[1]) <= segments[c[1]].start
      BY <1>1, <1>3
    <3>2. b[2] < BodyEnd(b[1]) /\ segments[c[1]].start <= b[2]
      BY <1>1, <1>4
    <3> QED
      BY <2>1, <3>1, <3>2
  <2>3. ~(c[1] < b[1])
    <3>1. c[1] < b[1] => BodyEnd(c[1]) <= segments[b[1]].start
      BY <1>1, <1>3
    <3>2. b[2] < BodyEnd(c[1]) /\ segments[b[1]].start <= b[2]
      BY <1>1, <1>4
    <3> QED
      BY <2>1, <3>1, <3>2
  <2>4. b[1] = c[1]
    BY <2>1, <2>2, <2>3
  <2> QED
    BY <1>1, <1>4, <2>4
<1> QED
  BY <1>1, <1>4 DEF Injection, IsInjective

\* What is counted is never more than the content, and all of it once every
\* segment has got to its end.
LEMMA CountedWithin ==
    ASSUME TransferInv
    PROVE  /\ Cardinality(Counted) <= Size
           /\ DOMAIN segments # {} /\ (\A k \in DOMAIN segments : Reach(k) = BodyEnd(k))
                => Cardinality(Counted) = Size
<1> DEFINE byte == [b \in Counted |-> b[2]]
<1>1. IsFiniteSet(Bytes) /\ Cardinality(Bytes) = Size
  <2> DEFINE last == Size - 1
  <2>1. last \in Int /\ 0 <= last /\ last - 0 + 1 = Size /\ Bytes = 0 .. last
    BY SizeAssumption DEF Bytes
  <2> HIDE DEF last
  <2> QED
    BY <2>1, FS_Interval
<1>2. byte \in Injection(Counted, Bytes)
  BY CountedOnce
<1>3. ASSUME DOMAIN segments # {}, \A k \in DOMAIN segments : Reach(k) = BodyEnd(k)
      PROVE  byte \in Surjection(Counted, Bytes)
  <2>1. byte \in [Counted -> Bytes]
    BY <1>2 DEF Injection
  <2>2. ASSUME NEW a \in Bytes PROVE \E b \in Counted : b[2] = a
    <3>1. DOMAIN segments = DOMAIN Made(ranged) /\ ranged \in BOOLEAN
      BY <1>3 DEF TransferInv, AllBacked, Backed, Shaped, Made, TypeOK
    <3>2. PICK k \in DOMAIN segments : a \in Whole(Made(ranged)[k])
      BY <3>1, MadeFacts
    <3>3. segments[k].start = Made(ranged)[k].start /\ Reach(k) = Limit(Made(ranged)[k])
          /\ Limit(Made(ranged)[k]) \in 0 .. Size
      BY <1>3, ReachWithin
    <3>4. segments[k].start <= a /\ a < Reach(k)
      BY <3>2, <3>3, SizeAssumption DEF Whole
    <3>5. <<k, a>> \in Counted
      BY <3>4 DEF Counted
    <3> QED
      BY <3>5
  <2> QED
    BY <2>1, <2>2 DEF Surjection
<1> HIDE DEF byte
<1> QED
  BY <1>1, <1>2, <1>3, FS_Injection

LEMMA ProgressStep == TransferInv /\ ProgressInv /\ [Next]_vars => ProgressInv'
BY CountStep, PlannedStep, InStepStep, BehindStep, AtEndStep DEF ProgressInv

\* What follows when nobody is at work.
LEMMA ProgressHolds ==
    ASSUME TransferInv, ProgressInv
    PROVE  ProgressAddsUp /\ ProgressWithin
<1>1. \A k \in DOMAIN segments : pc[k] = "off" => Reach(k) = segments[k].current
  BY DEF Reach
<1>2. run = "off" => \A k \in DOMAIN segments : pc[k] = "off"
  <2>1. DOMAIN segments \subseteq Connections
    BY ListFacts DEF TransferInv, TypeOK
  <2> QED
    BY <2>1 DEF TransferInv, Discipline
<1>3. ProgressAddsUp
  BY <1>1, <1>2 DEF ProgressInv, CountRight, Counted, ProgressAddsUp, BytesFetched
<1>4. status = "complete" => run = "off"
  BY DEF TransferInv, Discipline
<1>5. status = "complete" =>
         DOMAIN segments # {} /\ \A k \in DOMAIN segments : Reach(k) = BodyEnd(k)
  BY <1>1, <1>2, <1>4 DEF ProgressInv, AllAtEnd
<1>6. downloaded = Cardinality(Counted)
  BY DEF ProgressInv, CountRight
<1> QED
  BY <1>3, <1>5, <1>6, CountedWithin DEF ProgressWithin

-----------------------------------------------------------------------------
(* How a Pause comes to its end.                                           *)

\* How far a goroutine is from its end, in steps, once its context is done: the
\* body is not read on, so that all that may come again is another attempt.
Ahead(place) ==
    CASE place = "ask" -> 6 [] place = "read" -> 5 [] place = "wrote" -> 4
      [] place = "save" -> 3 [] place = "opened" -> 2 [] place = "check" -> 1
      [] OTHER -> 0

LeftOf(w) ==
    IF pc[w] = "off" THEN 0 ELSE 7 * (MaxRetries - tries[w]) + Ahead(pc[w])

\* How far run is: the mirrors that it may still turn to, and its place.
RunAhead ==
    CASE run = "ensure" -> 4 [] run = "save" -> 3 [] run = "open" -> 2 [] OTHER -> 1

LeftOfRun == IF run = "off" THEN 0 ELSE 5 * (Mirrors - mirror) + RunAhead

\* Of these numbers one goes down: that of run, or, with run where it was, that of
\* one goroutine, and of no other does it go up.
Nearer ==
    \/ LeftOfRun' < LeftOfRun
    \/ /\ LeftOfRun' = LeftOfRun
       /\ \E w \in Workers :
             /\ LeftOf(w)' < LeftOf(w)
             /\ \A v \in Workers \ {w} : LeftOf(v)' = LeftOf(v)

\* What the proof needs of a Pause: the context it waits for is done, and a plan
\* that is being saved has somebody who saves it.
PauseInv ==
    /\ pausing => ctxDone /\ status # "down"
    /\ run = "save" => pc[0] \in {"save", "opened"}

\* None of them goes down for ever.
LeftTyped ==
    /\ LeftOfRun \in Nat
    /\ \A w \in Workers : LeftOf(w) \in Nat

LEMMA LeftType == TypeOK => LeftTyped
<1> SUFFICES ASSUME TypeOK PROVE LeftTyped
  OBVIOUS
<1>1. Mirrors - mirror \in Nat
  BY LimitsAssumption DEF TypeOK
<1>2. RunAhead \in Nat
  BY DEF RunAhead
<1>3. \A w \in Workers : MaxRetries - tries[w] \in Nat /\ Ahead(pc[w]) \in Nat
  BY LimitsAssumption DEF TypeOK, Ahead
<1> QED
  BY <1>1, <1>2, <1>3 DEF LeftTyped, LeftOfRun, LeftOf

LEMMA PauseInvInit == Init => PauseInv
BY DEF Init, PauseInv

LEMMA PauseInvStep == TransferInv /\ PauseInv /\ [Next]_vars => PauseInv'
<1> SUFFICES ASSUME TransferInv, PauseInv, [Next]_vars PROVE PauseInv'
  OBVIOUS
<1>0. TypeOK /\ Discipline /\ 0 \in Workers /\ 0 \notin Connections
  BY LimitsAssumption DEF TransferInv, Workers, Connections
<1>1. CASE Resume \/ Pause \/ PauseReturns \/ Crash \/ Restart
  <2>1. (pausing => ctxDone /\ status # "down")'
    BY <1>1 DEF Resume, Pause, PauseReturns, Crash, Restart, PauseInv
  <2>2. (run = "save" => pc[0] \in {"save", "opened"})'
    BY <1>1 DEF Resume, Pause, PauseReturns, Crash, Restart, workers, PauseInv
  <2> QED
    BY <2>1, <2>2 DEF PauseInv
<1>2. CASE RunStep
  <2>1. (pausing => ctxDone /\ status # "down")'
    BY <1>2 DEF RunStep, Probed, ProbeFails, OpenFails, NextMirror, Open, Collect, Stop, Fail, PauseInv
  <2>2. (run = "save" => pc[0] \in {"save", "opened"})'
    BY <1>0, <1>2 DEF RunStep, Probed, ProbeFails, OpenFails, NextMirror, Open, Collect, Stop, Fail, PauseInv, TypeOK
  <2> QED
    BY <2>1, <2>2 DEF PauseInv
<1>3. ASSUME NEW k \in Connections, SegmentStep(k) PROVE PauseInv'
  <2>1. run = "fetch" /\ run' = run /\ status' = status
    BY <1>3, SegmentStepEffect
  <2>2. ctxDone' = ctxDone /\ pausing' = pausing
    BY <1>3 DEF SegmentStep, Ask, AskFails, Write, Record, EndOfBody, ReadOn, ReadCancelled,
                ReadFails, TryAgain, Leave, GoesTo
  <2> QED
    BY <2>1, <2>2 DEF PauseInv
<1>4. ASSUME NEW w \in Workers, SaveStep(w) PROVE PauseInv'
  <2>1. ctxDone' = ctxDone /\ pausing' = pausing /\ (status' = "down" => status = "down")
    BY <1>4 DEF SaveStep, OpenSidecar, WriteSidecar, SaveFails, Fail, GoesTo
  <2>2. (run = "save" => pc[0] \in {"save", "opened"})'
    BY <1>0, <1>4 DEF SaveStep, OpenSidecar, WriteSidecar, SaveFails, Fail, GoesTo, PauseInv,
                      TypeOK
  <2> QED
    BY <2>1, <2>2 DEF PauseInv
<1>5. CASE UNCHANGED vars
  BY <1>5 DEF vars, control, workers, PauseInv
<1> QED
  BY <1>1, <1>2, <1>3, <1>4, <1>5 DEF Next

\* A step of run itself.
LEMMA RunNearer ==
    ASSUME TypeOK, RunStep
    PROVE  LeftOfRun' < LeftOfRun
<1>0. mirror \in 1 .. Mirrors /\ Mirrors \in Nat
  BY LimitsAssumption DEF TypeOK
<1>1. CASE Probed
  BY <1>0, <1>1 DEF Probed, Fail, LeftOfRun, RunAhead
<1>2. CASE ProbeFails \/ OpenFails
  BY <1>0, <1>2 DEF ProbeFails, OpenFails, NextMirror, Stop, Fail, LeftOfRun, RunAhead
<1>3. CASE Open
  BY <1>0, <1>3 DEF Open, LeftOfRun, RunAhead
<1>4. CASE Collect
  BY <1>0, <1>4 DEF Collect, NextMirror, Stop, Fail, LeftOfRun, RunAhead
<1> QED
  BY <1>1, <1>2, <1>3, <1>4 DEF RunStep

\* A step of a segment's goroutine: another attempt uses one up, and everything
\* else leads to the end of this one.
LEMMA SegmentNearer ==
    ASSUME TransferInv, ctxDone, NEW k \in Connections, SegmentStep(k)
    PROVE  Nearer
<1>0. TypeOK /\ k \in Workers
  BY LimitsAssumption DEF TransferInv, Workers, Connections
<1>1. run' = run /\ mirror' = mirror /\ pc[k] # "off"
  BY DEF SegmentStep, Ask, AskFails, StartOver, Write, Record, EndOfBody, ReadOn, ReadCancelled,
         ReadFails, TryAgain, Leave, GoesTo
<1>2. \A v \in Workers \ {k} : pc'[v] = pc[v] /\ tries'[v] = tries[v]
  BY <1>0 DEF SegmentStep, Ask, AskFails, Write, Record, EndOfBody, ReadOn, ReadCancelled,
         ReadFails, TryAgain, Leave, GoesTo, TypeOK, plan
<1>3. \/ pc'[k] = "off"
      \/ pc'[k] = "ask" /\ tries'[k] = tries[k] + 1
      \/ tries'[k] = tries[k] /\ \/ pc[k] = "ask" /\ pc'[k] = "read"
                                 \/ pc[k] = "read" /\ pc'[k] = "wrote"
                                 \/ pc[k] = "wrote" /\ pc'[k] = "save"
  <2>1. ASSUME Leave(k, "none") \/ Leave(k, "cancelled") \/ Leave(k, "fault") PROVE pc'[k] = "off"
    BY <1>0, <2>1 DEF Leave, GoesTo, TypeOK
  <2>2. ASSUME TryAgain(k) PROVE pc'[k] = "off" \/ (pc'[k] = "ask" /\ tries'[k] = tries[k] + 1)
    BY <1>0, <2>1, <2>2 DEF TryAgain, GoesTo, TypeOK
  <2>3. CASE Ask(k)
    BY <1>0, <2>3 DEF Ask, StartOver, GoesTo, TypeOK
  <2>4. CASE Write(k)
    BY <1>0, <2>4 DEF Write, GoesTo, TypeOK
  <2>5. CASE Record(k)
    BY <1>0, <2>5 DEF Record, GoesTo, TypeOK
  <2> QED
    BY <2>1, <2>2, <2>3, <2>4, <2>5
       DEF SegmentStep, AskFails, EndOfBody, ReadOn, ReadCancelled, ReadFails
<1>4. /\ MaxRetries - tries[k] \in Nat
      /\ tries'[k] = tries[k] + 1 => MaxRetries - tries'[k] = (MaxRetries - tries[k]) - 1
  BY <1>0, LimitsAssumption DEF TypeOK
<1>5. 7 * (MaxRetries - tries[k]) \in Nat /\ 7 * ((MaxRetries - tries[k]) - 1) = 7 * (MaxRetries - tries[k]) - 7
  BY <1>4
<1>6. Ahead(pc[k]) \in 1 .. 6
  BY <1>0, <1>1 DEF Ahead, TypeOK
<1>7. LeftOf(k)' < LeftOf(k)
  <2>1. CASE pc'[k] = "off"
    BY <1>1, <1>5, <1>6, <2>1 DEF LeftOf
  <2>2. CASE pc'[k] = "ask" /\ tries'[k] = tries[k] + 1
    BY <1>1, <1>4, <1>5, <1>6, <2>2 DEF LeftOf, Ahead
  <2>3. CASE tries'[k] = tries[k] /\ pc'[k] # "off" /\ Ahead(pc'[k]) < Ahead(pc[k])
    <3>1. Ahead(pc'[k]) \in Nat
      BY DEF Ahead
    <3> QED
      BY <1>1, <1>5, <1>6, <2>3, <3>1 DEF LeftOf
  <2> QED
    BY <1>3, <2>1, <2>2, <2>3 DEF Ahead
<1>8. LeftOfRun' = LeftOfRun
  BY <1>1 DEF LeftOfRun, RunAhead
<1>9. \A v \in Workers \ {k} : LeftOf(v)' = LeftOf(v)
  BY <1>2 DEF LeftOf
<1> QED
  BY <1>0, <1>7, <1>8, <1>9 DEF Nearer

\* A step of a save.
LEMMA SaveNearer ==
    ASSUME TransferInv, NEW w \in Workers, SaveStep(w)
    PROVE  Nearer
<1>0. TypeOK /\ (pc[0] # "off" => run = "save")
  BY DEF TransferInv, Discipline
<1>1. mirror' = mirror /\ tries' = tries /\ \A v \in Workers \ {w} : pc'[v] = pc[v]
  BY <1>0 DEF SaveStep, OpenSidecar, WriteSidecar, SaveFails, Fail, GoesTo, TypeOK
<1>2. CASE run' # run
  <2>1. run = "save" /\ run' \in {"open", "off"}
    BY <1>0, <1>2 DEF SaveStep, OpenSidecar, WriteSidecar, SaveFails, Fail, GoesTo
  <2>2. 5 * (Mirrors - mirror) \in Nat
    BY <1>0, LimitsAssumption DEF TypeOK
  <2>3. LeftOfRun' < LeftOfRun
    BY <1>1, <2>1, <2>2 DEF LeftOfRun, RunAhead
  <2> QED
    BY <2>3 DEF Nearer
<1>3. CASE run' = run
  <2>1. \/ pc[w] = "save" /\ pc'[w] \in {"opened", "check"}
        \/ pc[w] = "opened" /\ pc'[w] = "check"
    BY <1>0, <1>3 DEF SaveStep, OpenSidecar, WriteSidecar, SaveFails, Fail, GoesTo, TypeOK
  <2>2. 7 * (MaxRetries - tries[w]) \in Nat
    BY <1>0, LimitsAssumption DEF TypeOK
  <2>3. LeftOf(w)' < LeftOf(w)
    BY <1>1, <2>1, <2>2 DEF LeftOf, Ahead
  <2>4. LeftOfRun' = LeftOfRun
    BY <1>1, <1>3 DEF LeftOfRun, RunAhead
  <2>5. \A v \in Workers \ {w} : LeftOf(v)' = LeftOf(v)
    BY <1>1 DEF LeftOf
  <2> QED
    BY <2>3, <2>4, <2>5 DEF Nearer
<1> QED
  BY <1>2, <1>3

\* While Pause waits (task.go:186) every step of the transfer, a failure or a
\* retry too, brings the end nearer.
PauseWindsDown == [][pausing /\ pausing' => Nearer]_vars

LEMMA WindsDown ==
    ASSUME TransferInv, PauseInv, Next, pausing, pausing'
    PROVE  Nearer
<1>1. ctxDone /\ status # "down" /\ TypeOK
  BY DEF PauseInv, TransferInv
<1>2. ~(Resume \/ Pause \/ PauseReturns \/ Crash \/ Restart)
  BY <1>1 DEF Resume, Pause, PauseReturns, Crash, Restart
<1> QED
  BY <1>1, <1>2, RunNearer, SegmentNearer, SaveNearer DEF Next, Nearer

-----------------------------------------------------------------------------
(* The theorems.                                                           *)

LEMMA TransferInvInit == Init => TransferInv
<1> SUFFICES ASSUME Init PROVE TransferInv
  OBVIOUS
<1>1. TypeOK
  BY TypeInit
<1>2. AllBacked
  <2>1. /\ DOMAIN [ranged |-> ranged, segments |-> segments].segments = {}
        /\ DOMAIN NoSnapshot.segments = {}
        /\ DOMAIN sidecar.snapshot.segments = {}
    BY Nothing DEF Init, NoSnapshot, Absent
  <2>2. \A w \in Workers : snap[w] = NoSnapshot
    BY DEF Init, NoSnapshots
  <2> QED
    BY <2>1, <2>2, EmptyBacked DEF AllBacked
<1>3. \A w \in Workers : pc[w] = "off"
  BY DEF Init, AllOff
<1>4. 0 \in Workers /\ Connections \subseteq Workers
  BY LimitsAssumption DEF Workers, Connections
<1>5. Discipline /\ WrittenBeforeRecorded /\ NothingSkipped /\ CompleteMeansContent
  BY <1>3, <1>4 DEF Init, Discipline, WrittenBeforeRecorded, NothingSkipped,
                    CompleteMeansContent
<1> QED
  BY <1>1, <1>2, <1>5 DEF TransferInv

LEMMA TransferInvStep == TransferInv /\ [Next]_vars => TransferInv'
BY TypeStep, BackedStep, DisciplineStep, WrittenStep, SkippedStep, CompleteStep
DEF TransferInv

\* fetchSegment, retryWithBackoff, saveProgress and New together keep the
\* inductive invariant, whatever fails and wherever the process crashes.
THEOREM TransferSafe == Spec => []TransferInv
BY TransferInvInit, TransferInvStep, PTL DEF Spec

\* finalize comes to "complete" only with every byte of the content in the
\* file, after any pauses, retries, other mirrors, crashes and restarts.
THEOREM CompleteIsContent == Spec => []CompleteMeansContent
<1>1. TransferInv => CompleteMeansContent
  BY DEF TransferInv
<1> QED
  BY <1>1, TransferSafe, PTL

\* What saveProgress leaves on the disk, written without Task.mu and in any
\* order, never claims a byte that WriteAt has not written.
THEOREM SidecarIsNotAhead == Spec => []SidecarNotAhead
<1>1. TransferInv => SidecarNotAhead
  BY DEF TransferInv, AllBacked, Backed, SidecarNotAhead
<1> QED
  BY <1>1, TransferSafe, PTL

\* No task of a content whose size is known fails unless a disk, a network or
\* a server has: a Pause is not taken for a failure, and no range is asked for
\* from one byte past its end (downloadSegments, fetchSegment).
THEOREM ErrorsHaveCauses ==
    ASSUME SizeKnown
    PROVE  Spec => []NoErrorWithoutFault
<1>0. TransferInv /\ ErrorInv /\ [Next]_vars => ErrorInv'
  BY ErrorInvStep
<1>1. Init => ErrorInv
  BY Nothing DEF Init, ErrorInv, NoErrorWithoutFault, AsksForMore
<1>2. ErrorInv => NoErrorWithoutFault
  BY DEF ErrorInv
<1> QED
  BY <1>0, <1>1, <1>2, TransferSafe, PTL DEF Spec

LEMMA ProgressInit == Init => ProgressInv
<1> SUFFICES ASSUME Init PROVE ProgressInv
  OBVIOUS
<1>1. DOMAIN segments = {} /\ downloaded = 0 /\ run = "off" /\ status = "pending"
  BY Nothing DEF Init
<1>2. CountRight
  <2>1. Counted = {}
    BY <1>1 DEF Counted
  <2> QED
    BY <1>1, <2>1, FS_EmptySet DEF CountRight
<1>3. \A k \in Connections : pc[k] = "off"
  BY LimitsAssumption DEF Init, AllOff, Workers, Connections
<1> QED
  BY <1>1, <1>2, <1>3 DEF ProgressInv, PlannedOnce, InStep, NoneLeftBehind, AllAtEnd

\* While nobody is at work the counter Progress reports agrees with the resume
\* points (Task.downloaded against Task.segments), whatever was retried, begun
\* again without ranges, or taken up from the sidecar.
THEOREM ProgressIsRight == Spec => []ProgressAddsUp
BY ProgressInit, ProgressStep, ProgressHolds, TransferSafe, PTL DEF Spec

\* Progress never reports more bytes than the content has, however many
\* goroutines write while others retry, and reports all of them once the task
\* is complete: no range overlaps another and none is left out.
THEOREM ProgressStaysWithin == Spec => []ProgressWithin
BY ProgressInit, ProgressStep, ProgressHolds, TransferSafe, PTL DEF Spec

\* A Pause is waited for only so many steps: the context is done all the while,
\* every step of run, of a segment or of a save leads to the end, and as there are
\* finitely many attempts and mirrors no sequence of failures leads away from it.
\* With the fairness of FairSpec this is what PauseEnds needs.
THEOREM PausesWindDown == Spec => []LeftTyped /\ PauseWindsDown
<1>1. TransferInv /\ PauseInv /\ [Next]_vars => [pausing /\ pausing' => Nearer]_vars
  BY WindsDown
<1>2. TransferInv => LeftTyped
  BY LeftType DEF TransferInv
<1> QED
  BY <1>1, <1>2, PauseInvInit, PauseInvStep, TransferSafe, PTL DEF Spec, PauseWindsDown
=============================================================================
