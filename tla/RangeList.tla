------------------------------- MODULE RangeList ------------------------------
(***************************************************************************)
(* The class RangeList of DS_RangeList.h: numbers kept as ranges, which    *)
(* are written to a bit stream as far as they fit and read on the other    *)
(* side.  A range_type has TypeBits bits and wraps around.                 *)
(***************************************************************************)
EXTENDS Integers, Sequences
LOCAL INSTANCE SequencesExt

CONSTANTS TypeBits,  \* the bits of range_type
          MaxBits,   \* the values of Serialize's maxBits
          MaxRanges, \* bound: ranges in the list
          Repeats    \* is a number inserted that is in the list

RangeListAssumption ==
    TypeBits \in Nat \ {0} /\ MaxBits \subseteq Nat /\ MaxRanges \in Nat /\ Repeats \in BOOLEAN

VARIABLES ranges,  \* the ranges, each with its minIndex and maxIndex
          pending  \* the numbers that were inserted and not handed over since

vars == <<ranges, pending>>

Lists == INSTANCE OrderedList

Index == 0 .. 2 ^ TypeBits - 1
After(n) == (n + 1) % 2 ^ TypeBits
BeforeThat(n) == (n - 1) % 2 ^ TypeBits

RangeNode(min, max) == [minIndex |-> min, maxIndex |-> max]
Keys(list) == [i \in DOMAIN list |-> list[i].minIndex]

-----------------------------------------------------------------------------
(* Insert.                                                                 *)

\* No range begins with index or later.
InsertedBehind(list, index) ==
    LET last == Last(list).maxIndex
    IN  IF index = After(last) THEN [list EXCEPT ![Len(list)].maxIndex = index]
        ELSE IF index > After(last) THEN Append(list, RangeNode(index, index))
        ELSE list

\* Mutant: the range on the left stays as it is.
JoinedLeftKeeps(list, i) == Lists!RemoveAtIndex(list, i - 1)

\* Mutant: the range at i stays, too.
JoinedLeftStays(list, i) == [list EXCEPT ![i - 1].maxIndex = list[i].maxIndex]

\* The range at i becomes part of the one before it.
JoinedLeft(list, i) ==
    Lists!RemoveAtIndex([list EXCEPT ![i - 1].maxIndex = list[i].maxIndex], i - 1)

JoinedRight(list, i) ==
    Lists!RemoveAtIndex([list EXCEPT ![i + 1].minIndex = list[i].minIndex], i - 1)

\* The range at i is the first that begins with index or later.
InsertedAt(list, index, i) ==
    LET r == list[i]
        lower == [list EXCEPT ![i].minIndex = BeforeThat(@)]
        higher == [list EXCEPT ![i].maxIndex = After(@)]
    IN  IF index < BeforeThat(r.minIndex) THEN Lists!InsertAtIndex(list, RangeNode(index, index), i - 1)
        ELSE IF index = BeforeThat(r.minIndex)
        THEN IF i > 1 /\ After(list[i - 1].maxIndex) = index THEN JoinedLeft(lower, i) ELSE lower
        ELSE IF r.minIndex <= index /\ index <= r.maxIndex THEN list
        ELSE IF index = After(r.maxIndex)
        THEN IF i < Len(list) /\ list[i + 1].minIndex = After(index) THEN JoinedRight(higher, i) ELSE higher
        ELSE list

Inserted(list, index) ==
    LET found == Lists!GetIndexFromKey(Keys(list), index)
    IN  IF list = <<>> THEN <<RangeNode(index, index)>>
        ELSE IF found.index = Len(list) THEN InsertedBehind(list, index)
        ELSE InsertedAt(list, index, found.index + 1)

-----------------------------------------------------------------------------
(* Serialize.                                                              *)

\* A byte that says whether the range has one number, and one or two of them.
Bits(r) == 8 + TypeBits + (IF r.minIndex = r.maxIndex THEN 0 ELSE TypeBits)

\* The bits of the first n ranges.
BitsOf(list, n) == FoldLeft(LAMBDA sum, r : sum + Bits(r), 0, SubSeq(list, 1, n))

\* Is there room for a range of two numbers after n of them?
HasRoom(list, n, maxBits) == 16 + BitsOf(list, n) + 2 * TypeBits + 1 <= maxBits

CountWritten(list, maxBits) ==
    CHOOSE n \in 0 .. Len(list) :
        /\ \A k \in 0 .. n - 1 : HasRoom(list, k, maxBits)
        /\ n = Len(list) \/ ~HasRoom(list, n, maxBits)

Numbers(list) == UNION {list[i].minIndex .. list[i].maxIndex : i \in DOMAIN list}

Remaining(list, n) == SubSeq(list, n + 1, Len(list))

-----------------------------------------------------------------------------
Insert(index) ==
    /\ Repeats \/ index \notin Numbers(ranges)
    /\ ranges' = Inserted(ranges, index) /\ Len(ranges') <= MaxRanges
    /\ pending' = pending \cup {index}

\* What Deserialize makes of it on the other side are the ranges it was given.
Serialize(maxBits, clearSerialized) ==
    LET n == CountWritten(ranges, maxBits)
        handedOver == Numbers(SubSeq(ranges, 1, n))
    IN  IF clearSerialized
        THEN ranges' = Remaining(ranges, n) /\ pending' = pending \ handedOver
        ELSE UNCHANGED vars

Clear == ranges' = <<>> /\ pending' = {}

Init == ranges = <<>> /\ pending = {}

Next ==
    \/ \E index \in Index : Insert(index)
    \/ \E maxBits \in MaxBits, clearSerialized \in BOOLEAN : Serialize(maxBits, clearSerialized)
    \/ Clear

Spec == Init /\ [][Next]_vars

-----------------------------------------------------------------------------
(* Properties.                                                             *)

\* The ranges ascend and have no number in common, whichever order the numbers
\* came in: RangeSum counts each once.
Disjoint ==
    /\ \A i \in DOMAIN ranges : ranges[i].minIndex <= ranges[i].maxIndex
    /\ \A i \in 1 .. Len(ranges) - 1 : ranges[i].maxIndex < ranges[i + 1].minIndex

\* The list holds the numbers that were inserted and not yet handed over to the
\* other side, and no other: across merges of ranges, messages that are too small
\* for all of them, and the ends of range_type.
NothingLost == Numbers(ranges) = pending
===============================================================================
