--------------------------- MODULE VariableTracker ---------------------------
(***************************************************************************)
(* The class VariableListDeltaTracker of VariableListDeltaTracker.h, as    *)
(* operators: what was written last of each variable, and which of them    *)
(* have to be written again.  A message is the sequence of what was        *)
(* written for the variables: <<>> for false, <<value>> for true and it.   *)
(***************************************************************************)
EXTENDS Naturals, Sequences

CONSTANT BitsPerByte \* 8

Node(data) == [lastData |-> data, isDirty |-> FALSE]

IsPastEndOfList(variableList, i) == i > Len(variableList)

\* Mutant: a dirty variable that has its last value counts as the same.
DifferentIfChanged(variableList, i, data) ==
    IsPastEndOfList(variableList, i) \/ variableList[i].lastData # data

\* WriteVar's result.
Different(variableList, i, data) ==
    IsPastEndOfList(variableList, i) \/ variableList[i].isDirty \/ variableList[i].lastData # data

\* WriteVar's change of the list.
WriteVar(variableList, i, data) ==
    IF IsPastEndOfList(variableList, i) THEN Append(variableList, Node(data))
    ELSE [variableList EXCEPT ![i] = Node(data)]

WriteVarToBitstream(variableList, i, data) ==
    IF Different(variableList, i, data) THEN <<data>> ELSE <<>>

\* Mutant: the first bit of a byte is added to what the byte had.
WithBitAdded(bArray, writeOffset, wasDifferent) ==
    LET byte == writeOffset \div BitsPerByte
        bit == writeOffset % BitsPerByte
    IN  IF wasDifferent THEN [bArray EXCEPT ![byte] = @ \cup {bit}] ELSE bArray

\* The bit of a variable: the first of a byte sets the byte, which had anything.
WithBit(bArray, writeOffset, wasDifferent) ==
    LET byte == writeOffset \div BitsPerByte
        bit == writeOffset % BitsPerByte
    IN  IF bit = 0 THEN [bArray EXCEPT ![byte] = IF wasDifferent THEN {0} ELSE {}]
        ELSE IF wasDifferent THEN [bArray EXCEPT ![byte] = @ \cup {bit}]
        ELSE bArray

\* FlagDirtyFromBitArray.
FlagDirtyFromBitArray(variableList, bArray) ==
    [i \in DOMAIN variableList |->
        IF (i - 1) % BitsPerByte \in bArray[(i - 1) \div BitsPerByte]
        THEN [variableList[i] EXCEPT !.isDirty = TRUE] ELSE variableList[i]]

\* ReadVarFromBitstream: what was not written keeps its value.
ReadVarFromBitstream(copy, message) ==
    [i \in DOMAIN copy |-> IF message[i] = <<>> THEN copy[i] ELSE Head(message[i])]
===============================================================================
