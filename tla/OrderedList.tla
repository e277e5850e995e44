----------------------------- MODULE OrderedList ------------------------------
(***************************************************************************)
(* The class OrderedList of DS_OrderedList.h, over the list of its         *)
(* elements' keys: a search, and what insertion and removal do with its    *)
(* result.  Keys compare as integers.  Indexes count from 0.               *)
(***************************************************************************)
EXTENDS Integers, Sequences
LOCAL INSTANCE SequencesExt

\* Mutant: the search ends with one element to go.
GetIndexFromKeyEarly(keys, key) ==
    LET from[lower \in Nat, upper \in Int, index \in Nat] ==
            LET next(l, u) == IF l >= u THEN [index |-> l, exists |-> FALSE]
                              ELSE from[l, u, l + (u - l) \div 2]
            IN  IF key = keys[index + 1] THEN [index |-> index, exists |-> TRUE]
                ELSE IF key < keys[index + 1] THEN next(lower, index - 1)
                ELSE next(index + 1, upper)
    IN  IF keys = <<>> THEN [index |-> 0, exists |-> FALSE]
        ELSE from[0, Len(keys) - 1, Len(keys) \div 2]

\* Where the key is, or else where its element belongs.
GetIndexFromKey(keys, key) ==
    LET from[lower \in Nat, upper \in Int, index \in Nat] ==
            LET next(l, u) == IF l > u THEN [index |-> l, exists |-> FALSE]
                              ELSE from[l, u, l + (u - l) \div 2]
            IN  IF key = keys[index + 1] THEN [index |-> index, exists |-> TRUE]
                ELSE IF key < keys[index + 1] THEN next(lower, index - 1)
                ELSE next(index + 1, upper)
    IN  IF keys = <<>> THEN [index |-> 0, exists |-> FALSE]
        ELSE from[0, Len(keys) - 1, Len(keys) \div 2]

InsertAtIndex(list, element, index) == InsertAt(list, index + 1, element)
RemoveAtIndex(list, index) == RemoveAt(list, index + 1)

\* A key that is there is not inserted again.
Insert(list, keys, key, element) ==
    LET found == GetIndexFromKey(keys, key)
    IN  IF found.exists THEN list ELSE InsertAtIndex(list, element, found.index)

\* Mutant: what was found is removed, whether it is the key or not.
RemoveUnseen(list, keys, key) == RemoveAtIndex(list, GetIndexFromKey(keys, key).index)

\* What is asked for and not there removes nothing.
RemoveIfExists(list, keys, key) ==
    LET found == GetIndexFromKey(keys, key)
    IN  IF found.exists THEN RemoveAtIndex(list, found.index) ELSE list
===============================================================================
