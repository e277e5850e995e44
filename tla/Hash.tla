--------------------------------- MODULE Hash ---------------------------------
(***************************************************************************)
(* The class Hash of DS_Hash.h: an array of linked lists, made by the      *)
(* first Push.                                                             *)
(***************************************************************************)
EXTENDS Naturals, Sequences
LOCAL Ext == INSTANCE SequencesExt

CONSTANTS Key, Data,
          HashSize, \* HASH_SIZE
          NoArray,  \* nodeList is 0
          MaxNodes  \* bound: nodes in the table

HashAssumption ==
    HashSize \in Nat \ {0} /\ MaxNodes \in Nat /\ NoArray \notin Key \cup Data

VARIABLES hashFunction, \* any function of the keys
          nodeList,     \* the lists, or NoArray
          size,
          taken         \* the key and the data of the node that was removed last

vars == <<hashFunction, nodeList, size, taken>>

HashIndexOf(key) == hashFunction[key] % HashSize
Invalid == <<>>

Node(key, data) == [string |-> key, data |-> data]

Array == IF nodeList = <<NoArray>> THEN [i \in 0 .. HashSize - 1 |-> <<>>] ELSE nodeList
HasArray == nodeList # <<NoArray>>

-----------------------------------------------------------------------------

\* Mutant: the lists of the other keys are not passed over.
GetIndexOfFirst(key) ==
    LET list == Array[HashIndexOf(key)]
    IN  IF HasArray /\ list # <<>> THEN <<HashIndexOf(key), 1>> ELSE Invalid

\* GetIndexOf: the list and the first place in it with the key.
GetIndexOf(key) ==
    LET primaryIndex == HashIndexOf(key)
        list == Array[primaryIndex]
        places == {i \in DOMAIN list : list[i].string = key}
    IN  IF HasArray /\ places # {}
        THEN <<primaryIndex, CHOOSE i \in places : \A j \in places : i <= j>>
        ELSE Invalid

Peek(key) == LET index == GetIndexOf(key) IN nodeList[index[1]][index[2]].data

\* RemoveAtIndex: a list of one node is cleared, whatever the second index says.
Removed(index) ==
    LET list == nodeList[index[1]]
    IN  [nodeList EXCEPT ![index[1]] =
            IF Len(list) = 1 THEN <<>> ELSE Ext!RemoveAt(list, index[2])]

NodesOf(array) == Ext!FlattenSeq([i \in 1 .. HashSize |-> array[i - 1]])

-----------------------------------------------------------------------------

Init ==
    /\ hashFunction \in [Key -> 0 .. HashSize]
    /\ nodeList = <<NoArray>> /\ size = 0 /\ taken = <<>>

Push(key, data) ==
    /\ size < MaxNodes
    /\ nodeList' = [Array EXCEPT ![HashIndexOf(key)] = <<Node(key, data)>> \o @]
    /\ size' = size + 1 /\ taken' = <<>>
    /\ UNCHANGED hashFunction

RemoveAtIndex(key, index) ==
    /\ index # Invalid
    /\ nodeList' = Removed(index)
    /\ size' = size - 1 /\ taken' = <<key, nodeList[index[1]][index[2]].data>>
    /\ UNCHANGED hashFunction

Remove(key) == RemoveAtIndex(key, GetIndexOf(key))

\* Pop looks for the key on its own.
Pop(key) ==
    LET list == nodeList[HashIndexOf(key)]
        places == {i \in DOMAIN list : list[i].string = key}
        first == CHOOSE i \in places : \A j \in places : i <= j
    IN  /\ HasArray /\ places # {}
        /\ nodeList' = [nodeList EXCEPT ![HashIndexOf(key)] = Ext!RemoveAt(list, first)]
        /\ size' = size - 1 /\ taken' = <<key, list[first].data>>
        /\ UNCHANGED hashFunction

\* Mutant: the nodes are deleted and the array is kept.
ClearKeeps ==
    /\ HasArray
    /\ UNCHANGED <<hashFunction, nodeList>>
    /\ size' = 0 /\ taken' = <<>>

Clear ==
    /\ HasArray
    /\ nodeList' = <<NoArray>> /\ size' = 0 /\ taken' = <<>>
    /\ UNCHANGED hashFunction

Next ==
    \/ \E key \in Key : Pop(key) \/ Remove(key) \/ \E data \in Data : Push(key, data)
    \/ Clear

Spec == Init /\ [][Next]_vars

-----------------------------------------------------------------------------
(* What the class promises: under each key what was pushed for it, the     *)
(* newest first, whatever the hash function.                               *)

StackOf(key) ==
    LET own == SelectSeq(Array[HashIndexOf(key)], LAMBDA node : node.string = key)
    IN  [i \in DOMAIN own |-> own[i].data]

Stacks == [key \in Key |-> StackOf(key)]

PromisedPush(key, data) == Stacks' = [Stacks EXCEPT ![key] = <<data>> \o @] /\ taken' = <<>>

\* Pop, Remove and RemoveAtIndex with the index of the key.
PromisedPop(key) ==
    /\ Stacks[key] # <<>>
    /\ Stacks' = [Stacks EXCEPT ![key] = Tail(@)] /\ taken' = <<key, Head(Stacks[key])>>

PromisedClear == Stacks' = [key \in Key |-> <<>>] /\ taken' = <<>>

-----------------------------------------------------------------------------
(* Properties.                                                             *)

\* Size is the number of nodes, though six methods count it.
SizeRight == size = Len(NodesOf(Array))

\* Keys with one hash do not get into each other's way: each has a stack of
\* its own, and Pop, Remove and RemoveAtIndex take its top.
ImplementsStacks ==
    [\/ \E key \in Key : PromisedPop(key) \/ \E data \in Data : PromisedPush(key, data)
     \/ PromisedClear]_<<Stacks, taken>>
===============================================================================
