---------------------------------- MODULE Map ---------------------------------
(***************************************************************************)
(* The class Map of DS_Map.h: an OrderedList of keys and data.  The search *)
(* it once saved is never used: HasSavedSearchResult answers no.           *)
(***************************************************************************)
EXTENDS Integers, Sequences, FiniteSets

CONSTANTS Key, Data, None

MapAssumption == Key \subseteq Int /\ None \notin Data

VARIABLES mapNodeList,  \* the nodes, each with its key and its data
          answer        \* what a Get or Pop gave

vars == <<mapNodeList, answer>>

Lists == INSTANCE OrderedList

KeysOf(list) == [i \in DOMAIN list |-> list[i].key]
Keys == KeysOf(mapNodeList)
Find(key) == Lists!GetIndexFromKey(Keys, key)
Has(key) == Find(key).exists

At(index) == mapNodeList[index + 1]

-----------------------------------------------------------------------------
(* Get, SetExisting and Pop assert that the key exists.                    *)

Get(key) ==
    /\ Has(key)
    /\ answer' = At(Find(key).index).data
    /\ UNCHANGED mapNodeList

SetAt(index, data) == mapNodeList' = [mapNodeList EXCEPT ![index + 1].data = data]
Node(key, data) == [key |-> key, data |-> data]

\* With a key that is there the insertion does nothing.
SetNew(key, data) ==
    /\ mapNodeList' = Lists!Insert(mapNodeList, Keys, key, Node(key, data))
    /\ answer' = None

SetExisting(key, data) == Has(key) /\ SetAt(Find(key).index, data) /\ answer' = None

Set(key, data) == IF Has(key) THEN SetExisting(key, data) ELSE SetNew(key, data)

Delete(key) ==
    /\ mapNodeList' = Lists!RemoveIfExists(mapNodeList, Keys, key)
    /\ answer' = None

RemoveAtIndex(index) ==
    /\ index < Len(mapNodeList)
    /\ mapNodeList' = Lists!RemoveAtIndex(mapNodeList, index)
    /\ answer' = None

Pop(key) ==
    /\ Has(key)
    /\ answer' = At(Find(key).index).data
    /\ mapNodeList' = Lists!RemoveAtIndex(mapNodeList, Find(key).index)

Clear == mapNodeList' = <<>> /\ answer' = None

Init == mapNodeList = <<>> /\ answer = None

Next ==
    \/ \E key \in Key : Get(key) \/ Delete(key) \/ Pop(key)
    \/ \E key \in Key, data \in Data : Set(key, data) \/ SetNew(key, data) \/ SetExisting(key, data)
    \/ \E index \in 0 .. Cardinality(Key) : RemoveAtIndex(index)
    \/ Clear

Spec == Init /\ [][Next]_vars

-----------------------------------------------------------------------------
(* Properties.                                                             *)

\* The keys ascend, so that the search is allowed to halve; it finds what is
\* there, and otherwise the place that keeps the order.
SearchRight ==
    \A key \in Key :
        LET found == Find(key)
        IN  /\ found.exists <=> \E i \in DOMAIN Keys : Keys[i] = key
            /\ found.exists => Keys[found.index + 1] = key
            /\ ~found.exists => \A i \in DOMAIN Keys : Keys[i] < key <=> i <= found.index

\* The function from keys to data that a list of nodes stands for.
Store(list) == [key \in {list[i].key : i \in DOMAIN list} |->
                    (CHOOSE n \in {list[i] : i \in DOMAIN list} : n.key = key).data]
Stored == Store(mapNodeList)

Without(store, key) == [k \in DOMAIN store \ {key} |-> store[k]]
With(store, key, data) ==
    [k \in DOMAIN store \cup {key} |-> IF k = key THEN data ELSE store[k]]

\* Each call does to the keys and their data what it would to a function; what
\* Get and Pop answer is the data of the key they were asked for.
ImplementsStore ==
    \A key \in Key :
        /\ Get(key) \/ Pop(key) => key \in DOMAIN Stored /\ answer' = Stored[key]
        /\ Delete(key) \/ Pop(key) => Stored' = Without(Stored, key)
        /\ \A data \in Data :
              /\ Set(key, data) => Stored' = With(Stored, key, data)
              /\ SetExisting(key, data) => key \in DOMAIN Stored /\ Stored' = With(Stored, key, data)
              /\ SetNew(key, data) /\ ~Has(key) => Stored' = With(Stored, key, data)
===============================================================================
