------------------------------- MODULE SmartPtr -------------------------------
(***************************************************************************)
(* The class RakNetSmartPtr of RakNetSmartPtr.h: pointers that share an    *)
(* object and a reference counter.  The program has variables of the type, *)
(* and every object has a member of it, as a linked list would.            *)
(***************************************************************************)
EXTENDS Integers, Sequences, FiniteSets
LOCAL INSTANCE FiniteSetsExt

CONSTANTS Variable,   \* the smart pointers that are in no object
          Object,     \* the addresses of objects, and of their counters
          Null,
          AssignsMember \* is a pointer assigned from a member of the object it holds

SmartPtrAssumption ==
    IsFiniteSet(Object) /\ Null \notin Object /\ Variable \cap Object = {} /\ AssignsMember \in BOOLEAN

VARIABLES ptr,      \* what each pointer points to: a variable's, and the member of an object
          refCount, \* the counter of each object
          alive,    \* the objects there are
          deleted   \* deletes of what was not alive, and reads of it

vars == <<ptr, refCount, alive, deleted>>

\* A pointer and its reference always change together: one address is for both.
Holder == Variable \cup Object

Memory == [ptr |-> ptr, refCount |-> refCount, alive |-> alive, deleted |-> deleted]

Become(memory) ==
    /\ ptr' = memory.ptr /\ refCount' = memory.refCount
    /\ alive' = memory.alive /\ deleted' = memory.deleted

-----------------------------------------------------------------------------

\* Mutant: the counter is not looked at.
LetGoAlways(memory, o) ==
    IF o = Null THEN memory
    ELSE [memory EXCEPT !.refCount[o] = @ - 1, !.alive = @ \ {o},
                        !.deleted = IF o \in memory.alive THEN @ ELSE @ \cup {o}]

\* Release, and the delete of the object when the counter is zero, which
\* destroys the object's own pointer in turn.
LetGo(memory, o) ==
    LET released(f) == [f.memory EXCEPT !.refCount[f.object] = @ - 1]
        after[n \in 0 .. Cardinality(Object)] ==
            IF n = 0 THEN [memory |-> memory, object |-> o]
            ELSE LET f == after[n - 1]
                     r == released(f)
                 IN  IF f.object = Null THEN f
                     ELSE IF r.refCount[f.object] # 0 THEN [memory |-> r, object |-> Null]
                     ELSE [memory |-> [r EXCEPT !.alive = @ \ {f.object}, !.ptr[f.object] = Null,
                                                !.deleted = IF f.object \in r.alive THEN @ ELSE @ \cup {f.object}],
                           object |-> r.ptr[f.object]]
    IN  after[Cardinality(Object)].memory

\* Mutant: the counter is as it was.
PointedKeeps(memory, h, o) == [memory EXCEPT !.ptr[h] = o]

\* ptr and reference of another pointer, and AddRef.
Pointed(memory, h, o) ==
    IF o = Null THEN [memory EXCEPT !.ptr[h] = Null]
    ELSE [memory EXCEPT !.ptr[h] = o, !.refCount[o] = @ + 1]

\* A new object with a counter of one and a member that is null.
New(memory, h, o) == [memory EXCEPT !.ptr = [@ EXCEPT ![h] = o, ![o] = Null], !.refCount[o] = 1, !.alive = @ \cup {o}]

Released(h) == [LetGo(Memory, ptr[h]) EXCEPT !.ptr[h] = Null]

Holds(h) == h \in Variable \cup alive
Reachable(o) ==
    LET after[n \in 0 .. Cardinality(Object)] ==
            IF n = 0 THEN {o} ELSE after[n - 1] \cup {ptr[x] : x \in after[n - 1] \ {Null}}
    IN  after[Cardinality(Object)]

-----------------------------------------------------------------------------
(* The methods.  A variable that is destroyed and one that is not yet      *)
(* constructed are null ones.                                              *)

Init ==
    /\ ptr = [h \in Holder |-> Null] /\ refCount = [o \in Object |-> 0]
    /\ alive = {} /\ deleted = {}

\* RakNetSmartPtr(T* pValue), of a new object.
Construct(h, o) ==
    /\ h \in Variable /\ ptr[h] = Null /\ o \notin alive
    /\ Become(New(Memory, h, o))

\* The copy constructor.
Copy(h, sp) ==
    /\ h \in Variable /\ ptr[h] = Null /\ Holds(sp)
    /\ Become(Pointed(Memory, h, ptr[sp]))

\* SetNull and the destructor.
SetNull(h) ==
    /\ Holds(h) /\ ptr[h] # Null
    /\ Become(Released(h))

\* The assignment.  Bound: none makes a circle, which no counter frees.
Assign(h, sp) ==
    /\ Holds(h) /\ Holds(sp) /\ h # sp
    /\ h \notin Reachable(ptr[sp])
    /\ LET released == LetGo(Memory, ptr[h])
           read == IF sp \in Variable \cup released.alive THEN released
                   ELSE [released EXCEPT !.deleted = @ \cup {sp}]
       IN  /\ read.deleted = {} \/ AssignsMember
           /\ Become(Pointed(read, h, read.ptr[sp]))

\* Clone: an object of its own, with the contents of the old one or without.
Clone(h, copyContents, o) ==
    /\ Holds(h) /\ ptr[h] # Null /\ refCount[ptr[h]] # 1 /\ o \notin alive
    /\ LET old == ptr[h]
           own == New([Memory EXCEPT !.refCount[old] = @ - 1], h, o)
       IN  Become(IF copyContents THEN Pointed(own, o, own.ptr[old]) ELSE own)

Next ==
    \/ \E h \in Holder : SetNull(h)
    \/ \E h \in Holder, o \in Object : Construct(h, o) \/ \E copyContents \in BOOLEAN : Clone(h, copyContents, o)
    \/ \E h, sp \in Holder : Copy(h, sp) \/ Assign(h, sp)

Spec == Init /\ [][Next]_vars

-----------------------------------------------------------------------------
(* Properties.                                                             *)

Holders(o) == {h \in Variable \cup alive : ptr[h] = o}

\* No pointer is left to an object that was deleted, nothing is deleted twice,
\* and nothing is read after its delete.
NothingDangles ==
    /\ \A h \in Variable \cup alive : ptr[h] \in alive \cup {Null}
    /\ deleted = {}

\* The counter is the number of the pointers, and an object without pointers is deleted.
CountRight == \A o \in alive : refCount[o] = Cardinality(Holders(o)) /\ refCount[o] > 0
===============================================================================
