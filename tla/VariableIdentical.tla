--------------------------- MODULE VariableIdentical ---------------------------
(***************************************************************************)
(* The class VariableDeltaSerializer of VariableDeltaSerializer.h for data *)
(* that is the same for every remote system: one comparison per tick, its  *)
(* message for all, and everything to a system that is new.                *)
(***************************************************************************)
EXTENDS Naturals, Sequences
LOCAL INSTANCE SequencesExt

CONSTANTS System,
          Variables, \* how many variables there are
          Value,
          BitsPerByte,
          JoinsLate  \* does a system join that is sent to alone, after another left

VariableIdenticalAssumption ==
    Variables \in Nat \ {0} /\ BitsPerByte \in Nat \ {0} /\ JoinsLate \in BOOLEAN

VARIABLES value,        \* the program's variables
          variableList, \* the tracker all systems share
          didComparisonThisTick,
          identicalSerializationBs, \* the message of this tick's comparison
          waiting,      \* the systems this tick's message has not been sent to
          joined,       \* the systems that were sent to before
          copy          \* the variables of the systems, as they arrive in order

vars == <<value, variableList, didComparisonThisTick, identicalSerializationBs, waiting, joined, copy>>

Tracker == INSTANCE VariableTracker

Nothing == [i \in 1 .. Variables |-> <<>>]
Everything == [i \in 1 .. Variables |-> <<value[i]>>]

\* Mutant: the values that were not written are not recorded.
RecordedOnce == IF variableList = <<>> THEN [i \in 1 .. Variables |-> Tracker!Node(value[i])] ELSE variableList

\* The list after SerializeVariable with a comparison for each variable.
Recorded == FoldLeft(LAMBDA list, i : Tracker!WriteVar(list, i, value[i]), variableList, [i \in 1 .. Variables |-> i])

Compared == [i \in 1 .. Variables |-> Tracker!WriteVarToBitstream(variableList, i, value[i])]

Sent(system, message) ==
    /\ copy' = [copy EXCEPT ![system] = Tracker!ReadVarFromBitstream(@, message)]
    /\ waiting' = waiting \ {system}

-----------------------------------------------------------------------------

Init ==
    /\ value \in [1 .. Variables -> Value] /\ variableList = <<>>
    /\ didComparisonThisTick = FALSE /\ identicalSerializationBs = Nothing
    /\ waiting = {} /\ joined = {} /\ copy = [s \in System |-> value]

\* The program changes a variable when all were sent this tick's message.
Change(i, v) ==
    /\ waiting = {} /\ value[i] # v
    /\ value' = [value EXCEPT ![i] = v]
    /\ UNCHANGED <<variableList, didComparisonThisTick, identicalSerializationBs, waiting, joined, copy>>

\* OnPreSerializeTick; some of the other systems have connected.
OnPreSerializeTick(connected) ==
    /\ waiting = {} /\ connected # {}
    /\ joined \subseteq connected
    /\ JoinsLate \/ joined # {} \/ variableList = <<>>
    /\ didComparisonThisTick' = FALSE
    /\ waiting' = connected
    /\ UNCHANGED <<value, variableList, identicalSerializationBs, joined, copy>>

\* Mutant: each system is compared with the list the one before has changed.
SerializeToOldAgain(system) ==
    /\ system \in waiting \cap joined
    /\ Sent(system, Compared) /\ identicalSerializationBs' = Compared
    /\ variableList' = Recorded
    /\ didComparisonThisTick' = TRUE
    /\ UNCHANGED <<value, joined>>

\* A system that was sent to before.
SerializeToOld(system) ==
    /\ system \in waiting \cap joined
    /\ LET message == IF didComparisonThisTick THEN identicalSerializationBs ELSE Compared
       IN  Sent(system, message) /\ identicalSerializationBs' = message
    /\ variableList' = IF didComparisonThisTick THEN variableList ELSE Recorded
    /\ didComparisonThisTick' = TRUE
    /\ UNCHANGED <<value, joined>>

\* A new system: everything, which is recorded only when the
\* list is empty.
SerializeToNew(system) ==
    /\ system \in waiting \ joined
    /\ Sent(system, Everything)
    /\ variableList' = IF variableList = <<>> THEN Recorded ELSE variableList
    /\ joined' = joined \cup {system}
    /\ UNCHANGED <<value, didComparisonThisTick, identicalSerializationBs>>

Leave(system) ==
    /\ waiting = {} /\ system \in joined
    /\ joined' = joined \ {system}
    /\ UNCHANGED <<value, variableList, didComparisonThisTick, identicalSerializationBs, waiting, copy>>

Next ==
    \/ \E i \in 1 .. Variables, v \in Value : Change(i, v)
    \/ \E connected \in SUBSET System : OnPreSerializeTick(connected)
    \/ \E s \in System : SerializeToOld(s) \/ SerializeToNew(s) \/ Leave(s)

Spec == Init /\ [][Next]_vars

-----------------------------------------------------------------------------
(* Properties.                                                             *)

\* Where two systems were sent this tick's message they have the same variables.
SameForAll == \A s, t \in joined \ waiting : copy[s] = copy[t]

\* A tick that ends leaves every system with the program's variables: nothing
\* that changed was not written.
Current == \A s \in System : s \in waiting /\ s \notin waiting' => copy'[s] = value
===============================================================================
