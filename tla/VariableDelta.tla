----------------------------- MODULE VariableDelta -----------------------------
(***************************************************************************)
(* The class VariableDeltaSerializer of VariableDeltaSerializer.h for data *)
(* sent UNRELIABLE_WITH_ACK_RECEIPT to one remote system: a message has    *)
(* the variables that changed, a message that was lost makes them dirty.   *)
(* The network delivers in order, loses messages, and reports the loss     *)
(* also of some that arrived.                                              *)
(***************************************************************************)
EXTENDS Naturals, Sequences, FiniteSets
LOCAL INSTANCE SequencesExt

CONSTANTS Variables,   \* how many variables there are
          Value,
          BitsPerByte,
          Garbage,     \* the bits a recycled bit field may have
          MaxChanges, MaxLosses, \* bounds: changes of a variable, losses reported
          MaxOutstanding         \* bound: receipts that have not come back

VariableDeltaAssumption ==
    /\ Variables \in Nat \ {0} /\ BitsPerByte \in Nat \ {0} /\ Garbage \subseteq SUBSET (0 .. BitsPerByte - 1)
    /\ MaxChanges \in Nat /\ MaxLosses \in Nat /\ MaxOutstanding \in Nat \ {0}

VARIABLES value,        \* the program's variables
          variableList, \* the tracker of the remote system
          updatedVariablesHistory, \* the bit field of each message without a receipt
          network,      \* the messages sent and not arrived, the oldest first
          receipts,     \* the outcome of messages: may the receipt be of an arrival
          copy,         \* the variables of the remote system
          nextSendReceipt, changes, losses

vars == <<value, variableList, updatedVariablesHistory, network, receipts, copy, nextSendReceipt, changes, losses>>

Tracker == INSTANCE VariableTracker

Bytes == 0 .. (Variables - 1) \div BitsPerByte

\* SerializeVariable for each variable in turn.
Serialized(garbage) ==
    LET write(context, i) ==
            LET wasDifferent == Tracker!Different(context.list, i, value[i])
            IN  [list |-> Tracker!WriteVar(context.list, i, value[i]),
                 message |-> Append(context.message, Tracker!WriteVarToBitstream(context.list, i, value[i])),
                 bitField |-> Tracker!WithBit(context.bitField, i - 1, wasDifferent),
                 anyVariablesWritten |-> context.anyVariablesWritten \/ wasDifferent]
        after[i \in 0 .. Variables] ==
            IF i = 0 THEN [list |-> variableList, message |-> <<>>, bitField |-> [b \in Bytes |-> garbage],
                           anyVariablesWritten |-> FALSE]
            ELSE write(after[i - 1], i)
    IN  after[Variables]

-----------------------------------------------------------------------------

Init ==
    /\ value \in [1 .. Variables -> Value] /\ copy = value
    /\ variableList = <<>> /\ updatedVariablesHistory = <<>>
    /\ network = <<>> /\ receipts = {} /\ nextSendReceipt = 1
    /\ changes = 0 /\ losses = 0

Change(i, v) ==
    /\ changes < MaxChanges /\ value[i] # v
    /\ value' = [value EXCEPT ![i] = v] /\ changes' = changes + 1
    /\ UNCHANGED <<variableList, updatedVariablesHistory, network, receipts, copy, nextSendReceipt, losses>>

\* A tick: BeginUnreliableAckedSerialize, SerializeVariable, EndSerialize and Send.
Serialize(garbage) ==
    /\ Cardinality(DOMAIN updatedVariablesHistory) < MaxOutstanding
    /\ LET context == Serialized(garbage)
       IN  /\ variableList' = context.list
           /\ context.anyVariablesWritten
           /\ network' = Append(network, [receipt |-> nextSendReceipt, message |-> context.message])
           /\ updatedVariablesHistory' =
                [r \in DOMAIN updatedVariablesHistory \cup {nextSendReceipt} |->
                    IF r = nextSendReceipt THEN context.bitField ELSE updatedVariablesHistory[r]]
    /\ nextSendReceipt' = nextSendReceipt + 1
    /\ UNCHANGED <<value, receipts, copy, changes, losses>>

Deliver ==
    /\ network # <<>>
    /\ copy' = Tracker!ReadVarFromBitstream(copy, Head(network).message)
    /\ network' = Tail(network)
    /\ receipts' = receipts \cup {[receipt |-> Head(network).receipt, arrived |-> TRUE]}
    /\ UNCHANGED <<value, variableList, updatedVariablesHistory, nextSendReceipt, changes, losses>>

Lose ==
    /\ network # <<>> /\ losses < MaxLosses
    /\ network' = Tail(network)
    /\ receipts' = receipts \cup {[receipt |-> Head(network).receipt, arrived |-> FALSE]}
    /\ losses' = losses + 1
    /\ UNCHANGED <<value, variableList, updatedVariablesHistory, copy, nextSendReceipt, changes>>

Forgotten(receipt) ==
    [r \in DOMAIN updatedVariablesHistory \ {receipt} |-> updatedVariablesHistory[r]]

\* OnMessageReceipt with ID_SND_RECEIPT_ACKED: FreeVarsAssociatedWithReceipt.
Acked(r) ==
    /\ r.arrived
    /\ updatedVariablesHistory' = Forgotten(r.receipt) /\ receipts' = receipts \ {r}
    /\ UNCHANGED <<value, variableList, network, copy, nextSendReceipt, changes, losses>>

\* Mutant: the variables of the message are not made dirty.
LostForgets(r) ==
    /\ r.arrived => losses < MaxLosses
    /\ losses' = IF r.arrived THEN losses + 1 ELSE losses
    /\ updatedVariablesHistory' = Forgotten(r.receipt) /\ receipts' = receipts \ {r}
    /\ UNCHANGED <<value, variableList, network, copy, nextSendReceipt, changes>>

\* OnMessageReceipt with ID_SND_RECEIPT_LOSS: DirtyAndFreeVarsAssociatedWithReceipt.
Lost(r) ==
    /\ r.arrived => losses < MaxLosses
    /\ losses' = IF r.arrived THEN losses + 1 ELSE losses
    /\ variableList' = Tracker!FlagDirtyFromBitArray(variableList, updatedVariablesHistory[r.receipt])
    /\ updatedVariablesHistory' = Forgotten(r.receipt) /\ receipts' = receipts \ {r}
    /\ UNCHANGED <<value, network, copy, nextSendReceipt, changes>>

Next ==
    \/ \E i \in 1 .. Variables, v \in Value : Change(i, v)
    \/ \E garbage \in Garbage : Serialize(garbage)
    \/ Deliver \/ Lose
    \/ \E r \in receipts : Acked(r) \/ Lost(r)

Spec == Init /\ [][Next]_vars

\* Every tick serializes, a message arrives unless it is lost, and each gets a receipt.
Fairness ==
    /\ WF_vars(\E garbage \in Garbage : Serialize(garbage)) /\ WF_vars(Deliver)
    /\ WF_vars(\E r \in receipts : Acked(r) \/ Lost(r))

FairSpec == Spec /\ Fairness

-----------------------------------------------------------------------------
(* Properties.                                                             *)

BitOf(bitField, i) == (i - 1) % BitsPerByte \in bitField[(i - 1) \div BitsPerByte]

\* A variable the remote system does not have as it was written last is dirty,
\* or a message that has it is on its way or without a receipt.
NothingForgotten ==
    \A i \in DOMAIN variableList :
        \/ copy[i] = variableList[i].lastData
        \/ variableList[i].isDirty
        \/ \E r \in DOMAIN updatedVariablesHistory : BitOf(updatedVariablesHistory[r], i)

\* The bit field of a message has the variables that are in it, whatever was in
\* its bytes before: no other is sent again when it is lost.
BitFieldRight ==
    \A k \in DOMAIN network : \A i \in 1 .. Variables :
        BitOf(updatedVariablesHistory[network[k].receipt], i) <=> network[k].message[i] # <<>>

\* When the variables stop changing and no more messages are lost, the remote
\* system has them all.
Converges == <>[](copy = value)
===============================================================================
