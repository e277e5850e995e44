------------------------------ MODULE Md5Stream ------------------------------
(***************************************************************************)
(* The class MD5 of md5Hash.cpp as a stream: text is fed in pieces, whole  *)
(* blocks of 64 bytes go through the compression function, what is left    *)
(* waits in a buffer, and finalize pads the text and appends its length.   *)
(*                                                                         *)
(* The compression function is a parameter, and so is the width of the two *)
(* words that count the bits: in the code it is 32.                        *)
(***************************************************************************)
EXTENDS Naturals, Sequences, SequencesExt

CONSTANTS WordBits,         \* bits of a uint4
          Transform(_, _),  \* transform(state, block)
          EncodeWord(_),    \* the four bytes of a count
          InitialWords,     \* the state that init sets
          Garbage,          \* a byte of the buffer that was never written
          Texts,            \* texts to digest
          Pieces            \* lengths of the pieces they are fed in

BlockSize == 64
Word == 2^WordBits

Md5StreamAssumption ==
    /\ WordBits \in Nat \ {0, 1, 2}
    /\ Pieces \subseteq Nat
    /\ Word \in Nat /\ Word % 512 = 0

VARIABLES
    text,       \* the text to digest
    fed,        \* how many bytes of it update has been given
    count,      \* number of bits, <<low word, high word>>
    buffer,     \* bytes that did not fill a block
    state,      \* the digest so far
    finalized,
    digest,     \* the result
    digested    \* history: how many bytes the result is of

context == <<count, buffer, state>>
vars == <<text, fed, context, finalized, digest, digested>>

NoDigest == <<>>

Init ==
    /\ text \in Texts
    /\ fed = 0
    /\ count = <<0, 0>>
    /\ buffer = [i \in 1 .. BlockSize |-> Garbage]
    /\ state = InitialWords
    /\ finalized = FALSE
    /\ digest = NoDigest
    /\ digested = 0

-----------------------------------------------------------------------------

Index(bits) == (bits \div 8) % BlockSize

\* The number of bits, with the carry from the low word, and the bits of the
\* length that the shift by three loses.
Counted(counts, length) ==
    LET shifted == (length * 8) % Word
        low     == (counts[1] + shifted) % Word
        carry   == IF low < shifted THEN 1 ELSE 0
    IN <<low, (counts[2] + carry + (length \div 2^(WordBits - 3))) % Word>>

\* Bytes of input behind the block that completes the buffer.
Rest(index, length) == length - (BlockSize - index)

\* Whole blocks of the input behind the one that completes the buffer.
WholeBlocks(index, input) ==
    [j \in 1 .. Rest(index, Len(input)) \div BlockSize |->
        SubSeq(input, (BlockSize - index) + (j - 1) * BlockSize + 1,
                      (BlockSize - index) + j * BlockSize)]

\* The input fills the buffer.
Fills(index, length) == length >= BlockSize - index

\* memcpy of bytes to &buffer[index].
Copied(old, index, bytes) ==
    [i \in 1 .. BlockSize |->
        IF i \in index + 1 .. index + Len(bytes) THEN bytes[i - index] ELSE old[i]]

\* Mutant: the index is not reset behind a full block.
UpdatedNoReset(c, input) ==
    LET index == Index(c.count[1])
        first == BlockSize - index
        block == Copied(c.buffer, index, SubSeq(input, 1, first))
        left  == Rest(index, Len(input)) % BlockSize
    IN IF Fills(index, Len(input))
       THEN [count  |-> Counted(c.count, Len(input)),
             buffer |-> Copied(block, index, SubSeq(input, Len(input) - left + 1, Len(input))),
             state  |-> FoldLeft(Transform, Transform(c.state, block),
                                 WholeBlocks(index, input))]
       ELSE [count  |-> Counted(c.count, Len(input)),
             buffer |-> Copied(c.buffer, index, input),
             state  |-> c.state]

\* update: what becomes of the count, the buffer and the state.
Updated(c, input) ==
    LET index == Index(c.count[1])
        first == BlockSize - index
        block == Copied(c.buffer, index, SubSeq(input, 1, first))
        left  == Rest(index, Len(input)) % BlockSize
    IN IF Fills(index, Len(input))
       THEN [count  |-> Counted(c.count, Len(input)),
             buffer |-> Copied(block, 0, SubSeq(input, Len(input) - left + 1, Len(input))),
             state  |-> FoldLeft(Transform, Transform(c.state, block),
                                 WholeBlocks(index, input))]
       ELSE [count  |-> Counted(c.count, Len(input)),
             buffer |-> Copied(c.buffer, index, input),
             state  |-> c.state]

Context == [count |-> count, buffer |-> buffer, state |-> state]

\* Mutant: 56 bytes in the buffer leave room for the length.
PaddingLong(bits) ==
    LET index == Index(bits)
    IN [i \in 1 .. (IF index <= 56 THEN 56 - index ELSE 120 - index) |->
          IF i = 1 THEN 128 ELSE 0]

\* 0x80 and zeros, up to 56 modulo 64: one byte at least.
Padding(bits) ==
    LET index == Index(bits)
    IN [i \in 1 .. (IF index < 56 THEN 56 - index ELSE 120 - index) |->
          IF i = 1 THEN 128 ELSE 0]

\* update with the next piece of the text; nothing forbids it after finalize.
Update(length) ==
    /\ fed + length <= Len(text)
    /\ LET c == Updated(Context, SubSeq(text, fed + 1, fed + length)) IN
       /\ count' = c.count /\ buffer' = c.buffer /\ state' = c.state
    /\ fed' = fed + length
    /\ UNCHANGED <<text, finalized, digest, digested>>

\* finalize: the bits counted so far, the padding, then those bits.
Finalize ==
    /\ ~finalized
    /\ LET bits   == EncodeWord(count[1]) \o EncodeWord(count[2])
           padded == Updated(Context, Padding(count[1]))
           done   == Updated(padded, bits)
       IN /\ state' = done.state
          /\ digest' = done.state
    /\ buffer' = [i \in 1 .. BlockSize |-> 0]
    /\ count' = <<0, 0>>
    /\ finalized' = TRUE
    /\ digested' = fed
    /\ UNCHANGED <<text, fed>>

Next == Finalize \/ \E length \in Pieces : Update(length)

Spec == Init /\ [][Next]_vars

-----------------------------------------------------------------------------
(* Properties.                                                             *)

\* The digest of a text in one piece, from the text alone: pad it, cut it into
\* blocks, transform them in turn.
DigestOf(bytes) ==
    LET zeros   == CHOOSE n \in 0 .. 63 : (Len(bytes) + 1 + n) % 64 = 56
        bits    == 8 * Len(bytes)
        message == bytes \o <<128>> \o [i \in 1 .. zeros |-> 0]
                     \o EncodeWord(bits % Word) \o EncodeWord((bits \div Word) % Word)
    IN FoldLeft(Transform, InitialWords,
                [j \in 1 .. Len(message) \div 64 |->
                    SubSeq(message, 64 * (j - 1) + 1, 64 * j)])

\* However a text is cut into pieces, the digest is that of the text, and text
\* fed after finalize does not change it.
DigestOfText == finalized => digest = DigestOf(SubSeq(text, 1, digested))

\* Between calls the buffer holds the last bytes of the text, those that do not
\* fill a block, in order and in full; a byte that was never written is never
\* transformed.
BufferHoldsTail ==
    ~finalized =>
        LET length == fed % BlockSize IN
        /\ Index(count[1]) = length
        /\ SubSeq(buffer, 1, length) = SubSeq(text, fed - length + 1, fed)
=============================================================================
