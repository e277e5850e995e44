------------------------------ MODULE Md5Block ------------------------------
(***************************************************************************)
(* The compression function of md5Hash.cpp: MD5::transform and what it is  *)
(* made of.  A uint4 is the pair of its halves <<high, low>>, since TLC's  *)
(* integers have 31 bits and a sign.                                       *)
(***************************************************************************)
EXTENDS Naturals, Sequences, SequencesExt, Bitwise

Half == 65536

HalfNot(x) == (Half - 1) - x

Map2(op(_, _), x, y) == <<op(x[1], y[1]), op(x[2], y[2])>>
And32(x, y) == Map2(LAMBDA i, j : i & j, x, y)
Or32(x, y)  == Map2(LAMBDA i, j : i | j, x, y)
Xor32(x, y) == Map2(LAMBDA i, j : i ^^ j, x, y)
Not32(x)    == <<HalfNot(x[1]), HalfNot(x[2])>>
Add32(x, y) ==
    LET low == x[2] + y[2]
    IN <<(x[1] + y[1] + (low \div Half)) % Half, low % Half>>

\* The four functions, with the precedence C gives them.
F(x, y, z) == Or32(And32(x, y), And32(Not32(x), z))
G(x, y, z) == Or32(And32(x, z), And32(y, Not32(z)))
H(x, y, z) == Xor32(Xor32(x, y), z)
I(x, y, z) == Xor32(y, Or32(x, Not32(z)))

\* rotate_left for 0 < n < 32.
rotate_left(x, n) ==
    LET y == IF n >= 16 THEN <<x[2], x[1]>> ELSE x
        k == n % 16
        Shift(high, low) == ((high * 2^k) % Half) + (low \div 2^(16 - k))
    IN <<Shift(y[1], y[2]), Shift(y[2], y[1])>>

\* decode: 64 bytes make sixteen words, the lowest byte first.
decode(block) ==
    [j \in 1 .. 16 |->
        LET at == 4 * (j - 1)
        IN <<block[at + 3] + 256 * block[at + 4], block[at + 1] + 256 * block[at + 2]>>]

\* encode: four bytes of each word, the lowest first.
encode(words) ==
    [i \in 1 .. 4 * Len(words) |->
        LET word == words[((i - 1) \div 4) + 1]
            half == IF (i - 1) % 4 < 2 THEN word[2] ELSE word[1]
        IN IF i % 2 = 1 THEN half % 256 ELSE half \div 256]

\* S11 .. S44.
Rotations == <<<<7, 12, 17, 22>>, <<5, 9, 14, 20>>, <<4, 11, 16, 23>>, <<6, 10, 15, 21>>>>

\* The last arguments of the 64 steps, in their order.
Additions == <<
    <<\hd76a, \ha478>>, <<\he8c7, \hb756>>, <<\h2420, \h70db>>, <<\hc1bd, \hceee>>,
    <<\hf57c, \h0faf>>, <<\h4787, \hc62a>>, <<\ha830, \h4613>>, <<\hfd46, \h9501>>,
    <<\h6980, \h98d8>>, <<\h8b44, \hf7af>>, <<\hffff, \h5bb1>>, <<\h895c, \hd7be>>,
    <<\h6b90, \h1122>>, <<\hfd98, \h7193>>, <<\ha679, \h438e>>, <<\h49b4, \h0821>>,
    <<\hf61e, \h2562>>, <<\hc040, \hb340>>, <<\h265e, \h5a51>>, <<\he9b6, \hc7aa>>,
    <<\hd62f, \h105d>>, <<\h0244, \h1453>>, <<\hd8a1, \he681>>, <<\he7d3, \hfbc8>>,
    <<\h21e1, \hcde6>>, <<\hc337, \h07d6>>, <<\hf4d5, \h0d87>>, <<\h455a, \h14ed>>,
    <<\ha9e3, \he905>>, <<\hfcef, \ha3f8>>, <<\h676f, \h02d9>>, <<\h8d2a, \h4c8a>>,
    <<\hfffa, \h3942>>, <<\h8771, \hf681>>, <<\h6d9d, \h6122>>, <<\hfde5, \h380c>>,
    <<\ha4be, \hea44>>, <<\h4bde, \hcfa9>>, <<\hf6bb, \h4b60>>, <<\hbebf, \hbc70>>,
    <<\h289b, \h7ec6>>, <<\heaa1, \h27fa>>, <<\hd4ef, \h3085>>, <<\h0488, \h1d05>>,
    <<\hd9d4, \hd039>>, <<\he6db, \h99e5>>, <<\h1fa2, \h7cf8>>, <<\hc4ac, \h5665>>,
    <<\hf429, \h2244>>, <<\h432a, \hff97>>, <<\hab94, \h23a7>>, <<\hfc93, \ha039>>,
    <<\h655b, \h59c3>>, <<\h8f0c, \hcc92>>, <<\hffef, \hf47d>>, <<\h8584, \h5dd1>>,
    <<\h6fa8, \h7e4f>>, <<\hfe2c, \he6e0>>, <<\ha301, \h4314>>, <<\h4e08, \h11a1>>,
    <<\hf753, \h7e82>>, <<\hbd3a, \hf235>>, <<\h2ad7, \hd2bb>>, <<\heb86, \hd391>> >>

\* The word of the block that step i of round r takes.
WordOf(r, i) ==
    1 + ((CASE r = 1 -> i
            [] r = 2 -> 5 * i + 1
            [] r = 3 -> 3 * i + 5
            [] r = 4 -> 7 * i) % 16)

\* Mutant: round 3 uses the function of round 4.
MixI(r, x, y, z) ==
    CASE r = 1 -> F(x, y, z) [] r = 2 -> G(x, y, z)
      [] r = 3 -> I(x, y, z) [] r = 4 -> I(x, y, z)

Mix(r, x, y, z) ==
    CASE r = 1 -> F(x, y, z) [] r = 2 -> G(x, y, z)
      [] r = 3 -> H(x, y, z) [] r = 4 -> I(x, y, z)

\* FF, GG, HH, II.  The code names the words of the state in turn; here the
\* state turns: after the step <<d, new a, b, c>> stand for <<a, b, c, d>>.
Step(state, x, n) ==
    LET r == ((n - 1) \div 16) + 1
        i == (n - 1) % 16
        a == state[1]
        b == state[2]
        sum == Add32(Add32(Add32(a, Mix(r, b, state[3], state[4])), x[WordOf(r, i)]),
                     Additions[n])
    IN <<state[4], Add32(rotate_left(sum, Rotations[r][(i % 4) + 1]), b), b, state[3]>>

\* transform: the 64 steps, added to the state.
transform(state, block) ==
    LET x     == decode(block)
        mixed == FoldLeft(LAMBDA s, n : Step(s, x, n), state, [n \in 1 .. 64 |-> n])
    IN [i \in 1 .. 4 |-> Add32(state[i], mixed[i])]

\* init: the four constants.
InitialState == << <<\h6745, \h2301>>, <<\hefcd, \hab89>>,
                   <<\h98ba, \hdcfe>>, <<\h1032, \h5476>> >>
=============================================================================
