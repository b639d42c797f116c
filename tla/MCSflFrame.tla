------------------------------ MODULE MCSflFrame ------------------------------
(***************************************************************************)
(* Frames and damages for TLC.                                             *)
(***************************************************************************)
EXTENDS SflFrame

\* The base of the memory, and an address with every bit pattern of a nibble.
SomeAddresses == {<<64, 0, 0, 0>>, <<64, 239, 16, 167>>}

\* A chunk of one byte of each value, so that every entry of the table is
\* used; chunks of the default size, of the largest one, and of one that main
\* refuses.
Filled(n) == [i \in 1..n |-> (37 * i) % 256]
SomeChunks == {<<b>> : b \in Byte} \cup {Filled(n) : n \in {2, 64, 250, 251, 252}}

\* What a damage does to the CRC depends on the length of the frame alone.
Short == {<<JumpCmd, 64, 0, 0, 0>>, <<LoadCmd, 64, 0, 0, 0>> \o Filled(2)}
Long  == {<<LoadCmd, 64, 0, 0, 0>> \o Filled(251)}

\* All pairs of bits (and single ones) of a jump frame, most of a short load.
Pairs == {{p, q} : p, q \in 0..55}

\* Bursts in the body: all of nine bits, and some of the widest.
Bursts == {{16 + s} \cup {16 + s + k : k \in b} : s \in 0..7, b \in SUBSET (1..8)}
          \cup {{24, 24 + i, 24 + j, 39} : i \in 1..5, j \in 6..14}

\* Two bits far apart, three bits, bursts up to the end of the body, and across
\* the border of CRC and command the bits that the largest frame hides.
FarApart == {{p, q} : p \in {0, 15, 16, 23}, q \in {500, 2007, 2024, 2040, 2055, 2063}}
            \cup {{p, 1040, q} : p \in 16..20, q \in {1041, 2055, 2063}}
            \cup {{2063 - k : k \in {0, i, j}} : i \in 1..7, j \in 8..15}
            \cup {{14, 15, 16, 18, 19, 25}}

SomeDamages == [b \in Short \cup Long |-> IF b \in Short THEN Pairs \cup Bursts ELSE FarApart]
===============================================================================
