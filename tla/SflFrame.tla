------------------------------- MODULE SflFrame -------------------------------
(***************************************************************************)
(* encode_frame and the table-driven crc16 of serial_boot_litex_images.py, *)
(* and which damage of a frame its CRC lets the BIOS notice.  What         *)
(* SflUpload takes for granted of the line is what is checked here: an     *)
(* intact frame is taken, and a damaged one is not.  A frame is its bytes: *)
(* length of the payload, CRC, command, payload.  The CRC covers command   *)
(* and payload; the length byte is not covered and not damaged here.       *)
(***************************************************************************)
EXTENDS Integers, SequencesExt, Bitwise

CONSTANTS Addresses, Chunks,  \* load addresses, and chunks of files, as bytes
          Damages             \* for some bodies, the sets of bits of their frames
                              \* that the line may flip: bit 0 is the first of
                              \* the CRC, 16 the first of the command

Byte == 0..255

ASSUME FrameAssumption ==
    /\ \A a \in Addresses : a \in Seq(Byte) /\ Len(a) = 4
    /\ \A c \in Chunks : c \in Seq(Byte)
    /\ \A b \in DOMAIN Damages : \A d \in Damages[b] : d # {} /\ d \subseteq 0..8 * Len(b) + 15

VARIABLES body,   \* command and payload given to encode_frame
          frame,  \* what is on the line, <<>> if nothing was sent
          damage, \* the bits flipped on the line
          taken   \* the board took the frame as one of this body

vars == <<body, frame, damage, taken>>

-----------------------------------------------------------------------------
(* Host *)

CRC16_TABLE == <<
      \h0000, \h1021, \h2042, \h3063, \h4084, \h50A5, \h60C6, \h70E7, \h8108, \h9129, \hA14A, \hB16B,
      \hC18C, \hD1AD, \hE1CE, \hF1EF, \h1231, \h0210, \h3273, \h2252, \h52B5, \h4294, \h72F7, \h62D6,
      \h9339, \h8318, \hB37B, \hA35A, \hD3BD, \hC39C, \hF3FF, \hE3DE, \h2462, \h3443, \h0420, \h1401,
      \h64E6, \h74C7, \h44A4, \h5485, \hA56A, \hB54B, \h8528, \h9509, \hE5EE, \hF5CF, \hC5AC, \hD58D,
      \h3653, \h2672, \h1611, \h0630, \h76D7, \h66F6, \h5695, \h46B4, \hB75B, \hA77A, \h9719, \h8738,
      \hF7DF, \hE7FE, \hD79D, \hC7BC, \h48C4, \h58E5, \h6886, \h78A7, \h0840, \h1861, \h2802, \h3823,
      \hC9CC, \hD9ED, \hE98E, \hF9AF, \h8948, \h9969, \hA90A, \hB92B, \h5AF5, \h4AD4, \h7AB7, \h6A96,
      \h1A71, \h0A50, \h3A33, \h2A12, \hDBFD, \hCBDC, \hFBBF, \hEB9E, \h9B79, \h8B58, \hBB3B, \hAB1A,
      \h6CA6, \h7C87, \h4CE4, \h5CC5, \h2C22, \h3C03, \h0C60, \h1C41, \hEDAE, \hFD8F, \hCDEC, \hDDCD,
      \hAD2A, \hBD0B, \h8D68, \h9D49, \h7E97, \h6EB6, \h5ED5, \h4EF4, \h3E13, \h2E32, \h1E51, \h0E70,
      \hFF9F, \hEFBE, \hDFDD, \hCFFC, \hBF1B, \hAF3A, \h9F59, \h8F78, \h9188, \h81A9, \hB1CA, \hA1EB,
      \hD10C, \hC12D, \hF14E, \hE16F, \h1080, \h00A1, \h30C2, \h20E3, \h5004, \h4025, \h7046, \h6067,
      \h83B9, \h9398, \hA3FB, \hB3DA, \hC33D, \hD31C, \hE37F, \hF35E, \h02B1, \h1290, \h22F3, \h32D2,
      \h4235, \h5214, \h6277, \h7256, \hB5EA, \hA5CB, \h95A8, \h8589, \hF56E, \hE54F, \hD52C, \hC50D,
      \h34E2, \h24C3, \h14A0, \h0481, \h7466, \h6447, \h5424, \h4405, \hA7DB, \hB7FA, \h8799, \h97B8,
      \hE75F, \hF77E, \hC71D, \hD73C, \h26D3, \h36F2, \h0691, \h16B0, \h6657, \h7676, \h4615, \h5634,
      \hD94C, \hC96D, \hF90E, \hE92F, \h99C8, \h89E9, \hB98A, \hA9AB, \h5844, \h4865, \h7806, \h6827,
      \h18C0, \h08E1, \h3882, \h28A3, \hCB7D, \hDB5C, \hEB3F, \hFB1E, \h8BF9, \h9BD8, \hABBB, \hBB9A,
      \h4A75, \h5A54, \h6A37, \h7A16, \h0AF1, \h1AD0, \h2AB3, \h3A92, \hFD2E, \hED0F, \hDD6C, \hCD4D,
      \hBDAA, \hAD8B, \h9DE8, \h8DC9, \h7C26, \h6C07, \h5C64, \h4C45, \h3CA2, \h2C83, \h1CE0, \h0CC1,
      \hEF1F, \hFF3E, \hCF5D, \hDF7C, \hAF9B, \hBFBA, \h8FD9, \h9FF8, \h6E17, \h7E36, \h4E55, \h5E74,
      \h2E93, \h3EB2, \h0ED1, \h1EF0>>

\* crc behind the loop.  It grows to 32 bits; those from the 16th up reach
\* neither the index, which has eight of the lower ones, nor the result.
crc(data) ==
    LET from[i \in 1..Len(data) + 1, c \in Nat] ==
            IF i > Len(data) THEN c
            ELSE from[i + 1, CRC16_TABLE[(((c \div 256) % 256) ^^ data[i]) + 1]
                             ^^ ((c % 65536) * 256)]
    IN from[1, 0]

\* Mutant: the mask has one bit too few.
crc16_Short(data) == crc(data) % 32768

crc16(data) == crc(data) % 65536

\* A longer payload than the length byte can say raises ValueError.
encode_frame(cmd, payload) ==
    IF Len(payload) > 255 THEN <<>>
    ELSE LET sum == crc16(<<cmd>> \o payload)
         IN <<Len(payload), sum \div 256, sum % 256, cmd>> \o payload

LoadCmd == 1
JumpCmd == 2

\* Mutant: the address is forgotten in the limit.
ChunkSize_Wider == 1..255

\* What main lets --chunk-size be.
ChunkSize == 1..251

-----------------------------------------------------------------------------
(* Board (external): the remainder of the body, followed by two bytes of    *)
(* zeros, on division by x^16 + x^12 + x^5 + 1, one bit after the other.     *)

Shift(r) == IF r < 32768 THEN 2 * r ELSE (2 * r - 65536) ^^ 4129

Remainder(bytes) ==
    LET from[i \in 1..Len(bytes) + 1, r \in 0..65535] ==
            IF i > Len(bytes) THEN r
            ELSE from[i + 1, Shift(Shift(Shift(Shift(Shift(Shift(Shift(Shift(
                                 r ^^ (bytes[i] * 256)))))))))]
    IN from[1, 0]

Accepts(f) == /\ Len(f) >= 4 /\ Len(f) = f[1] + 4
              /\ Remainder(SubSeq(f, 4, Len(f))) = 256 * f[2] + f[3]

\* The line flips bit p.
FlipBit(p, f) ==
    LET i == p \div 8 + 2
        w == 2 ^ (7 - (p % 8))
    IN [f EXCEPT ![i] = IF (@ \div w) % 2 = 1 THEN @ - w ELSE @ + w]

-----------------------------------------------------------------------------
Init == body = <<>> /\ frame = <<>> /\ damage = {} /\ taken = FALSE

Encode(cmd, payload) ==
    /\ body = <<>>
    /\ body' = <<cmd>> \o payload
    /\ frame' = encode_frame(cmd, payload)
    /\ taken' = Accepts(frame')
    /\ UNCHANGED damage

\* upload_file: the chunks of a file are as long as --chunk-size says, but for
\* the last.
SendLoad == \E a \in Addresses, c \in Chunks : Len(c) \in ChunkSize /\ Encode(LoadCmd, a \o c)

SendJump == \E a \in Addresses : Encode(JumpCmd, a)

Damage ==
    /\ frame # <<>> /\ damage = {}
    /\ body \in DOMAIN Damages
    /\ damage' \in Damages[body]
    /\ frame' = FoldSet(FlipBit, frame, damage')
    /\ taken' = Accepts(frame')
    /\ UNCHANGED body

\* The frame has arrived.
Arrived == frame # <<>> /\ UNCHANGED vars

Next == SendLoad \/ SendJump \/ Damage \/ Arrived

Spec == Init /\ [][Next]_vars

-----------------------------------------------------------------------------
(***************************************************************************)
(* Every load and jump frame that the script sends, with every size of     *)
(* chunk that main accepts, is taken by a BIOS that divides bit by bit: it *)
(* fits its length byte, and the table and the order of bytes are those    *)
(* of the polynomial.                                                      *)
(***************************************************************************)
IntactIsTaken == body # <<>> /\ damage = {} => taken

\* Few flipped bits, oddly many, or a burst of at most 16 bits that stays
\* within the body or within the CRC.
Noticeable(d) ==
    \/ Cardinality(d) = 2
    \/ Cardinality(d) % 2 = 1
    \/ /\ \A p, q \in d : p - q < 16
       /\ (\A p \in d : p >= 16) \/ (\A p \in d : p < 16)

(***************************************************************************)
(* No frame with such damage is taken, so that its chunk is not stored and *)
(* the host sees a CRC error.  A burst across the border of CRC and body   *)
(* is none in the order of the polynomial, where the CRC comes last, and   *)
(* may go unnoticed from 12 bits on.                                       *)
(***************************************************************************)
DamageIsNoticed == damage # {} /\ Noticeable(damage) => ~ taken
===============================================================================
