--------------------------------- MODULE Crc16 ---------------------------------
(***************************************************************************)
(* crc16 (api/utils.cpp), by two tables, with which a Modbus frame is sent *)
(* and checked (app/modbus.cpp), and the configuration likewise.  The      *)
(* other modules take it that a damaged frame is refused.                  *)
(*                                                                         *)
(* A frame goes over the line a byte at a time; bits flip on the way.      *)
(***************************************************************************)
EXTENDS Integers, Sequences, Folds

CONSTANTS Cases   \* messages, and whether bits of theirs flip

Crc16Assumption ==
    \A c \in Cases : c.message \in Seq(0 .. 255) /\ c.message # <<>> /\ c.noisy \in BOOLEAN

VARIABLES message,
          noise,            \* the bits that flip: 1 is the first on the line
          sent,             \* bytes that have passed
          crc,              \* of the sender
          calculated,       \* by the receiver
          wCRC,             \* the reference
          unpacked          \* what the receiver makes of it: "no" before, 0 or -2

vars == <<message, noise, sent, crc, calculated, wCRC, unpacked>>

table_crc_hi == <<
    0, 193, 129, 64, 1, 192, 128, 65, 1, 192, 128, 65, 0, 193, 129, 64, 1, 192, 128, 65, 0, 193,
    129, 64, 0, 193, 129, 64, 1, 192, 128, 65, 1, 192, 128, 65, 0, 193, 129, 64, 0, 193, 129, 64,
    1, 192, 128, 65, 0, 193, 129, 64, 1, 192, 128, 65, 1, 192, 128, 65, 0, 193, 129, 64, 1, 192,
    128, 65, 0, 193, 129, 64, 0, 193, 129, 64, 1, 192, 128, 65, 0, 193, 129, 64, 1, 192, 128, 65,
    1, 192, 128, 65, 0, 193, 129, 64, 0, 193, 129, 64, 1, 192, 128, 65, 1, 192, 128, 65, 0, 193,
    129, 64, 1, 192, 128, 65, 0, 193, 129, 64, 0, 193, 129, 64, 1, 192, 128, 65, 1, 192, 128, 65,
    0, 193, 129, 64, 0, 193, 129, 64, 1, 192, 128, 65, 0, 193, 129, 64, 1, 192, 128, 65, 1, 192,
    128, 65, 0, 193, 129, 64, 0, 193, 129, 64, 1, 192, 128, 65, 1, 192, 128, 65, 0, 193, 129, 64,
    1, 192, 128, 65, 0, 193, 129, 64, 0, 193, 129, 64, 1, 192, 128, 65, 0, 193, 129, 64, 1, 192,
    128, 65, 1, 192, 128, 65, 0, 193, 129, 64, 1, 192, 128, 65, 0, 193, 129, 64, 0, 193, 129, 64,
    1, 192, 128, 65, 1, 192, 128, 65, 0, 193, 129, 64, 0, 193, 129, 64, 1, 192, 128, 65, 0, 193,
    129, 64, 1, 192, 128, 65, 1, 192, 128, 65, 0, 193, 129, 64 >>

table_crc_lo == <<
    0, 192, 193, 1, 195, 3, 2, 194, 198, 6, 7, 199, 5, 197, 196, 4, 204, 12, 13, 205, 15, 207,
    206, 14, 10, 202, 203, 11, 201, 9, 8, 200, 216, 24, 25, 217, 27, 219, 218, 26, 30, 222, 223,
    31, 221, 29, 28, 220, 20, 212, 213, 21, 215, 23, 22, 214, 210, 18, 19, 211, 17, 209, 208, 16,
    240, 48, 49, 241, 51, 243, 242, 50, 54, 246, 247, 55, 245, 53, 52, 244, 60, 252, 253, 61, 255,
    63, 62, 254, 250, 58, 59, 251, 57, 249, 248, 56, 40, 232, 233, 41, 235, 43, 42, 234, 238, 46,
    47, 239, 45, 237, 236, 44, 228, 36, 37, 229, 39, 231, 230, 38, 34, 226, 227, 35, 225, 33, 32,
    224, 160, 96, 97, 161, 99, 163, 162, 98, 102, 166, 167, 103, 165, 101, 100, 164, 108, 172,
    173, 109, 175, 111, 110, 174, 170, 106, 107, 171, 105, 169, 168, 104, 120, 184, 185, 121, 187,
    123, 122, 186, 190, 126, 127, 191, 125, 189, 188, 124, 180, 116, 117, 181, 119, 183, 182, 118,
    114, 178, 179, 115, 177, 113, 112, 176, 80, 144, 145, 81, 147, 83, 82, 146, 150, 86, 87, 151,
    85, 149, 148, 84, 156, 92, 93, 157, 95, 159, 158, 94, 90, 154, 155, 91, 153, 89, 88, 152, 136,
    72, 73, 137, 75, 139, 138, 74, 78, 142, 143, 79, 141, 77, 76, 140, 68, 132, 133, 69, 135, 71,
    70, 134, 130, 66, 67, 131, 65, 129, 128, 64 >>

\* The operator ^ of C, by four bits at a time.
xor4 == [a, b \in 0 .. 15 |-> LET bit(k) == k * ((a \div k + b \div k) % 2)
                              IN  bit(1) + bit(2) + bit(4) + bit(8)]
xor8(a, b) == 16 * xor4[a \div 16, b \div 16] + xor4[a % 16, b % 16]
xor(a, b) == 256 * xor8(a \div 256, b \div 256) + xor8(a % 256, b % 256)

\* (mutant) the halves go on in the wrong order
Step_swapped(c, byte) ==
    LET i == xor(c.hi, byte)
    IN  [hi |-> table_crc_hi[i + 1], lo |-> xor(c.lo, table_crc_lo[i + 1])]

\* The loop of crc16.
Step(c, byte) ==
    LET i == xor(c.hi, byte)
    IN  [hi |-> xor(c.lo, table_crc_hi[i + 1]), lo |-> table_crc_lo[i + 1]]

Start == [hi |-> 255, lo |-> 255]

\* What is on the line: the message, and the two bytes of _modbus_rtu_send_msg_pre.
Frame(n) == IF n <= Len(message) THEN message[n]
            ELSE IF n = Len(message) + 1 THEN crc.hi ELSE crc.lo

Flipped(n) == MapThenFoldSet(+, 0, LAMBDA bit : 2 ^ ((bit - 1) % 8), LAMBDA S : CHOOSE x \in S : TRUE,
                             noise \cap (8 * n - 7 .. 8 * n))

Received(n) == xor(Frame(n), Flipped(n))

\* The variant that is left out (utils.cpp:467), bit by bit.
Shift(r)     == IF r % 2 = 1 THEN xor(r \div 2, 40961) ELSE r \div 2
Bits(r, byte) == Shift(Shift(Shift(Shift(Shift(Shift(Shift(Shift(xor(r, byte)))))))))

\* The bits of a frame.
Line == 1 .. 8 * (Len(message) + 2)

Init ==
    /\ \E c \in Cases :
          /\ message = c.message
          /\ \/ noise = {}
             \/ c.noisy /\ \E a, b \in Line :
                   noise = {a, b} \/ (b - a \in 2 .. 15 /\ noise = a .. b)
    /\ sent = 0 /\ crc = Start /\ calculated = Start /\ wCRC = 65535 /\ unpacked = "no"

\* The next byte of the message, at both ends.
Send ==
    /\ sent < Len(message)
    /\ sent' = sent + 1
    /\ crc' = Step(crc, message[sent + 1])
    /\ wCRC' = Bits(wCRC, message[sent + 1])
    /\ calculated' = Step(calculated, Received(sent + 1))
    /\ UNCHANGED <<message, noise, unpacked>>

\* (mutant) the check sum is taken in the other order
unpack_swapped ==
    /\ sent = Len(message) /\ unpacked = "no"
    /\ unpacked' = IF calculated = [hi |-> Received(sent + 2), lo |-> Received(sent + 1)]
                   THEN "0" ELSE "-2"
    /\ UNCHANGED <<message, noise, sent, crc, calculated, wCRC>>

\* protocol_modbus_rtu::unpack, for the address it is for
unpack ==
    /\ sent = Len(message) /\ unpacked = "no"
    /\ unpacked' = IF calculated = [hi |-> Received(sent + 1), lo |-> Received(sent + 2)]
                   THEN "0" ELSE "-2"
    /\ UNCHANGED <<message, noise, sent, crc, calculated, wCRC>>

\* The next frame, with the same bits.
Again ==
    /\ unpacked # "no" /\ unpacked' = "no"
    /\ sent' = 0 /\ crc' = Start /\ calculated' = Start /\ wCRC' = 65535
    /\ UNCHANGED <<message, noise>>

Next == Send \/ unpack \/ Again

Spec == Init /\ [][Next]_vars

--------------------------------------------------------------------------------
(* Properties.                                                             *)

TypeOK ==
    /\ sent \in 0 .. Len(message) /\ wCRC \in 0 .. 65535 /\ unpacked \in {"no", "0", "-2"}
    /\ \A c \in {crc, calculated} : c.hi \in 0 .. 255 /\ c.lo \in 0 .. 255

(* The two tables are the polynomial of Modbus, with its low byte first.   *)
IsReference == crc.lo * 256 + crc.hi = wCRC

(* What arrives as it was sent is taken, and what was damaged in one or    *)
(* two bits anywhere, or in a run of up to sixteen, is refused.            *)
DamageSeen == unpacked # "no" => (unpacked = "0") = (noise = {})
================================================================================
