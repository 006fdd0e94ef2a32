------------------------------- MODULE Butils -------------------------------
(***************************************************************************)
(* The bitfield functions of btor/butils.cpp.  A byte is the set of its    *)
(* bits that are 1, bit k being the one the mask 0x80 >> k selects; a      *)
(* std::vector<uint8_t> is a sequence of bytes, numbered from 1.           *)
(***************************************************************************)
EXTENDS Integers, Sequences

Byte == SUBSET (0..7)

Zeros(n) == [i \in 1..n |-> {}]

\* target_byte, as a position in the sequence, and bit_offset.
ByteOf(piece)   == (piece \div 8) + 1
OffsetOf(piece) == piece % 8

\* Both functions index the vector without a check: the caller's piece must
\* have a byte.
HasBit(bits, piece) == ByteOf(piece) \in DOMAIN bits

\* Mutant of setBitInBitfield: the byte is assigned and not or-ed.
assignBitInBitfield(bits, piece) ==
    [bits EXCEPT ![ByteOf(piece)] = {OffsetOf(piece)}]

setBitInBitfield(bits, piece) ==
    [bits EXCEPT ![ByteOf(piece)] = @ \cup {OffsetOf(piece)}]

isBitInBitfieldSet(bits, piece) == OffsetOf(piece) \in bits[ByteOf(piece)]

\* Bytes of the bitfield of a torrent.  Both divisions are integer divisions,
\* so that the calls of ceil have nothing left to round up.
getBitfieldSize(total_length, piece_length) ==
    (total_length \div piece_length) \div 8
=============================================================================
