------------------------------ MODULE Bitfield ------------------------------
(***************************************************************************)
(* The life of a bitfield: created by createEmptyFile, or found, and read  *)
(* by readBitfield when the client starts, a bit set per piece that        *)
(* arrives (setBitInBitfield), and saved by writeBitfield when the client  *)
(* stops.  None of the file operations looks at its result.  The bit       *)
(* functions have no caller yet but the unit tests; what they do to the    *)
(* vector is all that is modelled of a download.                           *)
(***************************************************************************)
EXTENDS Butils

CONSTANTS
    total_length, piece_length,  \* of the torrent, in bytes
    Arriving,                    \* bound: the pieces that may arrive
    Found,                       \* contents of a file that is there already
    MaxFaults                    \* bound: how often the disk fails

ASSUME MetainfoAssumption ==
    /\ total_length \in Nat /\ piece_length \in Nat \ {0}
    /\ Found \subseteq Seq(Byte) /\ MaxFaults \in Nat

VARIABLES
    client,    \* "down", "running", or "saving": the file was opened for writing
    bitfield,  \* state.bitfield
    file,      \* bytes of the bitfield file
    outside,   \* memory behind the vector was written
    faults

vars == <<client, bitfield, file, outside, faults>>

\* The pieces of the torrent are numbered from 0, the last may be short.
numberOfPieces == (total_length + piece_length - 1) \div piece_length
size == getBitfieldSize(total_length, piece_length)

ASSUME ArrivingAssumption == Arriving \subseteq 0..(numberOfPieces - 1)

\* The file was created, or only opened, before the client reads it; or it is
\* one that was there, whatever its size and torrent.
Init ==
    /\ client = "down" /\ bitfield = <<>> /\ outside = FALSE
    /\ file \in {Zeros(size), <<>>} \cup Found
    /\ faults = 0

Fails == faults < MaxFaults /\ faults' = faults + 1
Ends == client' = "down" /\ bitfield' = <<>> /\ outside' = FALSE

\* The client starts, and takes the file as it is.
readBitfield ==
    /\ client = "down" /\ client' = "running"
    /\ bitfield' = file
    /\ UNCHANGED <<file, outside, faults>>

\* The file cannot be opened, or not be read to its end.
ReadFails ==
    /\ client = "down" /\ client' = "running" /\ Fails
    /\ \E n \in 0..(Len(file) - 1) : bitfield' = SubSeq(file, 1, n)
    /\ UNCHANGED <<file, outside>>

\* A piece has arrived.
SetPiece(piece) ==
    /\ client = "running" /\ HasBit(bitfield, piece)
    /\ bitfield' = setBitInBitfield(bitfield, piece)
    /\ UNCHANGED <<client, file, outside, faults>>

\* operator[] behind the end of the vector: whatever is there is changed.
SetOutside(piece) ==
    /\ client = "running" /\ ~HasBit(bitfield, piece)
    /\ outside' = TRUE
    /\ UNCHANGED <<client, bitfield, file, faults>>

\* The client stops without saving: an exit, or a kill.
ExitUnsaved ==
    /\ client = "running" /\ Ends
    /\ UNCHANGED <<file, faults>>

\* Opening the file for writing empties it.
writeBitfield ==
    /\ client = "running" /\ client' = "saving"
    /\ file' = <<>>
    /\ UNCHANGED <<bitfield, outside, faults>>

\* It cannot be opened, and stays as it was.
OpenFails ==
    /\ client = "running" /\ Ends /\ Fails
    /\ UNCHANGED file

\* An empty bitfield is not written.
Write ==
    /\ client = "saving" /\ Ends
    /\ file' = IF bitfield = <<>> THEN file ELSE bitfield
    /\ UNCHANGED faults

\* The disk is full, or the client killed, before all of it is written.
WriteFails ==
    /\ client = "saving" /\ Ends /\ Fails
    /\ \E n \in 0..Len(bitfield) : file' = SubSeq(bitfield, 1, n)

Next ==
    \/ readBitfield \/ ReadFails
    \/ \E piece \in Arriving : SetPiece(piece) \/ SetOutside(piece)
    \/ ExitUnsaved \/ writeBitfield \/ OpenFails \/ Write \/ WriteFails

Spec == Init /\ [][Next]_vars
-----------------------------------------------------------------------------
\* Type invariant.  Unless the disk fails, no step of a run but the opening of
\* the file makes the vector or the file shorter or longer than the other.
BitfieldTypeOK ==
    /\ client \in {"down", "running", "saving"}
    /\ bitfield \in Seq(Byte) /\ file \in Seq(Byte)
    /\ outside \in BOOLEAN /\ faults \in 0..MaxFaults
    /\ client = "down" => bitfield = <<>>
    /\ client = "saving" => file = <<>>
    /\ client = "running" /\ faults = 0 => Len(bitfield) = Len(file)

PiecesOf(bits) ==
    {p \in 0..(8 * Len(bits) - 1) : isBitInBitfieldSet(bits, p)}

\* What the next run is going to have, if the saving goes on.
savedBits == IF client = "saving" THEN bitfield ELSE file

Abstract == INSTANCE PieceSet
    WITH Pieces <- Arriving, have <- PiecesOf(bitfield), saved <- PiecesOf(savedBits)

\* The vector and the file implement a set of pieces: setBitInBitfield adds
\* exactly its piece, as isBitInBitfieldSet sees it, and disturbs no other;
\* what was saved is there again; and when opening, reading or writing the file
\* fails, or the client is killed while it saves, pieces get lost but no step
\* makes one up.
IsPieceSet == Abstract!Spec
=============================================================================
