-------------------------------- MODULE Sha1 --------------------------------
(***************************************************************************)
(* The incremental hash of btor/sha1.hpp: how update() cuts the message    *)
(* into blocks and how final() pads it.  A digest is the sequence of the   *)
(* blocks it was made from: transform() is a function of the digest and    *)
(* the block, and its rounds are not modelled.                             *)
(***************************************************************************)
EXTENDS Integers, SequencesExt

CONSTANTS
    BLOCK_BYTES,    \* 64
    LengthBytes,    \* the bytes of a block that hold the length: 8
    Bytes,          \* values of the bytes of a message
    MaxMessage      \* bound: length of a message

ASSUME BlockAssumption ==
    /\ BLOCK_BYTES \in Nat /\ LengthBytes \in 1..(BLOCK_BYTES - 1)
    /\ MaxMessage \in Nat
    /\ Bytes \subseteq 0..255

VARIABLES
    digest, buffer, transforms,
    is,         \* rest of the stream in update()
    message,    \* history: what was hashed since the last final()
    result      \* what final() returned, and for which message

hashVars == <<digest, buffer, transforms, is, message, result>>

Pad == 128      \* 0x80
NoStream == [open |-> FALSE, rest |-> <<>>]
NoResult == [for |-> <<>>, is |-> <<>>]

HashInit ==
    /\ digest = <<>> /\ buffer = <<>> /\ transforms = 0
    /\ is = NoStream /\ message = <<>> /\ result = NoResult

Repeat(b, n) == [i \in 1..n |-> b]

\* total_bits, most significant byte first, as the last words of a block.
LengthField(total_bits) ==
    [i \in 1..LengthBytes |-> (total_bits \div 256^(LengthBytes - i)) % 256]

transform(d, block) == Append(d, block)
-----------------------------------------------------------------------------
\* SHA1::update(s), the call.
Update(s) ==
    /\ ~is.open
    /\ Len(message) + Len(s) <= MaxMessage
    /\ is' = [open |-> TRUE, rest |-> s]
    /\ message' = message \o s /\ result' = NoResult
    /\ UNCHANGED <<digest, buffer, transforms>>

\* Mutant of Fill: the buffer is not cleared after a block.
FillKeepsBuffer ==
    /\ is.open
    /\ LET n    == Min({BLOCK_BYTES - Len(buffer), Len(is.rest)})
           full == buffer \o SubSeq(is.rest, 1, n)
       IN IF Len(full) # BLOCK_BYTES
          THEN /\ buffer' = full /\ is' = NoStream
               /\ UNCHANGED <<digest, transforms>>
          ELSE /\ digest' = transform(digest, full)
               /\ transforms' = transforms + 1
               /\ buffer' = SubSeq(full, 1, 1)
               /\ is' = [is EXCEPT !.rest = SubSeq(@, n + 1, Len(@))]
    /\ UNCHANGED <<message, result>>

\* One turn of the loop in update(): read what the buffer lacks; a full buffer
\* is transformed and the loop goes on, any other ends it.
Fill ==
    /\ is.open
    /\ LET n    == Min({BLOCK_BYTES - Len(buffer), Len(is.rest)})
           full == buffer \o SubSeq(is.rest, 1, n)
       IN IF Len(full) # BLOCK_BYTES
          THEN /\ buffer' = full /\ is' = NoStream
               /\ UNCHANGED <<digest, transforms>>
          ELSE /\ digest' = transform(digest, full)
               /\ transforms' = transforms + 1
               /\ buffer' = <<>>
               /\ is' = [is EXCEPT !.rest = SubSeq(@, n + 1, Len(@))]
    /\ UNCHANGED <<message, result>>

\* Mutant of needsSecondBlock: off by one at the border.
needsSecondBlockLate(orig_size) == orig_size > BLOCK_BYTES - LengthBytes + 1

\* The padded buffer leaves no room for the length.
needsSecondBlock(orig_size) == orig_size > BLOCK_BYTES - LengthBytes

\* SHA1::final(), and the reset at its end.
Final ==
    /\ ~is.open
    /\ LET total_bits == (transforms * BLOCK_BYTES + Len(buffer)) * 8
           orig   == Append(buffer, Pad)
           block  == orig \o Repeat(0, BLOCK_BYTES - Len(orig))
           second == needsSecondBlock(Len(orig))
           body   == IF second THEN Repeat(0, BLOCK_BYTES) ELSE block
           last   == SubSeq(body, 1, BLOCK_BYTES - LengthBytes)
                     \o LengthField(total_bits)
       IN result' = [for |-> message,
                     is  |-> transform(IF second THEN transform(digest, block)
                                       ELSE digest, last)]
    /\ digest' = <<>> /\ buffer' = <<>> /\ transforms' = 0
    /\ message' = <<>>
    /\ UNCHANGED is

HashNext ==
    \/ \E n \in 0..MaxMessage : \E s \in [1..n -> Bytes] : Update(s)
    \/ Fill \/ Final

HashSpec == HashInit /\ [][HashNext]_hashVars
-----------------------------------------------------------------------------
\* What was hashed so far is in the blocks, the buffer and the stream, in this
\* order and nothing twice; a block is never left in the buffer.
NothingLost ==
    /\ FlattenSeq(digest) \o buffer \o is.rest = message
    /\ Len(buffer) < BLOCK_BYTES

\* The padding as FIPS 180 defines it: the message, a bit 1, the least number
\* of zeros, and the length, in whole blocks.
Padded(m) ==
    LET zeros == CHOOSE z \in 0..(BLOCK_BYTES - 1) :
                    (Len(m) + 1 + z + LengthBytes) % BLOCK_BYTES = 0
    IN Append(m, Pad) \o Repeat(0, zeros) \o LengthField(8 * Len(m))

\* However the message was cut into updates, final() returns the hash of the
\* message, and an object that was used before starts anew.
FinalHashesMessage ==
    result.is # <<>> => FlattenSeq(result.is) = Padded(result.for)
================================================================================
