--------------------------- MODULE BitfieldStore ---------------------------
(***************************************************************************)
(* What a resumed download needs of the bitfield file: once there is one,  *)
(* every later run reads back what was in it.  No code path of the client  *)
(* records a new piece, so the one change a user may see is the first run  *)
(* creating the file, with no piece in it.                                 *)
(***************************************************************************)
EXTENDS Integers, Sequences

CONSTANT Files  \* the files that may be there before the first run

VARIABLE file   \* what a run started now would read

Init == file \in Files

Create ==
    /\ ~file.exists
    /\ file'.exists
    /\ \A i \in DOMAIN file'.bytes : file'.bytes[i] = {}

Spec == Init /\ [][Create]_file
=============================================================================
