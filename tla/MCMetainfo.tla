----------------------------- MODULE MCMetainfo -----------------------------
(***************************************************************************)
(* What the client makes of a torrent's metainfo, for TLC: the hash of the *)
(* info dictionary with the request and the handshake made of it, and the  *)
(* bitfield.  The two share nothing, so that a behaviour is one of either. *)
(* Digests have two words of four digits.                                  *)
(***************************************************************************)
EXTENDS Announce, Bitfield

VARIABLE part

\* Files of other torrents: shorter and longer than two bytes.
MCFound == {<<{0}>>, <<{}, {7}, {1}>>}

MCWords == {0, 10, 255, 256, 4096, 65535}
MCRand == <<1, 7, 4, 0, 9, 4, 8, 8, 2, 4, 5, 5, 1>>
MCInfoDict == <<0, 128, 128>>

\* A tracker with and without a path, with a path of two parts, and a URL
\* without a separator.
MCUrls == {<<Other, Slash, 5>>, <<Other, Slash>>, <<Other, Slash, 5, Slash, 6>>,
           <<Other>>}

\* Pointers, whatever they point to.
MCObjectBytes == {<<64, 1, 64, 9>>, <<0, 0, 0, 0>>}

MetainfoInit ==
    HashInit /\ AnnounceInit /\ Init /\ part \in {"announce", "bitfield"}

MetainfoNext ==
    /\ \/ part = "announce" /\ AnnounceNext /\ UNCHANGED vars
       \/ part = "bitfield" /\ Next /\ UNCHANGED <<hashVars, announceVars>>
    /\ UNCHANGED part

MetainfoSpec ==
    MetainfoInit /\ [][MetainfoNext]_<<hashVars, announceVars, vars, part>>
=============================================================================
