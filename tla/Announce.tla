------------------------------ MODULE Announce ------------------------------
(***************************************************************************)
(* What btor tells the tracker and the peers about itself: the info hash   *)
(* in hexadecimal and as bytes (getSHA1 of butils.cpp), the peer id        *)
(* (generateId), the parameters and the two parts of the announce URL      *)
(* (bhttp.cpp), and the handshake (BPeer::getHandshake).                   *)
(*                                                                         *)
(* Text is a sequence of numbers: a hexadecimal digit is its value, a byte *)
(* of the hash in the handshake too, and any other character is negative.  *)
(***************************************************************************)
EXTENDS Sha1

CONSTANTS
    Words,          \* values of the 32-bit words of a digest
    HexDigits,      \* hexadecimal digits of a word: 8
    DigestWords,    \* words of a digest: 5
    Urls,           \* announce URLs of torrents
    ObjectBytes,    \* bytes a std::vector<uint32_t> object may consist of
    Rand,           \* the values of rand() % 10 in a process that seeds nothing
    SizeModulus,    \* 2^(width of size_t)
    UIntModulus,    \* 2^(width of unsigned int)
    InfoDict        \* the text of the info dictionary

PowerOf16[k \in Nat] == IF k = 0 THEN 1 ELSE 16 * PowerOf16[k - 1]

ASSUME AnnounceAssumption ==
    /\ HexDigits \in Nat \ {0} /\ HexDigits % 2 = 0 /\ DigestWords \in Nat
    /\ Words \subseteq 0..(PowerOf16[HexDigits] - 1)
    /\ UIntModulus \in Nat \ {0} /\ SizeModulus \in Nat /\ UIntModulus <= SizeModulus
    /\ Rand \in Seq(0..9) /\ Len(Rand) >= 12
    /\ Urls \subseteq Seq(Int)

VARIABLES
    at,
    announce,           \* metainfo.announce
    res,                \* the words that SHA1::final returned
    info_hash_hex, info_hash_raw,
    unique_id,
    server, path,       \* the parts of the request
    parameters,
    shake               \* the handshake

announceVars == <<at, announce, res, info_hash_hex, info_hash_raw, unique_id,
                  server, path, parameters, shake>>

Percent == -37
Slash == -47
Other == -1     \* any other character that is no digit

DigestBytes == DigestWords * (HexDigits \div 2)

AnnounceInit ==
    /\ at = "hash" /\ announce = <<>> /\ res = <<>>
    /\ info_hash_hex = <<>> /\ info_hash_raw = <<>> /\ unique_id = <<>>
    /\ server = <<>> /\ path = <<>> /\ parameters = <<>> /\ shake = <<>>
-----------------------------------------------------------------------------
\* The digits of a number, without leading zeros (operator<< with std::hex).
Digits(w) ==
    LET n == CHOOSE k \in 1..HexDigits :
                w < PowerOf16[k] /\ (k > 1 => w >= PowerOf16[k - 1])
    IN [i \in 1..n |-> (w \div PowerOf16[n - i]) % 16]

\* Mutant of hexWord: setw was called once, before the loop.
hexWordBare(w) == Digits(w)

\* setfill('0') and setw(8), which holds for the next output only.
hexWord(w) == [i \in 1..(HexDigits - Len(Digits(w))) |-> 0] \o Digits(w)

\* getSHA1 of a metainfo with some announce URL: the object has hashed the info
\* dictionary, and the hash is any number.  The raw hash is made of the first
\* bytes of the vector object.
GetSHA1 ==
    /\ at = "hash" /\ result.is # <<>> /\ result.for = InfoDict
    /\ announce' \in Urls /\ res' \in [1..DigestWords -> Words]
    /\ info_hash_hex' = FlattenSeq([i \in 1..DigestWords |-> hexWord(res'[i])])
    /\ info_hash_raw' \in ObjectBytes
    /\ at' = "id"
    /\ UNCHANGED <<unique_id, server, path, parameters, shake>>

\* "-btor01-" and twelve times rand() % 10.  No source calls srand.
generateId ==
    [i \in 1..8 |-> Other] \o SubSeq(Rand, 1, 12)

GenerateId ==
    /\ at = "id"
    /\ unique_id' = generateId
    /\ at' = "announce"
    /\ UNCHANGED <<announce, res, info_hash_hex, info_hash_raw, server, path,
                   parameters, shake>>

\* A sign before every second digit.
urlEncode(s) ==
    FlattenSeq([i \in DOMAIN s |-> IF i % 2 = 1 THEN <<Percent, s[i]>> ELSE <<s[i]>>])

\* buildAnnounceParameters, as far as it is about the hash and the id.
buildAnnounceParameters ==
    <<Other>> \o urlEncode(info_hash_hex) \o <<Other>> \o unique_id

npos == SizeModulus - 1

\* find_last_of('/'), kept in an unsigned int.
pathSeperatorIndex ==
    LET found == {i \in DOMAIN announce : announce[i] = Slash}
    IN (IF found = {} THEN npos ELSE Max(found) - 1) % UIntModulus

\* Mutant of getServerAddress: it keeps the separator.
getServerAddressSlash == SubSeq(announce, 1, pathSeperatorIndex + 1)

getServerAddress ==
    SubSeq(announce, 1, Min({pathSeperatorIndex, Len(announce)}))

\* The sum is an unsigned int, too.
getAnnouncePath ==
    SubSeq(announce, ((pathSeperatorIndex + 1) % UIntModulus) + 1, Len(announce))

\* getServerAddress and getAnnouncePath both exit if there is no separator.
BuildRequest ==
    /\ at = "announce"
    /\ \/ /\ pathSeperatorIndex = npos
          /\ at' = "exit"
          /\ UNCHANGED <<parameters, server, path>>
       \/ /\ pathSeperatorIndex # npos
          /\ parameters' = buildAnnounceParameters
          /\ server' = getServerAddress /\ path' = getAnnouncePath
          /\ at' = "handshake"
    /\ UNCHANGED <<announce, res, info_hash_hex, info_hash_raw, unique_id, shake>>

\* "5BitTorrent protocol00000000", the hash and the id.
getHandshake ==
    [i \in 1..28 |-> Other] \o info_hash_raw \o unique_id

GetHandshake ==
    /\ at = "handshake"
    /\ shake' = getHandshake
    /\ at' = "assert"
    /\ UNCHANGED <<announce, res, info_hash_hex, info_hash_raw, unique_id,
                   server, path, parameters>>

\* Hashing, and then the request and the handshake.
AnnounceNext ==
    \/ at = "hash" /\ HashNext /\ UNCHANGED announceVars
    \/ (GetSHA1 \/ GenerateId \/ BuildRequest \/ GetHandshake) /\ UNCHANGED hashVars

AnnounceSpec ==
    HashInit /\ AnnounceInit /\ [][AnnounceNext]_<<hashVars, announceVars>>
-----------------------------------------------------------------------------
\* The bytes of the digest, most significant first.
HashBytes ==
    [i \in 1..DigestBytes |->
        LET perWord == HexDigits \div 2
            j == (i - 1) % perWord
        IN (res[((i - 1) \div perWord) + 1] \div PowerOf16[2 * (perWord - 1 - j)]) % 256]

\* What a tracker reads: each sign and two digits are a byte.
Decoded(s) ==
    [i \in 1..(Len(s) \div 3) |-> 16 * s[3 * i - 1] + s[3 * i]]

\* The tracker decodes the parameter to the bytes of the digest, those that
\* begin with a zero among them.
TrackerReadsHash ==
    parameters # <<>> =>
        LET encoded == SubSeq(parameters, 2, 1 + 3 * DigestBytes)
        IN /\ \A i \in DOMAIN encoded : (i % 3 = 1) <=> (encoded[i] = Percent)
           /\ Decoded(encoded) = HashBytes
           /\ parameters[2 + 3 * DigestBytes] = Other

\* The parts of the URL that are requested make up the URL.
UrlKeptWhole ==
    at \in {"handshake", "assert"} => server \o <<Slash>> \o path = announce

\* bpeer.cpp:174: the handshake is "<pstrlen><pstr><reserved><info_hash><peer_d>".
HandshakeNamesTorrent ==
    at = "assert" => SubSeq(shake, 29, 28 + DigestBytes) = HashBytes
=============================================================================
