----------------------------- MODULE HttpCodec -----------------------------
(***************************************************************************)
(* The encodings of btor/httplib.h: URLs, query parameters, UTF-8, base64  *)
(* and the paths of files.  Text is a sequence of bytes.  base64_encode    *)
(* runs byte by byte; the others are functions of a text.                  *)
(***************************************************************************)
EXTENDS Integers, SequencesExt

CONSTANTS
    Texts,          \* what is encoded
    Codes,          \* code points
    Paths           \* paths, as the sequences of their components

\* The last code point.
LastCode == 1114111

ASSUME CodecAssumption ==
    /\ Texts \subseteq Seq(0..255)
    /\ Codes \subseteq 0..LastCode
    /\ Paths \subseteq Seq(STRING)

VARIABLES
    in,             \* the text
    i, val, valb,   \* the loop of base64_encode
    out,            \* indices into the alphabet, 64 for the padding
    padding

codecVars == <<in, i, val, valb, out, padding>>

Nul == 0
Space == 32
Percent == 37
Ampersand == 38
Plus == 43
Equals == 61
LetterU == 117
-----------------------------------------------------------------------------
\* The value of a hexadecimal digit, or -1.
is_hex(c) ==
    IF c \in 48..57 THEN c - 48
    ELSE IF c \in 65..70 THEN c - 55
    ELSE IF c \in 97..102 THEN c - 87 ELSE -1

\* cnt digits of s from pos, or -1.
from_hex_to_i(s, pos, cnt) ==
    IF pos + cnt - 1 <= Len(s) /\ \A k \in pos..(pos + cnt - 1) : is_hex(s[k]) # -1
    THEN LET v[k \in 0..cnt] == IF k = 0 THEN 0 ELSE v[k - 1] * 16 + is_hex(s[pos + k - 1])
         IN v[cnt]
    ELSE -1

HexDigit(n) == IF n < 10 THEN 48 + n ELSE 55 + n
Escape(c) == <<Percent, HexDigit(c \div 16), HexDigit(c % 16)>>

\* A byte that goes on a code point.
Tail6(code, shift) == 128 + ((code \div 2^shift) % 64)

\* What stands for a part of a code point in UTF-16.
surrogate(code) == 55296 <= code /\ code < 57344

to_utf8(code) ==
    IF code < 128 THEN <<code>>
    ELSE IF code < 2048 THEN <<192 + (code \div 64), Tail6(code, 0)>>
    ELSE IF surrogate(code) THEN <<>>
    ELSE IF code < 65536
    THEN <<224 + (code \div 4096), Tail6(code, 6), Tail6(code, 0)>>
    ELSE <<240 + (code \div 262144), Tail6(code, 12), Tail6(code, 6), Tail6(code, 0)>>

isalnum(c) == c \in (48..57) \cup (65..90) \cup (97..122)

\* - _ . ! ~ * ' ( )
Unescaped == {45, 95, 46, 33, 126, 42, 39, 40, 41}

encode_query_param(value) ==
    FlattenSeq([k \in DOMAIN value |->
                    IF isalnum(value[k]) \/ value[k] \in Unescaped
                    THEN <<value[k]>> ELSE Escape(value[k])])

\* Blank, +, line ends, ', comma and ; are escaped, and what is not ASCII.
EscapedInUrl(c) == c \in {Space, Plus, 13, 10, 39, 44, 59} \/ c >= 128

\* Up to the first NUL; the per cent sign stays.
encode_url(s) ==
    LET ends == {k \in DOMAIN s : s[k] = Nul}
        upto == IF ends = {} THEN s ELSE SubSeq(s, 1, Min(ends) - 1)
    IN FlattenSeq([k \in DOMAIN upto |->
                      IF EscapedInUrl(upto[k]) THEN Escape(upto[k]) ELSE <<upto[k]>>])

\* What stands at k of an encoded text, and its size: %uXXXX, %XX, a plus sign
\* or a byte.
unit(s, k, convert_plus_to_space) ==
    IF s[k] = Percent /\ k < Len(s) /\ s[k + 1] = LetterU
       /\ from_hex_to_i(s, k + 2, 4) # -1
    THEN [text |-> to_utf8(from_hex_to_i(s, k + 2, 4)), size |-> 6]
    ELSE IF s[k] = Percent /\ from_hex_to_i(s, k + 1, 2) # -1
    THEN [text |-> <<from_hex_to_i(s, k + 1, 2)>>, size |-> 3]
    ELSE IF s[k] = Plus /\ convert_plus_to_space THEN [text |-> <<Space>>, size |-> 1]
    ELSE [text |-> <<s[k]>>, size |-> 1]

decode_url(s, convert_plus_to_space) ==
    LET rest[k \in 1..(Len(s) + 1)] ==
            IF k = Len(s) + 1 THEN <<>>
            ELSE LET u == unit(s, k, convert_plus_to_space)
                 IN u.text \o rest[k + u.size]
    IN rest[1]

Blanks == {Space, 9}

\* A text without the blanks around it.
trim(t) ==
    LET solid == {k \in DOMAIN t : t[k] \notin Blanks}
    IN IF solid = {} THEN <<>> ELSE SubSeq(t, Min(solid), Max(solid))

\* Where the piece behind b ends: at a d, or behind the text.
pieceEnd(s, d, b) ==
    Min({c \in (b + 1)..(Len(s) + 1) : c = Len(s) + 1 \/ s[c] = d})

\* split: the pieces between two d, without blanks around them, that are not
\* empty.
split(s, d) ==
    LET pieces[b \in 0..(Len(s) + 1)] ==
            IF b = Len(s) + 1 THEN <<>>
            ELSE LET piece == trim(SubSeq(s, b + 1, pieceEnd(s, d, b) - 1))
                 IN (IF piece = <<>> THEN <<>> ELSE <<piece>>) \o pieces[pieceEnd(s, d, b)]
    IN pieces[0]

params_to_query_str(params) ==
    FlattenSeq([k \in DOMAIN params |->
        (IF k = 1 THEN <<>> ELSE <<Ampersand>>)
        \o params[k].key \o <<Equals>> \o encode_query_param(params[k].val)])

\* The last piece behind the key is the value.
parse_field(field) ==
    LET halves == split(field, Equals)
    IN IF halves = <<>> THEN <<>>
       ELSE <<[key |-> decode_url(Head(halves), TRUE),
               val |-> IF Len(halves) = 1 THEN <<>>
                       ELSE decode_url(Last(halves), TRUE)]>>

parse_query_text(s) ==
    LET fields == split(s, Ampersand)
    IN FlattenSeq([k \in DOMAIN fields |-> parse_field(fields[k])])

Up == ".."
Here == "."

\* The level of each component, and that it never falls below that of the base.
is_valid_path(path) ==
    LET level[n \in 0..Len(path)] ==
            IF n = 0 THEN 0
            ELSE IF level[n - 1] = -1 THEN -1
            ELSE IF path[n] = Up THEN level[n - 1] - 1
            ELSE IF path[n] = Here THEN level[n - 1] ELSE level[n - 1] + 1
    IN level[Len(path)] # -1
-----------------------------------------------------------------------------
CodecInit ==
    /\ in \in Texts /\ i = 1 /\ val = 0 /\ valb = -6 /\ out = <<>> /\ padding = FALSE

\* The bits of an int that base64_encode still reads; those above are shifted
\* out, however wide an int is.
Kept(v) == v % 2^16

\* One byte of base64_encode: val gets it, and the digits that are whole go out.
Encode ==
    /\ i <= Len(in) /\ i' = i + 1
    /\ LET v == Kept(val * 256 + in[i])
           b == valb + 8
           digit(shift) == (v \div 2^shift) % 64
       IN /\ val' = v
          /\ IF b >= 6
             THEN out' = out \o <<digit(b), digit(b - 6)>> /\ valb' = b - 12
             ELSE out' = Append(out, digit(b)) /\ valb' = b - 6
    /\ UNCHANGED <<in, padding>>

\* Mutant of Rest: the last digit is not shifted.
RestUnshifted ==
    /\ i > Len(in) /\ ~padding /\ padding' = TRUE
    /\ out' = IF valb > -6 THEN Append(out, val % 64) ELSE out
    /\ UNCHANGED <<in, i, val, valb>>

\* The digit that is left over.
Rest ==
    /\ i > Len(in) /\ ~padding /\ padding' = TRUE
    /\ out' = IF valb > -6 THEN Append(out, ((val * 256) \div 2^(valb + 8)) % 64) ELSE out
    /\ UNCHANGED <<in, i, val, valb>>

Pad ==
    /\ padding /\ Len(out) % 4 # 0
    /\ out' = Append(out, 64)
    /\ UNCHANGED <<in, i, val, valb, padding>>

CodecNext == Encode \/ Rest \/ Pad

CodecSpec == CodecInit /\ [][CodecNext]_codecVars

\* base64_encode has returned.
Encoded == padding /\ Len(out) % 4 = 0
-----------------------------------------------------------------------------
\* RFC 4648: the bits of the text, filled up with zeros, and the digits that six
\* bits each make.
Bit(s, k) ==
    IF k > 8 * Len(s) THEN 0 ELSE (s[((k - 1) \div 8) + 1] \div 2^(7 - ((k - 1) % 8))) % 2

Digit(s, n) ==
    32 * Bit(s, 6 * n - 5) + 16 * Bit(s, 6 * n - 4) + 8 * Bit(s, 6 * n - 3)
    + 4 * Bit(s, 6 * n - 2) + 2 * Bit(s, 6 * n - 1) + Bit(s, 6 * n)

Base64(s) ==
    LET digits == (8 * Len(s) + 5) \div 6
    IN [n \in 1..digits |-> Digit(s, n)] \o [n \in 1..((-digits) % 4) |-> 64]

\* base64_encode computes the base64 of its text.
Base64Exact == out = Base64(in)

\* What a client encodes a server decodes: parameters with any value, and URLs
\* that hold no NUL and no escape of their own.
UrlsRoundTrip ==
    /\ decode_url(encode_query_param(in), TRUE) = in
    /\ (\A k \in DOMAIN in : in[k] \notin {Nul, Percent}) =>
           decode_url(encode_url(in), FALSE) = in
    /\ LET params == <<[key |-> <<65>>, val |-> in], [key |-> <<66>>, val |-> in]>>
       IN parse_query_text(params_to_query_str(params)) = params

\* A UTF-8 sequence as RFC 3629 reads it.
Utf8(s) ==
    IF Len(s) = 1 THEN s[1]
    ELSE IF Len(s) = 2 THEN (s[1] - 192) * 64 + s[2] - 128
    ELSE IF Len(s) = 3 THEN (s[1] - 224) * 4096 + (s[2] - 128) * 64 + s[3] - 128
    ELSE (s[1] - 240) * 262144 + (s[2] - 128) * 4096 + (s[3] - 128) * 64 + s[4] - 128

\* Every code point that is no surrogate is written in the shortest form.
Utf8Exact ==
    \A code \in Codes :
        IF surrogate(code) THEN to_utf8(code) = <<>>
        ELSE /\ Utf8(to_utf8(code)) = code
             /\ Len(to_utf8(code)) = IF code < 128 THEN 1
                                     ELSE IF code < 2048 THEN 2
                                     ELSE IF code < 65536 THEN 3 ELSE 4

\* A path is valid when no beginning of it leaves the directory.
PathsStayInside ==
    \A path \in Paths :
        is_valid_path(path) <=>
            \A n \in 1..Len(path) :
                Cardinality({k \in 1..n : path[k] = Up})
                    <= Cardinality({k \in 1..n : path[k] \notin {Up, Here}})

\* base64_encode, the URL and query encodings, UTF-8 and is_valid_path: the
\* encodings do what their standards say and what their counterparts undo, for
\* every text that has been encoded.
CodecsExact ==
    Encoded => Base64Exact /\ UrlsRoundTrip /\ Utf8Exact /\ PathsStayInside
=============================================================================
