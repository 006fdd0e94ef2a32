----------------------------- MODULE MCBencode -----------------------------
(***************************************************************************)
(* Inputs on which TLC runs the parser, and the properties that compare    *)
(* what it built with the text it was given.  The keys "info" and "length" *)
(* are one character long here ('I' and 'L').                              *)
(***************************************************************************)
EXTENDS Bencode, SequencesExt

chA    == 97    \* 'a', an ordinary character
chInfo == 73    \* 'I'
chLen  == 76    \* 'L'
ch1 == ch0 + 1

MCInfoKey   == <<chInfo>>
MCLengthKey == <<chLen>>

\* Every text of at most n characters over an alphabet that reaches each
\* branch of the parser; a '9' overflows a type of 16 values at once.
Alphabet == {chI, chL, chD, chE, chColon, chMinus, ch0, ch1, ch9}
ShortTexts == UNION {[1..m -> Alphabet] : m \in 0..4}
-----------------------------------------------------------------------------
(* Canonical bencoding, level by level: integers and strings, then lists   *)
(* and dictionaries of those, then one level more.                         *)

Key(c) == <<ch1, chColon, c>>
IntText(ds) == <<chI>> \o ds \o <<chE>>
ListText(v) == <<chL>> \o v \o <<chE>>
DictText(v) == <<chD>> \o v \o <<chE>>

Atoms == {IntText(<<ch0>>), IntText(<<ch1, ch0>>), IntText(<<chMinus, ch1>>),
          <<ch0, chColon>>, Key(chA), Key(chE)}

Pairs(V, W) == {v \o w : v \in V, w \in W}

\* One- and two-element lists, and dictionaries over sorted keys.
ListsOf(V) == {ListText(v) : v \in V \cup Pairs(V, V)}
Entries(c, V) == {Key(c) \o v : v \in V}
DictsOf(V) ==
    {DictText(v) : v \in Entries(chInfo, V) \cup Entries(chA, V)
                         \cup Entries(chLen, {IntText(<<ch1, ch0>>)})
                         \cup Pairs(Entries(chInfo, V), Entries(chA, V))}

Level1 == {Key(chA), IntText(<<ch1>>)}
Level2 == Level1 \cup ListsOf(Level1) \cup DictsOf(Level1)

\* Dictionaries whose values are lists and dictionaries, "info" in "info" too.
Nested == DictsOf({ListText(Key(chA)),
                   DictText(Key(chLen) \o IntText(<<ch1>>)),
                   DictText(Key(chInfo) \o Key(chA))})

CanonicalTexts == Atoms \cup Level2 \cup Nested \cup {ListText(v) : v \in Nested}

\* Truncations and one-character corruptions of a canonical text.
Truncated(t) == {SubSeq(t, 1, n) : n \in 0..Len(t)}
Corrupted(t) == {ReplaceAt(t, i, c) : i \in DOMAIN t, c \in Alphabet}
DamagedTexts ==
    UNION {Truncated(t) \cup Corrupted(t) :
              t \in Level2 \cup Nested}

\* A "length" that is a string, one that is a list, and one that is repeated.
BadLengthTexts ==
    {DictText(Key(chLen) \o v) :
        v \in {Key(chA), ListText(Key(chA)),
               IntText(<<ch1>>) \o Key(chLen) \o IntText(<<ch1, ch0>>)}}

HostileTexts == ShortTexts \cup DamagedTexts \cup BadLengthTexts
AllTexts == HostileTexts \cup CanonicalTexts

\* A parser is used a second time for canonical texts only, after one: the
\* first text is the torrent file, the second the reply of the tracker.
TextsSpec ==
    /\ Init
    /\ [][Next /\ (parses # parses' /\ parses > 0
                       => {buf, buf'} \subseteq CanonicalTexts)]_vars
    /\ WF_vars(Parser)
-----------------------------------------------------------------------------
(* The text of an object, by the rules of bencoding.                       *)

RECURSIVE Decimal(_)
Decimal(n) == IF n < 10 THEN <<ch0 + n>>
                        ELSE Append(Decimal(n \div 10), ch0 + (n % 10))

EncodeString(s) == Decimal(Len(s)) \o <<chColon>> \o s
EncodeInteger(n) ==
    IntText(IF n < 0 THEN <<chMinus>> \o Decimal(-n) ELSE Decimal(n))

RECURSIVE Encode(_)
Encode(p) ==
    LET o == heap[p]
        Entry(e) == EncodeString(e[1]) \o Encode(e[2])
        \* Objects are numbered in the order of their texts.
        sorted == SetToSortSeq(o.dictVal, LAMBDA e, f : e[2] < f[2])
    IN CASE o.type = "BInteger" -> EncodeInteger(o.intVal)
         [] o.type = "BString"  -> EncodeString(o.stringVal)
         [] o.type = "BList" ->
               ListText(FlattenSeq([i \in DOMAIN o.listVal |->
                                       Encode(o.listVal[i])]))
         [] o.type = "BDict" ->
               DictText(FlattenSeq([i \in DOMAIN sorted |-> Entry(sorted[i])]))

\* All entries with the given key in dictionaries made so far.
EntriesWithKey(key) ==
    {e \in UNION {heap[p].dictVal : p \in DOMAIN heap} : e[1] = key}

\* A canonical text without empty containers is accepted to its last
\* character, and the objects parseBencodedString returns encode back to it,
\* on a fresh parser and on one that was used before.
CanonicalRoundTrip ==
    parses > 0 /\ buf \in CanonicalTexts =>
        /\ pc \notin Failed
        /\ pc = "idle" => cursor = Len(buf) /\ Encode(ret) = buf

\* When one key "info" occurs, getCollectedInfoDict is the bencoded text of
\* its value, byte for byte: the text whose SHA-1 identifies the torrent.
InfoDictExact ==
    pc = "idle" /\ buf \in CanonicalTexts =>
        \A e \in EntriesWithKey(InfoKey) :
            EntriesWithKey(InfoKey) = {e} => collectedInfoDict = Encode(e[2])
-----------------------------------------------------------------------------
(* What the comments of the source say of particular texts.                *)

EmptyTexts == {DictText(<<>>), ListText(<<>>)}

BadNumberTexts ==
    {IntText(<<chMinus, ch0>>), IntText(<<ch0, ch1>>),
     <<ch0, ch1, chColon, chA>>}

DocumentedTexts == EmptyTexts \cup BadNumberTexts

\* The grammar as the comments of bencode.cpp give it: "de represents an empty
\* dictionary {}", "le represents an empty list", and leading zeros and -0 are
\* not allowed, so that no call returns an object for them.
GrammarAsDocumented ==
    /\ buf \in EmptyTexts => pc \notin Failed
    /\ parses > 0 /\ buf \in BadNumberTexts => pc # "idle"

NestedInfoTexts == {t \in Nested : Len(SelectSeq(t, LAMBDA c : c = chInfo)) = 2}

\* infodict is the bencoded string of the info dictionary: once the root is
\* returned, what was collected is the text of the root's "info" value.
InfoDictOfRoot ==
    pc = "idle" /\ parses > 0 /\ checkIfHasKey(heap[ret], InfoKey)
        => collectedInfoDict = Encode(getByKey(heap[ret], InfoKey))
=============================================================================
