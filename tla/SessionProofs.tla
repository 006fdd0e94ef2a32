--------------------------- MODULE SessionProofs ----------------------------
(***************************************************************************)
(* Proofs about the parser and the runs of main that it is part of.        *)
(*                                                                         *)
(* The parser (module Bencode) keeps its inductive invariant IInv, for all *)
(* buffers, keys, integer widths and numbers of calls.  The proof first    *)
(* sorts the steps by their effect on the manager's vector (HeapStep) and  *)
(* on the stack (StackStep).  Each conjunct of IInv is then preserved by   *)
(* these effects, not by 25 actions one at a time; TypeNext, RetKept,      *)
(* ControlKept and InfoStep are the lemmas that go through the actions.    *)
(* With IInv every dictionary holds at most one integer under a key, in    *)
(* the heap, so that the sum of the lengths changes as the total does.     *)
(*                                                                         *)
(* The client (module Session), for all torrent files, replies and         *)
(* bitfield files, any number of runs and any number of faults: the        *)
(* parser's invariant holds inside main as well, no object is deleted      *)
(* twice, the requests of a run agree, and the bitfield file keeps what is *)
(* in it until a kill or a failing write.                                  *)
(***************************************************************************)
EXTENDS Session, SequenceLemmas

\* The two ways a BParserException can go are never told apart.
USE DEF ThrowUnexpected

\* Wrapping brings every integer into the range of the type (the arithmetic of
\* parseInteger, extractString and collectedLength).
LEMMA WrapRange ==
    ASSUME NEW n \in Int, NEW m \in Nat, m >= 2, m % 2 = 0
    PROVE  Wrap(n, m) \in SignedRange(m)
<1>1. m = 2 * (m \div 2) /\ (m \div 2) \in Nat
  OBVIOUS
<1>2. (n + (m \div 2)) % m \in 0..(m - 1)
  BY <1>1
<1> QED BY <1>1, <1>2 DEF Wrap, SignedRange

\* The types int64_t and int hold 0 and consist of integers.
LEMMA ZeroInRange ==
    /\ 0 \in Int64 /\ 0 \in SignedRange(IntModulus)
    /\ Int64 \subseteq Int /\ SignedRange(IntModulus) \subseteq Int
BY WidthAssumption DEF Int64, SignedRange

\* An accumulation step of parseInteger or extractString stays in the range of
\* its type.
LEMMA PushDigitRange ==
    ASSUME NEW n \in Int, NEW c \in Char, NEW m \in Nat, m >= 2, m % 2 = 0
    PROVE  PushDigit(n, c, m) \in SignedRange(m)
BY WrapRange DEF PushDigit, Char, ch0

\* The constructors of BObject make objects.
LEMMA NewObjects ==
    /\ \A t \in BObject_t : NewBObject(t) \in BObjects(Int64)
    /\ \A n \in Int64 : NewBInteger(n) \in BObjects(Int64)
    /\ \A s \in Str : NewBString(s) \in BObjects(Int64)
<1>1. \A t \in BObject_t : NewBObject(t) \in BObjects(Int64)
  <2>1. <<>> \in Str /\ <<>> \in Seq(Nat)
    BY DEF Str
  <2> QED BY <2>1, ZeroInRange DEF NewBObject, BObjects
<1>2. NewBObject("BInteger") \in BObjects(Int64)
      /\ NewBObject("BString") \in BObjects(Int64)
  BY <1>1 DEF BObject_t
<1>3. \A o \in BObjects(Int64), n \in Int64 :
         [o EXCEPT !.intVal = n] \in BObjects(Int64)
  BY DEF BObjects
<1>4. \A o \in BObjects(Int64), s \in Str :
         [o EXCEPT !.stringVal = s] \in BObjects(Int64)
  BY DEF BObjects
<1> QED BY <1>1, <1>2, <1>3, <1>4 DEF NewBInteger, NewBString

\* What pushBack and addKeyValue return is an object, and which members they
\* change.
LEMMA StoredObjects ==
    ASSUME NEW o \in BObjects(Int64), NEW p \in Nat, NEW key \in Str
    PROVE  /\ pushBack(o, p) \in BObjects(Int64)
           /\ pushBack(o, p).listVal = Append(o.listVal, p)
           /\ pushBack(o, p).dictVal = o.dictVal
           /\ pushBack(o, p).type = o.type
           /\ addKeyValue(o, key, p) \in BObjects(Int64)
           /\ addKeyValue(o, key, p).listVal = o.listVal
           /\ addKeyValue(o, key, p).dictVal =
                 IF checkIfHasKey(o, key) THEN o.dictVal
                 ELSE o.dictVal \cup {<<key, p>>}
           /\ addKeyValue(o, key, p).type = o.type
<1>1. o.listVal \in Seq(Nat) /\ o.dictVal \in SUBSET (Str \X Nat)
  BY DEF BObjects
<1>2. Append(o.listVal, p) \in Seq(Nat)
  BY <1>1, AppendProperties
<1>3. \A l \in Seq(Nat) : /\ [o EXCEPT !.listVal = l] \in BObjects(Int64)
                          /\ [o EXCEPT !.listVal = l].listVal = l
                          /\ [o EXCEPT !.listVal = l].dictVal = o.dictVal
                          /\ [o EXCEPT !.listVal = l].type = o.type
  BY DEF BObjects
<1>4. \A d \in SUBSET (Str \X Nat) :
          /\ [o EXCEPT !.dictVal = d] \in BObjects(Int64)
          /\ [o EXCEPT !.dictVal = d].dictVal = d
          /\ [o EXCEPT !.dictVal = d].listVal = o.listVal
          /\ [o EXCEPT !.dictVal = d].type = o.type
  BY DEF BObjects
<1>5. o.dictVal \cup {<<key, p>>} \in SUBSET (Str \X Nat)
  BY <1>1
<1> QED BY <1>2, <1>3, <1>4, <1>5 DEF pushBack, addKeyValue

\* A new activation of parseList or parseDictionary is a frame.
LEMMA FrameType ==
    ASSUME NEW fn \in {"parseList", "parseDictionary"}, NEW p \in Nat
    PROVE  Frame(fn, p) \in Frames
BY DEF Frame, Frames, Str

\* A prefix of a sequence: its type, length and elements.
LEMMA PrefixType ==
    ASSUME NEW S, NEW s \in Seq(S), NEW n \in Nat, n <= Len(s)
    PROVE  /\ SubSeq(s, 1, n) \in Seq(S)
           /\ Len(SubSeq(s, 1, n)) = n
           /\ \A i \in 1..n : SubSeq(s, 1, n)[i] = s[i]
<1>1. \A i \in 1..n : s[i] \in S
  BY LenProperties, ElementOfSeq
<1>2. /\ SubSeq(s, 1, n) \in Seq(S)
      /\ Len(SubSeq(s, 1, n)) = IF 1 <= n THEN n - 1 + 1 ELSE 0
      /\ \A i \in 1..(n - 1 + 1) : SubSeq(s, 1, n)[i] = s[1 + i - 1]
  BY <1>1, SubSeqProperties
<1>3. n - 1 + 1 = n /\ (\A i \in 1..n : 1 + i - 1 = i)
  OBVIOUS
<1> QED BY <1>2, <1>3

\* What leaving an activation leaves of the stack: its type, length and
\* elements.
LEMMA PopType ==
    ASSUME NEW S, NEW s \in Seq(S), s # <<>>
    PROVE  /\ Pop(s) \in Seq(S)
           /\ Len(Pop(s)) = Len(s) - 1
           /\ \A i \in 1..(Len(s) - 1) : Pop(s)[i] = s[i]
<1>1. Len(s) - 1 \in Nat /\ Len(s) - 1 <= Len(s)
  BY EmptySeq
<1> QED BY <1>1, PrefixType DEF Pop
-----------------------------------------------------------------------------
(* Type correctness.                                                       *)

\* Strings grow by characters, as collectedInfoDict and rstring do.
LEMMA StrAppend ==
    /\ <<>> \in Str
    /\ \A s \in Str, c \in Char : Append(s, c) \in Str
BY AppendProperties DEF Str

\* The character consumeChar reads exists, unless the cursor is at the end.
LEMMA CharAt ==
    ASSUME TypeOK, ~AtEnd
    PROVE  /\ Cur \in Char
           /\ cursor \in Nat /\ cursor + 1 \in 1..Len(buf)
<1>1. buf \in Seq(Char) /\ cursor \in 0..Len(buf) /\ Len(buf) \in Nat
  BY LenProperties DEF TypeOK, Str
<1>2. cursor + 1 \in 1..Len(buf)
  BY <1>1 DEF AtEnd
<1> QED BY <1>1, <1>2, ElementOfSeq DEF Cur

\* consumeChar keeps the cursor inside the buffer and collects characters.
LEMMA ConsumeType ==
    ASSUME TypeOK, NEW b \in BOOLEAN, consumeChar(b), buf' = buf
    PROVE  /\ cursor' \in 0..Len(buf')
           /\ collectedInfoDict' \in Str
BY CharAt, StrAppend DEF consumeChar, TypeOK

\* The innermost activation is a frame and holds an object of its own kind.
LEMMA TopType ==
    ASSUME TypeOK, ContainersMatchFrames, stack # <<>>
    PROVE  /\ Len(stack) \in Nat /\ Len(stack) >= 1
           /\ DOMAIN stack = 1..Len(stack)
           /\ Top \in Frames
           /\ Top.bObj \in DOMAIN heap
           /\ heap[Top.bObj] \in BObjects(Int64)
           /\ heap[Top.bObj].type =
                 IF Top.fn = "parseList" THEN "BList" ELSE "BDict"
           /\ Pop(stack) \in Seq(Frames)
<1>1. stack \in Seq(Frames) /\ heap \in Seq(BObjects(Int64))
  BY DEF TypeOK
<1>2. Len(stack) \in Nat /\ Len(stack) >= 1 /\ DOMAIN stack = 1..Len(stack)
  BY <1>1, EmptySeq, LenProperties
<1>3. Top \in Frames
  BY <1>1, <1>2, ElementOfSeq DEF Top
<1>4. /\ Top.bObj \in DOMAIN heap
      /\ heap[Top.bObj].type =
            IF Top.fn = "parseList" THEN "BList" ELSE "BDict"
  BY <1>2 DEF ContainersMatchFrames, Top
<1>5. heap[Top.bObj] \in BObjects(Int64)
  BY <1>1, <1>4, LenProperties, ElementOfSeq
<1> QED BY <1>1, <1>2, <1>3, <1>4, <1>5, PopType

\* What storing the returned pointer does to the heap, for a list and for a
\* dictionary: one object of the vector is replaced.
LEMMA StoreType ==
    ASSUME TypeOK, ContainersMatchFrames, stack # <<>>,
           NEW o \in BObjects(Int64),
           heap' = [heap EXCEPT ![Top.bObj] = o]
    PROVE  /\ heap' \in Seq(BObjects(Int64))
           /\ Len(heap') = Len(heap)
           /\ DOMAIN heap' = DOMAIN heap
           /\ heap'[Top.bObj] = o
           /\ \A p \in DOMAIN heap : p # Top.bObj => heap'[p] = heap[p]
<1>1. heap \in Seq(BObjects(Int64)) /\ DOMAIN heap = 1..Len(heap)
  BY LenProperties DEF TypeOK
<1>2. Top.bObj \in 1..Len(heap)
  BY <1>1, TopType
<1> QED BY <1>1, <1>2, ExceptSeq

\* StoreElement replaces the list by the list with the new element.
LEMMA ElementStored ==
    ASSUME TypeOK, ContainersMatchFrames, stack # <<>>, StoreElement
    PROVE  /\ pushBack(heap[Top.bObj], ret) \in BObjects(Int64)
           /\ heap' = [heap EXCEPT ![Top.bObj] = pushBack(heap[Top.bObj], ret)]
<1>1. ret \in Nat
  BY DEF TypeOK
<1> QED BY <1>1, TopType, StoredObjects, StrAppend DEF StoreElement

\* The new dictionary object of StoreValue, and the running total it leaves.
LEMMA ValueStored ==
    ASSUME TypeOK, ContainersMatchFrames, RetInv, pc = "return",
           stack # <<>>, StoreValue
    PROVE  /\ addKeyValue(heap[Top.bObj], Top.curKey, ret) \in BObjects(Int64)
           /\ heap' = [heap EXCEPT ![Top.bObj] =
                         addKeyValue(heap[Top.bObj], Top.curKey, ret)]
           /\ collectedLength' \in Int64
           /\ collectInfoDict' \in BOOLEAN
<1>1. ret \in Nat /\ Top.curKey \in Str /\ heap[Top.bObj] \in BObjects(Int64)
  BY TopType DEF TypeOK, Frames
<1>2. collectedLength' \in Int64
  <2>1. CASE Top.curKey = LengthKey
    <3>1. heap[ret] \in BObjects(Int64)
      BY <2>1, LenProperties, ElementOfSeq DEF StoreValue, RetInv, TypeOK
    <3>2. heap[ret].intVal \in Int /\ collectedLength \in Int
      BY <3>1, ZeroInRange DEF BObjects, TypeOK
    <3>3. collectedLength + heap[ret].intVal \in Int
      BY <3>2
    <3> QED BY <2>1, <3>3, WrapRange, WidthAssumption DEF StoreValue, Int64
  <2>2. CASE Top.curKey # LengthKey
    BY <2>2 DEF StoreValue, TypeOK
  <2> QED BY <2>1, <2>2
<1> QED BY <1>1, <1>2, StoredObjects DEF StoreValue, TypeOK

\* The constructors of the parser and of the manager give every member a value
\* of its type.
LEMMA TypeInit == Init => TypeOK
<1> SUFFICES ASSUME Init PROVE TypeOK
  OBVIOUS
<1>1. <<>> \in Seq(Frames) /\ <<>> \in Seq(BObjects(Int64)) /\ Len(<<>>) = 0
  OBVIOUS
<1>2. /\ buf \in Str /\ cursor \in 0..Len(buf)
      /\ rstring \in Str /\ collectedInfoDict \in Str
  BY <1>1, StrAppend DEF Init
<1>3. /\ stringlength \in SignedRange(IntModulus) /\ intVal \in Int64
      /\ collectedLength \in Int64
  BY ZeroInRange DEF Init
<1>4. /\ ret \in Nat /\ parses \in 0..MaxParses
      /\ stack \in Seq(Frames) /\ heap \in Seq(BObjects(Int64))
  BY <1>1, MaxParsesAssumption DEF Init, Wild
<1>5. /\ pc \in {"idle"} \cup Running \cup Failed
      /\ caller \in {"parseString", "parseDictionary"}
      /\ negativeNumber \in BOOLEAN /\ firstChar \in BOOLEAN
      /\ collectInfoDict \in BOOLEAN
  BY DEF Init
<1> QED BY <1>2, <1>3, <1>4, <1>5 DEF TypeOK

\* Every step of the parser keeps every member to its type.
LEMMA TypeNext ==
    ASSUME TypeOK, ContainersMatchFrames, RetInv, KeyInv, [Next]_vars
    PROVE  TypeOK'
<1> USE DEF Running, Failed, Exceptions, strVars, intVars, collectVars
<1>1. CASE parseBencodedString
  <2>1. buf' \in Str /\ Len(buf') \in Nat
    BY <1>1, InputsAssumption, LenProperties DEF parseBencodedString, Str
  <2> QED BY <1>1, <2>1, MaxParsesAssumption DEF parseBencodedString, TypeOK
<1>2. CASE parseArbitrary
  <2>1. CASE ArbitraryAtEnd \/ ArbitraryBadChar
    BY <2>1 DEF ArbitraryAtEnd, ArbitraryBadChar, TypeOK, Wild
  <2>2. CASE StartInteger
    <3>1. cursor' \in 0..Len(buf') /\ collectedInfoDict' \in Str
      BY <2>2, ConsumeType DEF StartInteger, TypeOK
    <3> QED BY <2>2, <3>1, ZeroInRange DEF StartInteger, TypeOK
  <2>3. CASE StartParseString
    BY <2>3, ZeroInRange, StrAppend DEF StartParseString, StartString, TypeOK
  <2>4. CASE StartList
    <3>1. cursor' \in 0..Len(buf') /\ collectedInfoDict' \in Str
      BY <2>4, ConsumeType DEF StartList, TypeOK
    <3>2. heap' \in Seq(BObjects(Int64))
      BY <2>4, NewObjects, AppendProperties
      DEF StartList, getNewBObject, TypeOK, BObject_t
    <3>3. stack' \in Seq(Frames)
      BY <2>4, FrameType, AppendProperties, LenProperties
      DEF StartList, TypeOK, NewPointer
    <3> QED BY <2>4, <3>1, <3>2, <3>3 DEF StartList, TypeOK
  <2>5. CASE StartDictionary
    <3>1. cursor' \in 0..Len(buf') /\ collectedInfoDict' \in Str
      BY <2>5, ConsumeType DEF StartDictionary, TypeOK
    <3>2. heap' \in Seq(BObjects(Int64))
      BY <2>5, NewObjects, AppendProperties
      DEF StartDictionary, getNewBObject, TypeOK, BObject_t
    <3>3. stack' \in Seq(Frames)
      BY <2>5, FrameType, AppendProperties, LenProperties
      DEF StartDictionary, TypeOK, NewPointer
    <3> QED BY <2>5, <3>1, <3>2, <3>3, ZeroInRange, StrAppend
            DEF StartDictionary, StartString, TypeOK
  <2> QED BY <1>2, <2>1, <2>2, <2>3, <2>4, <2>5 DEF parseArbitrary
<1>3. CASE parseInteger
  <2>1. CASE IntegerChar
    <3>1. cursor' \in 0..Len(buf') /\ collectedInfoDict' \in Str
      BY <2>1, ConsumeType DEF IntegerChar, TypeOK
    <3>2. intVal' \in Int64
      BY <2>1, CharAt, PushDigitRange, ZeroInRange, WidthAssumption
      DEF IntegerChar, TypeOK, Int64
    <3> QED BY <2>1, <3>1, <3>2 DEF IntegerChar, TypeOK
  <2>2. CASE IntegerLateMinus
    <3>1. cursor' \in 0..Len(buf') /\ collectedInfoDict' \in Str
      BY <2>2, ConsumeType DEF IntegerLateMinus, TypeOK
    <3> QED BY <2>2, <3>1 DEF IntegerLateMinus, TypeOK
  <2>3. CASE IntegerEnd
    <3>1. cursor' \in 0..Len(buf') /\ collectedInfoDict' \in Str
      BY <2>3, ConsumeType DEF IntegerEnd, TypeOK
    <3>2. intVal' \in Int64
      BY <2>3, WrapRange, ZeroInRange, WidthAssumption
      DEF IntegerEnd, TypeOK, Int64
    <3>3. heap' \in Seq(BObjects(Int64)) /\ ret' \in Nat
      BY <2>3, <3>2, NewObjects, AppendProperties, LenProperties
      DEF IntegerEnd, getNewBObject, NewPointer, TypeOK
    <3> QED BY <2>3, <3>1, <3>2, <3>3 DEF IntegerEnd, TypeOK
  <2> QED BY <1>3, <2>1, <2>2, <2>3 DEF parseInteger
<1>4. CASE extractString
  <2>1. CASE LengthDigit
    <3>1. cursor' \in 0..Len(buf') /\ collectedInfoDict' \in Str
      BY <2>1, ConsumeType DEF LengthDigit, TypeOK
    <3>2. stringlength' \in SignedRange(IntModulus)
      BY <2>1, CharAt, PushDigitRange, ZeroInRange, WidthAssumption
      DEF LengthDigit, TypeOK
    <3> QED BY <2>1, <3>1, <3>2 DEF LengthDigit, TypeOK
  <2>2. CASE LengthBadChar \/ LengthColon
    <3>1. cursor' \in 0..Len(buf') /\ collectedInfoDict' \in Str
      BY <2>2, ConsumeType DEF LengthBadChar, LengthColon, TypeOK
    <3> QED BY <2>2, <3>1 DEF LengthBadChar, LengthColon, TypeOK
  <2>3. CASE BodyChar
    <3>1. cursor' \in 0..Len(buf') /\ collectedInfoDict' \in Str
      BY <2>3, ConsumeType DEF BodyChar, TypeOK
    <3>2. rstring' \in Str
      BY <2>3, CharAt, StrAppend DEF BodyChar, TypeOK, consumeChar
    <3>3. stringlength' \in SignedRange(IntModulus)
      BY <2>3, WrapRange, ZeroInRange, WidthAssumption DEF BodyChar, TypeOK
    <3> QED BY <2>3, <3>1, <3>2, <3>3 DEF BodyChar, TypeOK
  <2>4. CASE StringEnd
    <3>1. heap' \in Seq(BObjects(Int64)) /\ ret' \in Nat
      BY <2>4, NewObjects, AppendProperties, LenProperties
      DEF StringEnd, getNewBObject, NewPointer, TypeOK
    <3> QED BY <2>4, <3>1 DEF StringEnd, TypeOK
  <2> QED BY <1>4, <2>1, <2>2, <2>3, <2>4 DEF extractString
<1>5. CASE parseList
  <2>1. heap' \in Seq(BObjects(Int64)) /\ Pop(stack) \in Seq(Frames)
        /\ Top.bObj \in Nat
    BY <1>5, ElementStored, StoreType, TopType
    DEF parseList, ListTruncated, ListNext, ListEnd, ReturnsTo, Frames
  <2>2. CASE ListTruncated \/ ListNext
    BY <2>1, <2>2 DEF ListTruncated, ListNext, TypeOK
  <2>3. CASE ListEnd
    <3>1. cursor' \in 0..Len(buf') /\ collectedInfoDict' \in Str
      BY <2>3, ConsumeType DEF ListEnd, TypeOK
    <3> QED BY <2>1, <2>3, <3>1 DEF ListEnd, TypeOK
  <2> QED BY <1>5, <2>2, <2>3 DEF parseList
<1>6. CASE parseDictionary
  <2>1. CASE KeyEnd
    <3>1. stack # <<>>
      BY <2>1 DEF KeyEnd, KeyInv, ReadingKey
    <3>2. DEFINE f == [Top EXCEPT !.curKey = rstring, !.valueFrom = cursor]
    <3>3. f \in Frames
      <4>1. rstring \in Str /\ cursor \in Nat /\ Top \in Frames
        BY <3>1, TopType, LenProperties DEF TypeOK, Str
      <4> QED BY <4>1 DEF Frames
    <3>4. stack' = [stack EXCEPT ![Len(stack)] = f]
      BY <2>1 DEF KeyEnd, Top
    <3>5. stack' \in Seq(Frames)
      BY <3>1, <3>3, <3>4, TopType, ExceptSeq DEF TypeOK
    <3> QED BY <2>1, <3>5 DEF KeyEnd, TypeOK
  <2>2. CASE LengthNotInteger
    BY <2>2 DEF LengthNotInteger, TypeOK
  <2>3. CASE LengthWild
    <3>1. addKeyValue(heap[Top.bObj], Top.curKey, ret) \in BObjects(Int64)
      BY <2>3, TopType, StoredObjects DEF LengthWild, ReturnsTo, TypeOK, Frames
    <3>2. heap' \in Seq(BObjects(Int64)) /\ collectedLength' \in Int64
      BY <2>3, <3>1, StoreType DEF LengthWild, ReturnsTo, TypeOK
    <3>3. pc' \in Failed
      BY <2>3 DEF LengthWild
    <3> QED BY <2>3, <3>2, <3>3 DEF LengthWild, TypeOK
  <2>4. CASE DictTruncated \/ DictNext \/ DictEnd
    <3>1. /\ heap' \in Seq(BObjects(Int64)) /\ collectedLength' \in Int64
          /\ collectInfoDict' \in BOOLEAN
      BY <2>4, ValueStored, StoreType
      DEF DictTruncated, DictNext, DictEnd, ReturnsTo
    <3>2. CASE DictTruncated
      BY <3>1, <3>2 DEF DictTruncated, TypeOK
    <3>3. CASE DictNext
      BY <3>1, <3>3, ZeroInRange, StrAppend DEF DictNext, StartString, TypeOK
    <3>4. CASE DictEnd
      <4>1. cursor' \in 0..Len(buf') /\ collectedInfoDict' \in Str
        BY <3>1, <3>4, ConsumeType DEF DictEnd, TypeOK
      <4>2. Pop(stack) \in Seq(Frames) /\ Top.bObj \in Nat
        BY <3>4, TopType DEF DictEnd, ReturnsTo, Frames
      <4> QED BY <3>1, <3>4, <4>1, <4>2 DEF DictEnd, TypeOK
    <3> QED BY <2>4, <3>2, <3>3, <3>4
  <2> QED BY <1>6, <2>1, <2>2, <2>3, <2>4 DEF parseDictionary
<1>7. CASE ConsumePastEnd \/ ReturnRoot
  BY <1>7 DEF ConsumePastEnd, ReturnRoot, TypeOK
<1>8. CASE UNCHANGED vars
  BY <1>8 DEF vars, TypeOK
<1> QED BY <1>1, <1>2, <1>3, <1>4, <1>5, <1>6, <1>7, <1>8 DEF Next, Parser
-----------------------------------------------------------------------------
(* What one step does to the heap: nothing, or one childless object more,  *)
(* or one more pointer in the object of the innermost activation.          *)

KindOK(o) ==
    /\ o.type # "BList" => o.listVal = <<>>
    /\ o.type # "BDict" => o.dictVal = {}

HeapGrows ==
    \E o \in BObjects(Int64) :
        /\ heap' = Append(heap, o)
        /\ o.listVal = <<>> /\ o.dictVal = {}

HeapStores ==
    /\ pc = "return" /\ stack # <<>>
    /\ \E o \in BObjects(Int64) :
           /\ heap' = [heap EXCEPT ![Top.bObj] = o]
           /\ o.type = heap[Top.bObj].type
           /\ KindOK(o) /\ SlotsDistinct(o)
           /\ Children(o) \subseteq Children(heap[Top.bObj]) \cup {ret}

\* New objects hold no pointers.
LEMMA NewChildless ==
    /\ \A t : NewBObject(t).listVal = <<>> /\ NewBObject(t).dictVal = {}
    /\ \A n : NewBInteger(n).listVal = <<>> /\ NewBInteger(n).dictVal = {}
    /\ \A s : NewBString(s).listVal = <<>> /\ NewBString(s).dictVal = {}
    /\ \A t : NewBObject(t).type = t
BY DEF NewBObject, NewBInteger, NewBString

\* What an object holds is a pointer, a natural number here.
LEMMA ChildIsPointer ==
    ASSUME NEW o \in BObjects(Int64), NEW c \in Children(o)
    PROVE  c \in Nat
<1>1. o.listVal \in Seq(Nat) /\ o.dictVal \in SUBSET (Str \X Nat)
  BY DEF BObjects
<1>2. \A i \in DOMAIN o.listVal : o.listVal[i] \in Nat
  BY <1>1, LenProperties, ElementOfSeq
<1>3. \A e \in o.dictVal : e[2] \in Nat
  BY <1>1
<1> QED BY <1>2, <1>3 DEF Children

\* An object that holds nothing has distinct slots and is of one kind.
LEMMA ChildlessShape ==
    ASSUME NEW o, o.listVal = <<>>, o.dictVal = {}
    PROVE  Children(o) = {} /\ SlotsDistinct(o) /\ KindOK(o)
BY DEF Children, SlotsDistinct, KindOK

\* pushBack adds one pointer to what a list holds, in a slot of its own.
LEMMA PushBackShape ==
    ASSUME NEW o \in BObjects(Int64), NEW p \in Nat, o.type = "BList",
           KindOK(o), SlotsDistinct(o), p \notin Children(o)
    PROVE  /\ Children(pushBack(o, p)) \subseteq Children(o) \cup {p}
           /\ SlotsDistinct(pushBack(o, p)) /\ KindOK(pushBack(o, p))
<1> DEFINE l == o.listVal  n == pushBack(o, p)
<1>1. /\ n.listVal = Append(l, p) /\ n.dictVal = {} /\ n.type = "BList"
  BY StoredObjects, StrAppend DEF KindOK
<1>2. l \in Seq(Nat) /\ Len(l) \in Nat /\ DOMAIN l = 1..Len(l)
  BY LenProperties DEF BObjects
<1>3. /\ DOMAIN n.listVal = 1..(Len(l) + 1)
      /\ n.listVal[Len(l) + 1] = p
      /\ \A i \in 1..Len(l) : n.listVal[i] = l[i]
  BY <1>1, <1>2, AppendProperties, LenProperties
<1>4. \A i \in 1..Len(l) : l[i] \in Children(o) /\ l[i] # p
  BY <1>2 DEF Children
<1>5. Children(n) \subseteq Children(o) \cup {p}
  BY <1>1, <1>2, <1>3, <1>4 DEF Children
<1>6. \A i, j \in 1..Len(l) : l[i] = l[j] => i = j
  BY <1>2 DEF SlotsDistinct
<1>7. \A i, j \in 1..(Len(l) + 1) : n.listVal[i] = n.listVal[j] => i = j
  <2> SUFFICES ASSUME NEW i \in 1..(Len(l) + 1), NEW j \in 1..(Len(l) + 1),
                      n.listVal[i] = n.listVal[j]
               PROVE  i = j
    OBVIOUS
  <2>1. CASE i \in 1..Len(l) /\ j \in 1..Len(l)
    BY <2>1, <1>3, <1>6
  <2>2. CASE i = Len(l) + 1 /\ j \in 1..Len(l)
    BY <2>2, <1>3, <1>4
  <2>3. CASE i \in 1..Len(l) /\ j = Len(l) + 1
    BY <2>3, <1>3, <1>4
  <2>4. PICK m : m = Len(l)
    OBVIOUS
  <2>5. (i \in 1..m \/ i = m + 1) /\ (j \in 1..m \/ j = m + 1)
    BY <1>2, <2>4
  <2> QED BY <2>1, <2>2, <2>3, <2>4, <2>5, Zenon
<1>8. SlotsDistinct(n)
  BY <1>1, <1>3, <1>7 DEF SlotsDistinct
<1> QED BY <1>1, <1>5, <1>8 DEF KindOK

\* addKeyValue adds at most one pointer to what a dictionary holds, in a slot of
\* its own.
LEMMA AddKeyShape ==
    ASSUME NEW o \in BObjects(Int64), NEW p \in Nat, NEW key \in Str,
           o.type = "BDict",
           KindOK(o), SlotsDistinct(o), p \notin Children(o)
    PROVE  /\ Children(addKeyValue(o, key, p)) \subseteq Children(o) \cup {p}
           /\ SlotsDistinct(addKeyValue(o, key, p))
           /\ KindOK(addKeyValue(o, key, p))
<1> DEFINE n == addKeyValue(o, key, p)
<1>1. n.listVal = <<>> /\ o.listVal = <<>> /\ n.type = "BDict"
  BY StoredObjects DEF KindOK
<1>2. CASE checkIfHasKey(o, key)
  BY <1>2 DEF addKeyValue
<1>3. CASE ~checkIfHasKey(o, key)
  <2>1. n.dictVal = o.dictVal \cup {<<key, p>>}
    BY <1>3 DEF addKeyValue, BObjects
  <2>2. \A e \in o.dictVal : e[1] # key /\ e[2] # p /\ e[2] \in Children(o)
    <3>1. \A e \in o.dictVal : e[1] # key
      BY <1>3, Zenon DEF checkIfHasKey
    <3>2. \A e \in o.dictVal : e[2] \in Children(o)
      BY Zenon DEF Children
    <3> QED BY <3>1, <3>2
  <2>3. \A e, f \in o.dictVal : e[1] = f[1] \/ e[2] = f[2] => e = f
    BY DEF SlotsDistinct
  <2>4. \A e, f \in n.dictVal : e[1] = f[1] \/ e[2] = f[2] => e = f
    <3> SUFFICES ASSUME NEW e \in n.dictVal, NEW f \in n.dictVal,
                        e[1] = f[1] \/ e[2] = f[2]
                 PROVE  e = f
      OBVIOUS
    <3>1. \A g \in n.dictVal : g \in o.dictVal \/ g = <<key, p>>
      BY <2>1
    <3>2. <<key, p>>[1] = key /\ <<key, p>>[2] = p
      OBVIOUS
    <3> QED BY <2>2, <2>3, <3>1, <3>2
  <2>5. Children(n) \subseteq Children(o) \cup {p}
    BY <1>1, <2>1 DEF Children
  <2> QED BY <1>1, <2>4, <2>5 DEF SlotsDistinct, KindOK
<1> QED BY <1>2, <1>3

\* The pointer being returned is held by no object yet, the wild one included.
LEMMA RetDetached ==
    ASSUME RetInv, NoWildPointer, pc = "return"
    PROVE  \A p \in DOMAIN heap : ret \notin Children(heap[p])
BY DEF RetInv, NoWildPointer, Failed, Exceptions

\* A step leaves the manager's vector alone, appends one empty object to it or
\* stores the pointer being returned in the innermost container.
LEMMA HeapStep ==
    ASSUME TypeOK, ContainersMatchFrames, HeapForest, NoWildPointer,
           RetInv, KindsSeparate, [Next]_vars
    PROVE  heap' = heap \/ HeapGrows \/ HeapStores
<1>1. CASE StartInteger \/ StartParseString \/ ArbitraryAtEnd
           \/ ArbitraryBadChar \/ parseBencodedString \/ IntegerChar
           \/ IntegerLateMinus \/ LengthDigit \/ LengthBadChar \/ LengthColon
           \/ BodyChar \/ KeyEnd \/ LengthNotInteger \/ ConsumePastEnd
           \/ ReturnRoot \/ UNCHANGED vars
  BY <1>1 DEF StartInteger, StartParseString, ArbitraryAtEnd,
     ArbitraryBadChar, parseBencodedString, IntegerChar, IntegerLateMinus,
     LengthDigit, LengthBadChar, LengthColon, BodyChar, KeyEnd,
     LengthNotInteger, ConsumePastEnd, ReturnRoot, vars
<1>2. CASE StartList \/ StartDictionary
  BY <1>2, NewObjects, NewChildless
  DEF StartList, StartDictionary, getNewBObject, HeapGrows, BObject_t
<1>3. CASE IntegerEnd
  <2>1. intVal' \in Int64
    BY <1>3, WrapRange, ZeroInRange, WidthAssumption
    DEF IntegerEnd, TypeOK, Int64
  <2> QED BY <1>3, <2>1, NewObjects, NewChildless
          DEF IntegerEnd, getNewBObject, HeapGrows
<1>4. CASE StringEnd
  BY <1>4, NewObjects, NewChildless
  DEF StringEnd, getNewBObject, HeapGrows, TypeOK
<1>5. ASSUME pc = "return", stack # <<>>
      PROVE  /\ heap[Top.bObj] \in BObjects(Int64) /\ ret \in Nat
             /\ Top.curKey \in Str
             /\ KindOK(heap[Top.bObj]) /\ SlotsDistinct(heap[Top.bObj])
             /\ ret \notin Children(heap[Top.bObj])
  BY <1>5, TopType, RetDetached
  DEF TypeOK, Frames, KindsSeparate, KindOK, HeapForest
<1>6. CASE ListTruncated \/ ListNext \/ ListEnd
  <2>1. pc = "return" /\ stack # <<>> /\ Top.fn = "parseList" /\ StoreElement
    BY <1>6 DEF ListTruncated, ListNext, ListEnd, ReturnsTo
  <2>2. heap[Top.bObj].type = "BList"
    BY <2>1, TopType
  <2> QED BY <1>5, <2>1, <2>2, PushBackShape, ElementStored, StoredObjects
          DEF HeapStores
<1>7. CASE LengthWild \/ DictTruncated \/ DictNext \/ DictEnd
  <2> DEFINE o == addKeyValue(heap[Top.bObj], Top.curKey, ret)
  <2>1. /\ pc = "return" /\ stack # <<>> /\ Top.fn = "parseDictionary"
        /\ heap' = heap \/ heap' = [heap EXCEPT ![Top.bObj] = o]
    BY <1>7
    DEF LengthWild, DictTruncated, DictNext, DictEnd, ReturnsTo, StoreValue
  <2>2. heap[Top.bObj].type = "BDict"
    BY <2>1, TopType
  <2>3. o \in BObjects(Int64) /\ o.type = heap[Top.bObj].type
    BY <1>5, <2>1, StoredObjects
  <2> QED BY <1>5, <2>1, <2>2, <2>3, AddKeyShape DEF HeapStores
<1> QED BY <1>1, <1>2, <1>3, <1>4, <1>6, <1>7
        DEF Next, Parser, parseArbitrary, parseInteger, extractString,
            parseList, parseDictionary
-----------------------------------------------------------------------------
(* What each of those shapes keeps.                                        *)

\* The vector after getNewBObject: one object more, which holds nothing.
LEMMA GrownHeap ==
    ASSUME TypeOK, HeapGrows
    PROVE  /\ Len(heap) \in Nat /\ DOMAIN heap = 1..Len(heap)
           /\ DOMAIN heap' = 1..(Len(heap) + 1) /\ Len(heap') = Len(heap) + 1
           /\ \A p \in DOMAIN heap : heap'[p] = heap[p]
           /\ Children(heap'[Len(heap) + 1]) = {}
           /\ SlotsDistinct(heap'[Len(heap) + 1])
           /\ KindOK(heap'[Len(heap) + 1])
<1>1. heap \in Seq(BObjects(Int64))
  BY DEF TypeOK
<1>2. PICK o \in BObjects(Int64) :
         heap' = Append(heap, o) /\ o.listVal = <<>> /\ o.dictVal = {}
  BY DEF HeapGrows
<1>3. /\ Len(heap) \in Nat /\ DOMAIN heap = 1..Len(heap)
      /\ heap' \in Seq(BObjects(Int64)) /\ Len(heap') = Len(heap) + 1
      /\ DOMAIN heap' = 1..(Len(heap) + 1)
      /\ \A p \in DOMAIN heap : heap'[p] = heap[p]
      /\ heap'[Len(heap) + 1] = o
  BY <1>1, <1>2, AppendProperties, LenProperties
<1> QED BY <1>2, <1>3, ChildlessShape

\* The vector after pushBack or addKeyValue: one object changed, which gained
\* at most the pointer being returned.
LEMMA StoredHeap ==
    ASSUME TypeOK, ContainersMatchFrames, HeapStores
    PROVE  /\ Top.bObj \in DOMAIN heap
           /\ Len(heap) \in Nat /\ DOMAIN heap = 1..Len(heap)
           /\ DOMAIN heap' = DOMAIN heap /\ Len(heap') = Len(heap)
           /\ \A p \in DOMAIN heap : p # Top.bObj => heap'[p] = heap[p]
           /\ heap'[Top.bObj].type = heap[Top.bObj].type
           /\ SlotsDistinct(heap'[Top.bObj]) /\ KindOK(heap'[Top.bObj])
           /\ Children(heap'[Top.bObj])
                 \subseteq Children(heap[Top.bObj]) \cup {ret}
BY TopType, StoreType, LenProperties DEF HeapStores, TypeOK

\* Objects keep their place and their type, and a pointer that no object held
\* is held after the step only if it is the one that was being returned.
LEMMA HeapKeeps ==
    ASSUME TypeOK, ContainersMatchFrames, heap' = heap \/ HeapGrows \/ HeapStores
    PROVE  /\ Len(heap) \in Nat /\ DOMAIN heap = 1..Len(heap)
           /\ DOMAIN heap \subseteq DOMAIN heap'
           /\ \A p \in DOMAIN heap : heap'[p].type = heap[p].type
           /\ \A c : /\ \A p \in DOMAIN heap : c \notin Children(heap[p])
                     /\ pc = "return" /\ stack # <<>> => c # ret
                     => \A p \in DOMAIN heap' : c \notin Children(heap'[p])
<1>1. Len(heap) \in Nat /\ DOMAIN heap = 1..Len(heap)
  BY LenProperties DEF TypeOK
<1>2. CASE heap' = heap
  BY <1>1, <1>2
<1>3. CASE HeapGrows
  <2>1. \A p \in DOMAIN heap' : p \in DOMAIN heap \/ p = Len(heap) + 1
    BY <1>3, GrownHeap
  <2> QED BY <1>1, <1>3, <2>1, GrownHeap
<1>4. CASE HeapStores
  BY <1>1, <1>4, StoredHeap DEF HeapStores
<1> QED BY <1>2, <1>3, <1>4

\* The objects stay a forest under each of the three effects of a step.
LEMMA ForestKept ==
    ASSUME TypeOK, ContainersMatchFrames, HeapForest, KindsSeparate,
           NoWildPointer, RetInv,
           heap' = heap \/ HeapGrows \/ HeapStores
    PROVE  HeapForest' /\ KindsSeparate'
<1>1. CASE heap' = heap
  BY <1>1 DEF HeapForest, KindsSeparate
<1>2. CASE HeapGrows
  <2>1. \A p \in DOMAIN heap' : p \in DOMAIN heap \/ p = Len(heap) + 1
    BY <1>2, GrownHeap
  <2>2. KindsSeparate'
    BY <1>2, <2>1, GrownHeap DEF KindsSeparate, KindOK
  <2>3. \A p \in DOMAIN heap' : SlotsDistinct(heap'[p])
    BY <1>2, <2>1, GrownHeap DEF HeapForest
  <2>4. ASSUME NEW p \in DOMAIN heap', NEW c \in Children(heap'[p]), c # Wild
        PROVE  p < c /\ c <= Len(heap')
    <3>1. p \in DOMAIN heap /\ c \in Children(heap[p])
      BY <1>2, <2>1, <2>4, GrownHeap
    <3>2. p < c /\ c <= Len(heap) /\ Len(heap') = Len(heap) + 1
          /\ Len(heap) \in Nat
      BY <1>2, <2>4, <3>1, GrownHeap DEF HeapForest
    <3>3. heap[p] \in BObjects(Int64)
      BY <3>1, LenProperties, ElementOfSeq DEF TypeOK
    <3>4. c \in Nat
      BY <3>1, <3>3, ChildIsPointer
    <3> QED BY <3>2, <3>4
  <2>5. ASSUME NEW p \in DOMAIN heap', NEW q \in DOMAIN heap', p # q
        PROVE  Children(heap'[p]) \cap Children(heap'[q]) = {}
    BY <1>2, <2>1, <2>5, GrownHeap DEF HeapForest
  <2> QED BY <2>2, <2>3, <2>4, <2>5 DEF HeapForest
<1>3. CASE HeapStores
  <2>1. \A p \in DOMAIN heap : ret \notin Children(heap[p])
    BY <1>3, RetDetached DEF HeapStores
  <2>2. KindsSeparate'
    BY <1>3, StoredHeap DEF KindsSeparate, KindOK
  <2>3. \A p \in DOMAIN heap' : SlotsDistinct(heap'[p])
    BY <1>3, StoredHeap DEF HeapForest
  <2>4. ASSUME NEW p \in DOMAIN heap', NEW c \in Children(heap'[p]), c # Wild
        PROVE  p < c /\ c <= Len(heap')
    <3>1. CASE c \in Children(heap[p])
      BY <1>3, <2>4, <3>1, StoredHeap DEF HeapForest
    <3>2. CASE c \notin Children(heap[p])
      <4>1. p = Top.bObj /\ c = ret
        BY <1>3, <3>2, StoredHeap
      <4>2. Len(stack) \in DOMAIN stack
        BY <1>3, TopType DEF HeapStores
      <4>3. ret \in DOMAIN heap /\ Top.bObj < ret
        BY <1>3, <2>4, <4>1, <4>2 DEF RetInv, HeapStores, Top
      <4> QED BY <1>3, <4>1, <4>3, StoredHeap
    <3> QED BY <3>1, <3>2
  <2>5. ASSUME NEW p \in DOMAIN heap', NEW q \in DOMAIN heap', p # q
        PROVE  Children(heap'[p]) \cap Children(heap'[q]) = {}
    BY <1>3, <2>1, <2>5, StoredHeap DEF HeapForest
  <2> QED BY <2>2, <2>3, <2>4, <2>5 DEF HeapForest
<1> QED BY <1>1, <1>2, <1>3
-----------------------------------------------------------------------------
(* What one step does to the stack, and what that keeps.                   *)

StackPushes ==
    /\ pc = "parseArbitrary"
    /\ \E fn \in {"parseList", "parseDictionary"} :
           /\ stack' = Append(stack, Frame(fn, Len(heap) + 1))
           /\ heap' = Append(heap,
                 NewBObject(IF fn = "parseList" THEN "BList" ELSE "BDict"))

StackPops == pc = "return" /\ stack # <<>> /\ stack' = Pop(stack)

StackKeys ==
    /\ pc = "stringBody" /\ stack # <<>> /\ cursor' = cursor
    /\ stack' = [stack EXCEPT ![Len(stack)] =
                    [Top EXCEPT !.curKey = rstring, !.valueFrom = cursor]]

\* A step leaves the stack alone, enters or leaves an activation, or sets the
\* key of the innermost one.
LEMMA StackStep ==
    ASSUME KeyInv, [Next]_vars
    PROVE  stack' = stack \/ StackPushes \/ StackPops \/ StackKeys
<1>1. CASE StartList \/ StartDictionary
  BY <1>1 DEF StartList, StartDictionary, StackPushes, getNewBObject, NewPointer
<1>2. CASE KeyEnd
  BY <1>2 DEF KeyEnd, KeyInv, ReadingKey, StackKeys, Top
<1>3. CASE ListEnd \/ DictEnd
  BY <1>3 DEF ListEnd, DictEnd, ReturnsTo, StackPops
<1>4. CASE StartInteger \/ StartParseString \/ ArbitraryAtEnd
           \/ ArbitraryBadChar \/ parseBencodedString \/ parseInteger
           \/ extractString \/ LengthNotInteger \/ ConsumePastEnd
           \/ ReturnRoot \/ UNCHANGED vars
  BY <1>4 DEF StartInteger, StartParseString, ArbitraryAtEnd,
     ArbitraryBadChar, parseBencodedString, IntegerChar, IntegerLateMinus,
     IntegerEnd, LengthDigit, LengthBadChar, LengthColon, BodyChar, StringEnd,
     LengthNotInteger, ConsumePastEnd, ReturnRoot, vars, parseInteger,
     extractString
<1>5. CASE LengthWild \/ ListTruncated \/ ListNext \/ DictTruncated \/ DictNext
  BY <1>5 DEF LengthWild, ListTruncated, ListNext, DictTruncated, DictNext
<1> QED BY <1>1, <1>2, <1>3, <1>4, <1>5
        DEF Next, Parser, parseArbitrary, parseList, parseDictionary

\* The stack after an activation is entered.
LEMMA PushedStack ==
    ASSUME TypeOK, StackPushes
    PROVE  /\ Len(stack) \in Nat /\ DOMAIN stack = 1..Len(stack)
           /\ Len(heap) \in Nat /\ DOMAIN heap = 1..Len(heap)
           /\ DOMAIN stack' = 1..(Len(stack) + 1)
           /\ Len(stack') = Len(stack) + 1
           /\ \A i \in DOMAIN stack : stack'[i] = stack[i]
           /\ stack'[Len(stack) + 1].bObj = Len(heap) + 1
           /\ stack'[Len(stack) + 1].valueFrom = 0
           /\ Len(heap) + 1 \in DOMAIN heap'
           /\ heap'[Len(heap) + 1].type =
                 IF stack'[Len(stack) + 1].fn = "parseList"
                 THEN "BList" ELSE "BDict"
<1>1. stack \in Seq(Frames) /\ heap \in Seq(BObjects(Int64))
  BY DEF TypeOK
<1>2. PICK fn \in {"parseList", "parseDictionary"} :
         /\ stack' = Append(stack, Frame(fn, Len(heap) + 1))
         /\ heap' = Append(heap,
               NewBObject(IF fn = "parseList" THEN "BList" ELSE "BDict"))
  BY DEF StackPushes
<1>3. Len(heap) + 1 \in Nat
  BY <1>1, LenProperties
<1> DEFINE f == Frame(fn, Len(heap) + 1)
           o == NewBObject(IF fn = "parseList" THEN "BList" ELSE "BDict")
<1>4. /\ f \in Frames /\ f.fn = fn /\ f.bObj = Len(heap) + 1 /\ f.valueFrom = 0
  BY <1>3, FrameType DEF Frame
<1>5. /\ o \in BObjects(Int64)
      /\ o.type = IF fn = "parseList" THEN "BList" ELSE "BDict"
  BY NewObjects, NewChildless DEF BObject_t
<1> HIDE DEF f, o
<1>6. stack' = Append(stack, f) /\ heap' = Append(heap, o)
  BY <1>2 DEF f, o
<1>7. /\ Len(stack) \in Nat /\ DOMAIN stack = 1..Len(stack)
      /\ DOMAIN stack' = 1..(Len(stack) + 1) /\ Len(stack') = Len(stack) + 1
      /\ \A i \in DOMAIN stack : stack'[i] = stack[i]
      /\ stack'[Len(stack) + 1] = f
  BY <1>1, <1>4, <1>6, AppendProperties, LenProperties
<1>8. /\ Len(heap) \in Nat /\ DOMAIN heap = 1..Len(heap)
      /\ Len(heap) + 1 \in DOMAIN heap' /\ heap'[Len(heap) + 1] = o
  BY <1>1, <1>5, <1>6, AppendProperties, LenProperties
<1> QED BY <1>4, <1>5, <1>7, <1>8

\* The stack after an activation is left.
LEMMA PoppedStack ==
    ASSUME TypeOK, StackPops
    PROVE  /\ Len(stack) \in Nat /\ Len(stack) >= 1
           /\ DOMAIN stack = 1..Len(stack)
           /\ DOMAIN stack' = 1..(Len(stack) - 1)
           /\ \A i \in DOMAIN stack' : i < Len(stack) /\ i \in DOMAIN stack
                                       /\ stack'[i] = stack[i]
<1>1. stack \in Seq(Frames) /\ stack # <<>> /\ stack' = Pop(stack)
  BY DEF TypeOK, StackPops
<1>2. Len(stack) \in Nat /\ Len(stack) >= 1 /\ DOMAIN stack = 1..Len(stack)
  BY <1>1, EmptySeq, LenProperties
<1> QED BY <1>1, <1>2, PopType, LenProperties

\* The stack after the innermost activation has got a key.
LEMMA KeyedStack ==
    ASSUME TypeOK, ContainersMatchFrames, StackKeys
    PROVE  /\ Len(stack) \in Nat /\ Len(stack) >= 1 /\ Len(stack') = Len(stack)
           /\ DOMAIN stack = 1..Len(stack) /\ DOMAIN stack' = DOMAIN stack
           /\ \A i \in DOMAIN stack : i # Len(stack) => stack'[i] = stack[i]
           /\ \A i \in DOMAIN stack : /\ stack'[i].fn = stack[i].fn
                                      /\ stack'[i].bObj = stack[i].bObj
           /\ stack'[Len(stack)].curKey = rstring
           /\ stack'[Len(stack)].valueFrom = cursor
<1> DEFINE f == [Top EXCEPT !.curKey = rstring, !.valueFrom = cursor]
<1>1. stack \in Seq(Frames) /\ stack # <<>> /\ Top \in Frames
      /\ Len(stack) \in Nat /\ Len(stack) >= 1 /\ DOMAIN stack = 1..Len(stack)
  BY TopType DEF TypeOK, StackKeys
<1>2. rstring \in Str /\ cursor \in Nat
  BY LenProperties DEF TypeOK, Str
<1>3. /\ f \in Frames /\ f.fn = Top.fn /\ f.bObj = Top.bObj
      /\ f.curKey = rstring /\ f.valueFrom = cursor
  BY <1>1, <1>2 DEF Frames
<1> HIDE DEF f
<1>4. stack' = [stack EXCEPT ![Len(stack)] = f]
  BY DEF StackKeys, f
<1>5. /\ DOMAIN stack' = DOMAIN stack /\ Len(stack') = Len(stack)
      /\ \A i \in DOMAIN stack :
            stack'[i] = IF i = Len(stack) THEN f ELSE stack[i]
  BY <1>1, <1>3, <1>4, ExceptSeq, LenProperties
<1> QED BY <1>1, <1>3, <1>5 DEF Top

\* Each activation goes on holding an object of its own kind.
LEMMA FramesKept ==
    ASSUME TypeOK, ContainersMatchFrames,
           heap' = heap \/ HeapGrows \/ HeapStores,
           stack' = stack \/ StackPushes \/ StackPops \/ StackKeys
    PROVE  ContainersMatchFrames'
<1>1. \A i \in DOMAIN stack :
         /\ stack[i].bObj \in DOMAIN heap'
         /\ heap'[stack[i].bObj].type =
               IF stack[i].fn = "parseList" THEN "BList" ELSE "BDict"
  BY HeapKeeps DEF ContainersMatchFrames
<1>2. CASE stack' = stack
  BY <1>1, <1>2 DEF ContainersMatchFrames
<1>3. CASE StackPushes
  <2>1. \A i \in DOMAIN stack' : i \in DOMAIN stack \/ i = Len(stack) + 1
    BY <1>3, PushedStack
  <2> QED BY <1>1, <1>3, <2>1, PushedStack DEF ContainersMatchFrames
<1>4. CASE StackPops
  BY <1>1, <1>4, PoppedStack DEF ContainersMatchFrames
<1>5. CASE StackKeys
  BY <1>1, <1>5, KeyedStack DEF ContainersMatchFrames
<1> QED BY <1>2, <1>3, <1>4, <1>5

\* The cursor only advances, except when a new buffer is begun, and then no
\* activation is left.
LEMMA CursorStep ==
    ASSUME TypeOK, RootInv, [Next]_vars
    PROVE  /\ cursor \in Nat /\ cursor' \in Nat
           /\ cursor' >= cursor \/ (stack = <<>> /\ stack' = <<>>)
<1>1. cursor \in Nat
  BY LenProperties DEF TypeOK, Str
<1>2. CASE cursor' = cursor \/ cursor' = cursor + 1
  BY <1>1, <1>2
<1>3. CASE parseBencodedString
  BY <1>1, <1>3 DEF parseBencodedString, RootInv
<1>4. [Next]_vars /\ ~parseBencodedString
         => cursor' = cursor \/ cursor' = cursor + 1
  BY DEF Next, Parser, parseArbitrary, parseInteger, extractString,
     parseList, parseDictionary, ArbitraryAtEnd, ArbitraryBadChar,
     StartInteger, StartParseString, StartList, StartDictionary,
     ConsumePastEnd, IntegerChar, IntegerLateMinus, IntegerEnd, LengthDigit,
     LengthBadChar, LengthColon, BodyChar, StringEnd, KeyEnd, ListTruncated,
     ListNext, ListEnd, LengthNotInteger, LengthWild, DictTruncated,
     DictNext, DictEnd, ReturnRoot, consumeChar, vars
<1> QED BY <1>2, <1>3, <1>4

\* StackInv is preserved by every step.
LEMMA StackKept ==
    ASSUME TypeOK, ContainersMatchFrames, HeapForest, StackInv, RetInv,
           RootInv, [Next]_vars,
           heap' = heap \/ HeapGrows \/ HeapStores,
           stack' = stack \/ StackPushes \/ StackPops \/ StackKeys
    PROVE  StackInv'
<1>1. /\ Len(heap) \in Nat /\ DOMAIN heap = 1..Len(heap)
      /\ \A i \in DOMAIN stack : stack[i].bObj \in 1..Len(heap)
      /\ \A i \in DOMAIN stack : stack[i].valueFrom \in Nat
  <2>1. \A i \in DOMAIN stack : stack[i] \in Frames
    BY LenProperties, ElementOfSeq DEF TypeOK
  <2> QED BY <2>1, HeapKeeps DEF ContainersMatchFrames, Frames
<1>2. \A i \in DOMAIN stack : \A p \in DOMAIN heap' :
         stack[i].bObj \notin Children(heap'[p])
  <2>1. ASSUME NEW i \in DOMAIN stack, pc = "return"
        PROVE  stack[i].bObj # ret
    BY <1>1, <2>1 DEF RetInv, Wild
  <2> QED BY <2>1, HeapKeeps DEF StackInv
<1>3. /\ cursor \in Nat /\ cursor' \in Nat
      /\ cursor' >= cursor \/ (stack = <<>> /\ stack' = <<>>)
  BY CursorStep
<1>4. \A i \in DOMAIN stack : stack[i].valueFrom <= cursor'
  BY <1>1, <1>3 DEF StackInv
<1>5. CASE stack' = stack
  BY <1>2, <1>4, <1>5 DEF StackInv
<1>6. CASE StackPushes
  <2>1. \A i \in DOMAIN stack' : i \in DOMAIN stack \/ i = Len(stack) + 1
    BY <1>6, PushedStack
  <2>2. \A i \in DOMAIN stack' : stack'[i].valueFrom <= cursor'
    BY <1>3, <1>4, <1>6, <2>1, PushedStack
  <2>3. \A i, j \in DOMAIN stack' : i < j => stack'[i].bObj < stack'[j].bObj
    BY <1>1, <1>6, <2>1, PushedStack DEF StackInv
  <2>4. \A p \in DOMAIN heap : Len(heap) + 1 \notin Children(heap[p])
    BY <1>1 DEF HeapForest, Wild
  <2>5. pc # "return"
    BY <1>6 DEF StackPushes
  <2>6. \A p \in DOMAIN heap' : Len(heap) + 1 \notin Children(heap'[p])
    BY <2>4, <2>5, HeapKeeps
  <2>7. \A i \in DOMAIN stack' : \A p \in DOMAIN heap' :
           stack'[i].bObj \notin Children(heap'[p])
    BY <1>2, <1>6, <2>1, <2>6, PushedStack
  <2> QED BY <2>2, <2>3, <2>7 DEF StackInv
<1>7. CASE StackPops
  BY <1>2, <1>4, <1>7, PoppedStack DEF StackInv
<1>8. CASE StackKeys
  <2>1. \A i \in DOMAIN stack' : stack'[i].valueFrom <= cursor'
    BY <1>3, <1>4, <1>8, KeyedStack DEF StackKeys
  <2>2. /\ \A i, j \in DOMAIN stack' : i < j => stack'[i].bObj < stack'[j].bObj
        /\ \A i \in DOMAIN stack' : \A p \in DOMAIN heap' :
              stack'[i].bObj \notin Children(heap'[p])
    BY <1>2, <1>8, KeyedStack DEF StackInv
  <2> QED BY <2>1, <2>2 DEF StackInv
<1> QED BY <1>5, <1>6, <1>7, <1>8
-----------------------------------------------------------------------------
(* The returned pointer, the control state and the wild pointer.           *)

\* A function that has just made an object returns the newest one.
LEMMA NewestReturned ==
    ASSUME TypeOK, ContainersMatchFrames, HeapForest, pc # "return",
           HeapGrows, ret' = Len(heap) + 1, stack' = stack
    PROVE  RetInv'
<1>1. /\ Len(heap) \in Nat /\ DOMAIN heap = 1..Len(heap)
      /\ \A i \in DOMAIN stack : stack[i].bObj \in 1..Len(heap)
  BY HeapKeeps DEF ContainersMatchFrames
<1>2. Len(heap) + 1 \in DOMAIN heap'
  BY GrownHeap
<1>3. \A i \in DOMAIN stack : stack[i].bObj < Len(heap) + 1
  BY <1>1
<1>4. \A p \in DOMAIN heap : Len(heap) + 1 \notin Children(heap[p])
  BY <1>1 DEF HeapForest, Wild
<1>5. \A p \in DOMAIN heap' : Len(heap) + 1 \notin Children(heap'[p])
  BY <1>4, HeapKeeps
<1> QED BY <1>2, <1>3, <1>5 DEF RetInv

\* RetInv is preserved by every step.
LEMMA RetKept ==
    ASSUME TypeOK, ContainersMatchFrames, HeapForest, StackInv, RetInv,
           [Next]_vars,
           heap' = heap \/ HeapGrows \/ HeapStores
    PROVE  RetInv'
<1> SUFFICES ASSUME pc' = "return" PROVE RetInv'
  BY DEF RetInv
<1>1. CASE ArbitraryAtEnd
  BY <1>1 DEF ArbitraryAtEnd, RetInv, AtEnd
<1>2. CASE IntegerEnd \/ StringEnd
  <2>1. /\ pc # "return" /\ ret' = Len(heap) + 1 /\ stack' = stack
    BY <1>2 DEF IntegerEnd, StringEnd, NewPointer
  <2>2. heap' # heap
    BY <1>2, NewObjects, AppendProperties, WrapRange, ZeroInRange,
       WidthAssumption
    DEF IntegerEnd, StringEnd, getNewBObject, TypeOK, Int64
  <2>3. HeapGrows
    BY <2>1, <2>2 DEF HeapStores
  <2> QED BY <2>1, <2>3, NewestReturned
<1>3. CASE ListEnd \/ DictEnd
  <2>1. /\ pc = "return" /\ stack # <<>> /\ ret' = Top.bObj
        /\ stack' = Pop(stack)
    BY <1>3 DEF ListEnd, DictEnd, ReturnsTo
  <2>2. StackPops /\ Len(stack) \in DOMAIN stack
    BY <2>1, TopType DEF StackPops
  <2>3. /\ Top.bObj \in DOMAIN heap /\ Top.bObj # ret
        /\ DOMAIN heap = 1..Len(heap) /\ Len(heap) \in Nat
    BY <2>1, <2>2, HeapKeeps DEF RetInv, ContainersMatchFrames, Top, Wild
  <2>4. \A i \in DOMAIN stack' : stack'[i].bObj < Top.bObj
    BY <2>2, PoppedStack DEF StackInv, Top
  <2>5. \A p \in DOMAIN heap' : Top.bObj \notin Children(heap'[p])
    BY <2>2, <2>3, HeapKeeps DEF StackInv, Top
  <2>6. Top.bObj \in DOMAIN heap'
    BY <2>3, HeapKeeps
  <2> QED BY <2>1, <2>4, <2>5, <2>6 DEF RetInv
<1>4. CASE UNCHANGED vars
  BY <1>4 DEF vars, RetInv, AtEnd
<1> QED BY <1>1, <1>2, <1>3, <1>4
        DEF Next, Parser, parseArbitrary, parseInteger, extractString,
            parseList, parseDictionary, ArbitraryBadChar, StartInteger,
            StartParseString, StartList, StartDictionary, StartString,
            parseBencodedString, ConsumePastEnd, IntegerChar,
            IntegerLateMinus, LengthDigit, LengthBadChar, LengthColon,
            BodyChar, KeyEnd, ListTruncated, ListNext, LengthNotInteger,
            LengthWild, DictTruncated, DictNext, ReturnRoot

\* After an activation is entered it is the innermost one.
LEMMA PushedNonEmpty ==
    ASSUME TypeOK, StackPushes
    PROVE  /\ stack' # <<>> /\ Len(stack') = Len(stack) + 1
           /\ Top' = stack'[Len(stack) + 1]
<1>1. Len(stack') = Len(stack) + 1 /\ Len(stack) \in Nat
  BY PushedStack
<1> QED BY <1>1 DEF Top

\* RootInv and KeyInv are preserved by every step: parseArbitrary is at its
\* outer level only before the first character, and keys are read for
\* dictionaries only.
LEMMA ControlKept ==
    ASSUME TypeOK, ContainersMatchFrames, RetInv, RootInv, KeyInv, [Next]_vars
    PROVE  RootInv' /\ KeyInv'
<1> USE DEF ReadingKey
<1>1. CASE parseBencodedString
  BY <1>1 DEF parseBencodedString, RootInv, KeyInv
<1>2. CASE ArbitraryAtEnd
  BY <1>2 DEF ArbitraryAtEnd, RootInv, KeyInv, Wild
<1>3. CASE StartParseString \/ StartInteger \/ ArbitraryBadChar
  BY <1>3 DEF StartParseString, StartString, StartInteger, ArbitraryBadChar,
     RootInv, KeyInv
<1>4. CASE StartList \/ StartDictionary
  <2>1. StackPushes
    BY <1>4 DEF StartList, StartDictionary, StackPushes, getNewBObject,
       NewPointer
  <2>2. stack' # <<>>
    BY <2>1, PushedNonEmpty
  <2>3. CASE StartList
    BY <2>2, <2>3 DEF StartList, RootInv, KeyInv
  <2>4. CASE StartDictionary
    <3>1. stack \in Seq(Frames) /\ Len(stack) \in Nat /\ NewPointer \in Nat
      BY LenProperties DEF TypeOK, NewPointer
    <3>2. stack' = Append(stack, Frame("parseDictionary", NewPointer))
          /\ Frame("parseDictionary", NewPointer) \in Frames
          /\ Frame("parseDictionary", NewPointer).fn = "parseDictionary"
      BY <2>4, <3>1, FrameType DEF StartDictionary, Frame
    <3>3. Top'.fn = "parseDictionary"
      BY <3>1, <3>2, AppendProperties DEF Top
    <3> QED BY <2>2, <2>4, <3>3 DEF StartDictionary, StartString, RootInv,
               KeyInv
  <2> QED BY <1>4, <2>3, <2>4
<1>5. CASE parseInteger
  <2>1. stack' = stack /\ pc' \in {"parseInteger", "return"} \cup Failed
        /\ (pc' = "return" => ret' = Len(heap) + 1 /\ Len(heap) \in Nat)
    BY <1>5, LenProperties
    DEF parseInteger, IntegerChar, IntegerLateMinus, IntegerEnd, NewPointer,
        TypeOK, Failed, Exceptions
  <2> QED BY <2>1 DEF RootInv, KeyInv, Wild, Failed, Exceptions
<1>6. CASE extractString
  <2>1. /\ stack' = stack /\ caller' = caller
        /\ pc \in {"stringLength", "stringBody"}
        /\ pc' \in {"stringLength", "stringBody", "return"} \cup Failed
        /\ (pc' = "return" => ret' = Len(heap) + 1 /\ Len(heap) \in Nat)
    BY <1>6, LenProperties
    DEF extractString, LengthDigit, LengthBadChar, LengthColon, BodyChar,
        StringEnd, NewPointer, TypeOK, strVars, Failed, Exceptions
  <2>2. Top' = Top
    BY <2>1 DEF Top
  <2> QED BY <2>1, <2>2 DEF RootInv, KeyInv, Wild, Failed, Exceptions
<1>7. CASE KeyEnd
  <2>1. StackKeys
    BY <1>7 DEF KeyEnd, KeyInv, StackKeys, Top
  <2>2. stack' # <<>>
    BY <2>1, KeyedStack
  <2> QED BY <1>7, <2>2 DEF KeyEnd, RootInv, KeyInv
<1>8. CASE ListEnd \/ DictEnd
  <2>1. pc' = "return" /\ ret' = Top.bObj /\ stack # <<>>
    BY <1>8 DEF ListEnd, DictEnd, ReturnsTo
  <2>2. ret' # Wild
    BY <2>1, TopType, LenProperties DEF Wild, TypeOK
  <2> QED BY <2>1, <2>2 DEF RootInv, KeyInv
<1>9. CASE ListTruncated \/ ListNext \/ LengthNotInteger \/ LengthWild
           \/ DictTruncated
  BY <1>9 DEF ListTruncated, ListNext, LengthNotInteger, LengthWild,
     DictTruncated, ReturnsTo, RootInv, KeyInv
<1>10. CASE DictNext
  <2>1. Top' = Top
    BY <1>10 DEF DictNext, Top
  <2> QED BY <1>10, <2>1 DEF DictNext, StartString, ReturnsTo, RootInv, KeyInv
<1>11. CASE ConsumePastEnd \/ ReturnRoot
  BY <1>11 DEF ConsumePastEnd, ReturnRoot, RootInv, KeyInv
<1>12. CASE UNCHANGED vars
  BY <1>12 DEF vars, strVars, RootInv, KeyInv, Top
<1> QED BY <1>1, <1>2, <1>3, <1>4, <1>5, <1>6, <1>7, <1>8, <1>9, <1>10,
           <1>11, <1>12
        DEF Next, Parser, parseArbitrary, parseList, parseDictionary

\* A wild pointer is stored only by a step that throws, and is returned from
\* the outermost level only for an empty buffer.
LEMMA WildKept ==
    ASSUME TypeOK, ContainersMatchFrames, NoWildPointer, WildRootOnlyIfEmpty,
           RetInv, RootInv, [Next]_vars,
           heap' = heap \/ HeapGrows \/ HeapStores
    PROVE  NoWildPointer' /\ WildRootOnlyIfEmpty'
<1>1. NoWildPointer'
  <2> SUFFICES ASSUME pc' \notin Failed
               PROVE  \A p \in DOMAIN heap' : Wild \notin Children(heap'[p])
    BY DEF NoWildPointer
  <2>1. pc \notin Failed
    BY DEF Next, Parser, parseArbitrary, parseInteger, extractString,
     parseList, parseDictionary, ArbitraryAtEnd, ArbitraryBadChar,
     StartInteger, StartParseString, StartList, StartDictionary,
     ConsumePastEnd, IntegerChar, IntegerLateMinus, IntegerEnd, LengthDigit,
     LengthBadChar, LengthColon, BodyChar, StringEnd, KeyEnd, ListTruncated,
     ListNext, ListEnd, LengthNotInteger, LengthWild, DictTruncated, DictNext,
     DictEnd, ReturnRoot, parseBencodedString, ReturnsTo, vars, Failed,
     Exceptions
  <2>2. CASE heap' = heap
    BY <2>1, <2>2 DEF NoWildPointer
  <2>3. CASE pc = "return" /\ stack # <<>> /\ heap' # heap
    <3>1. ListNext \/ ListEnd \/ DictNext \/ DictEnd
      BY <2>3 DEF Next, Parser, parseArbitrary, parseInteger, extractString,
         parseList, parseDictionary, ArbitraryAtEnd, ArbitraryBadChar,
         StartInteger, StartParseString, StartList, StartDictionary,
         ConsumePastEnd, IntegerChar, IntegerLateMinus, IntegerEnd,
         LengthDigit, LengthBadChar, LengthColon, BodyChar, StringEnd, KeyEnd,
         ListTruncated, LengthNotInteger, LengthWild, DictTruncated,
         ReturnRoot, parseBencodedString, vars, Failed, Exceptions
    <3>2. ~AtEnd
      BY <3>1 DEF ListNext, ListEnd, DictNext, DictEnd
    <3>3. ret # Wild
      BY <2>3, <3>2, HeapKeeps DEF RetInv, Wild
    <3> QED BY <2>1, <3>3, HeapKeeps DEF NoWildPointer
  <2>4. CASE ~(pc = "return" /\ stack # <<>>)
    BY <2>1, <2>4, HeapKeeps DEF NoWildPointer
  <2> QED BY <2>2, <2>3, <2>4
<1>2. WildRootOnlyIfEmpty'
  <2>1. CASE ReturnRoot
    <3>1. pc = "return" /\ stack = <<>> /\ ret' = ret /\ buf' = buf
      BY <2>1 DEF ReturnRoot
    <3>2. ret = Wild => Len(buf) = 0
      BY <3>1, LenProperties DEF RetInv, RootInv, AtEnd, TypeOK, Wild
    <3>3. Len(buf) = 0 => buf = <<>>
      BY EmptySeq DEF TypeOK, Str
    <3> QED BY <3>1, <3>2, <3>3 DEF WildRootOnlyIfEmpty
  <2>2. CASE UNCHANGED vars
    BY <2>2 DEF vars, WildRootOnlyIfEmpty
  <2>3. CASE ~ReturnRoot /\ ~UNCHANGED vars
    <3>1. pc' # "idle"
      BY <2>3 DEF Next, Parser, parseArbitrary, parseInteger, extractString,
         parseList, parseDictionary, ArbitraryAtEnd, ArbitraryBadChar,
         StartInteger, StartParseString, StartList, StartDictionary,
         StartString, ConsumePastEnd, IntegerChar, IntegerLateMinus,
         IntegerEnd, LengthDigit, LengthBadChar, LengthColon, BodyChar,
         StringEnd, KeyEnd, ListTruncated, ListNext, ListEnd,
         LengthNotInteger, LengthWild, DictTruncated, DictNext, DictEnd,
         parseBencodedString, ReturnsTo
    <3> QED BY <3>1 DEF WildRootOnlyIfEmpty
  <2> QED BY <2>1, <2>2, <2>3
<1> QED BY <1>1, <1>2
-----------------------------------------------------------------------------
(* What has been collected of the value under "info".                      *)

\* Activation i parses the innermost value under the key "info".
Innermost(i) ==
    /\ i \in DOMAIN stack /\ InInfo(i)
    /\ \A j \in DOMAIN stack : j > i => ~InInfo(j)

Collected(f) == EndsWith(collectedInfoDict, RawValue(f))

\* Appending the same character to both keeps one text the end of the other.
LEMMA EndsWithAppend ==
    ASSUME NEW s \in Str, NEW t \in Str, NEW c \in Char, EndsWith(s, t)
    PROVE  EndsWith(Append(s, c), Append(t, c))
<1>1. /\ s \in Seq(Char) /\ t \in Seq(Char) /\ Len(s) \in Nat /\ Len(t) \in Nat
      /\ Len(t) <= Len(s)
      /\ \A k \in 1..Len(t) : s[Len(s) - Len(t) + k] = t[k]
  BY LenProperties DEF Str, EndsWith
<1> DEFINE u == Append(s, c)  v == Append(t, c)
<1>2. /\ Len(u) = Len(s) + 1 /\ \A k \in 1..Len(s) : u[k] = s[k]
      /\ u[Len(s) + 1] = c
  BY <1>1, AppendProperties
<1>3. /\ Len(v) = Len(t) + 1 /\ \A k \in 1..Len(t) : v[k] = t[k]
      /\ v[Len(t) + 1] = c
  BY <1>1, AppendProperties
<1> HIDE DEF u, v
<1>4. ASSUME NEW k \in 1..Len(v)
      PROVE  u[Len(u) - Len(v) + k] = v[k]
  <2>1. CASE k \in 1..Len(t)
    <3>1. Len(s) - Len(t) + k \in 1..Len(s)
          /\ Len(u) - Len(v) + k = Len(s) - Len(t) + k
      BY <1>1, <1>2, <1>3, <2>1
    <3> QED BY <1>1, <1>2, <1>3, <2>1, <3>1
  <2>2. CASE k = Len(t) + 1
    <3>1. Len(u) - Len(v) + k = Len(s) + 1
      BY <1>1, <1>2, <1>3, <2>2
    <3> QED BY <1>2, <1>3, <2>2, <3>1
  <2> QED BY <1>1, <1>3, <2>1, <2>2
<1>5. Len(v) <= Len(u)
  BY <1>1, <1>2, <1>3
<1>6. EndsWith(u, v)
  BY <1>4, <1>5 DEF EndsWith
<1> QED BY <1>6 DEF u, v

\* The text of a value grows by the character that is consumed.
LEMMA RawValueGrows ==
    ASSUME NEW s \in Seq(Char), NEW v \in Nat, NEW n \in Nat,
           v <= n, n + 1 <= Len(s)
    PROVE  /\ SubSeq(s, v + 1, n) \in Seq(Char)
           /\ SubSeq(s, v + 1, n + 1) =
                 Append(SubSeq(s, v + 1, n), s[n + 1])
<1>1. Len(s) \in Nat
  BY LenProperties
<1>2. \A i \in (v + 1)..n : s[i] \in Char
  BY <1>1, ElementOfSeq
<1>3. SubSeq(s, v + 1, n) \in Seq(Char)
  BY <1>2, SubSeqProperties
<1>4. v + 1 \in 1..Len(s) /\ n + 1 \in (v + 1)..Len(s) /\ n + 1 - 1 = n
  BY <1>1
<1>5. SubSeq(s, v + 1, n + 1) = SubSeq(s, v + 1, n) \o <<s[n + 1]>>
  BY <1>4, SubSeqRecursiveSecond
<1>6. s[n + 1] \in Char
  BY <1>1, <1>4, ElementOfSeq
<1> QED BY <1>3, <1>5, <1>6, AppendIsConcat

\* Every text ends with the text of a value that has not begun.
LEMMA EndsWithEmpty ==
    ASSUME NEW s \in Str, NEW t \in Str, NEW n \in Nat
    PROVE  EndsWith(s, SubSeq(t, n + 1, n))
<1>1. SubSeq(t, n + 1, n) = <<>>
  BY SubSeqEmpty
<1>2. Len(s) \in Nat /\ Len(<<>>) = 0
  BY LenProperties DEF Str
<1>3. EndsWith(s, <<>>)
  BY <1>2 DEF EndsWith
<1> QED BY <1>1, <1>3

\* A value whose collected characters were complete stays complete over a step
\* that consumes nothing, and over one that consumes and collects a character.
LEMMA CollectedKept ==
    ASSUME TypeOK, StackInv, NEW i \in DOMAIN stack, NEW j \in DOMAIN stack',
           Collected(stack[i]),
           stack'[j].valueFrom = stack[i].valueFrom, buf' = buf,
           \/ cursor' = cursor /\ collectedInfoDict' = collectedInfoDict
           \/ consumeChar(TRUE)
    PROVE  EndsWith(collectedInfoDict', RawValue(stack[j])')
<1> DEFINE v == stack[i].valueFrom
<1>1. v \in Nat /\ v <= cursor /\ cursor \in Nat
  <2>1. stack[i] \in Frames
    BY LenProperties, ElementOfSeq DEF TypeOK
  <2> QED BY <2>1, LenProperties DEF Frames, StackInv, TypeOK, Str
<1>2. EndsWith(collectedInfoDict, SubSeq(buf, v + 1, cursor))
  BY DEF Collected, RawValue
<1>3. RawValue(stack[j])' = SubSeq(buf, v + 1, cursor')
  BY DEF RawValue
<1> HIDE DEF v
<1>4. CASE cursor' = cursor /\ collectedInfoDict' = collectedInfoDict
  BY <1>2, <1>3, <1>4
<1>5. CASE consumeChar(TRUE)
  <2>1. /\ ~AtEnd /\ cursor' = cursor + 1
        /\ collectedInfoDict' = Append(collectedInfoDict, Cur)
    BY <1>5 DEF consumeChar
  <2>2. buf \in Seq(Char) /\ cursor + 1 <= Len(buf) /\ Cur \in Char
    BY <2>1, CharAt, LenProperties DEF TypeOK, Str
  <2>3. /\ SubSeq(buf, v + 1, cursor) \in Str
        /\ SubSeq(buf, v + 1, cursor') =
              Append(SubSeq(buf, v + 1, cursor), Cur)
    BY <1>1, <2>1, <2>2, RawValueGrows DEF Str, Cur
  <2>4. collectedInfoDict \in Str
    BY DEF TypeOK
  <2> QED BY <1>2, <1>3, <2>1, <2>2, <2>3, <2>4, EndsWithAppend
<1> QED BY <1>4, <1>5

\* A step that leaves the stack and what extractString reads alone also leaves
\* alone which activation is the innermost one under "info".
LEMMA InnermostSame ==
    ASSUME stack' = stack, ReadingKey' <=> ReadingKey
    PROVE  \A i \in DOMAIN stack : Innermost(i)' => Innermost(i)
BY DEF Innermost, InInfo

\* Every step that leaves collecting on either parses on under the same "info"
\* or has just begun the value of one.
LEMMA InfoStep ==
    ASSUME TypeOK, ContainersMatchFrames, KeyInv, RootInv, [Next]_vars,
           pc' \notin Failed, collectInfoDict', NEW i \in DOMAIN stack',
           Innermost(i)'
    PROVE  \/ /\ Innermost(i) /\ collectInfoDict /\ pc \notin Failed
              /\ stack'[i].valueFrom = stack[i].valueFrom
              /\ buf' = buf
              /\ \/ cursor' = cursor /\ collectedInfoDict' = collectedInfoDict
                 \/ consumeChar(TRUE)
           \/ stack'[i].valueFrom = cursor'
<1> USE DEF Failed, Exceptions
<1>0. stack' # <<>>
  BY DEF Innermost
<1>1. CASE parseBencodedString \/ ReturnRoot
  BY <1>0, <1>1 DEF parseBencodedString, ReturnRoot, RootInv
<1>2. CASE StartParseString \/ StartInteger \/ ArbitraryAtEnd
           \/ ArbitraryBadChar
  <2>1. stack' = stack /\ ~ReadingKey /\ ~ReadingKey'
    BY <1>2 DEF StartParseString, StartString, StartInteger, ArbitraryAtEnd,
       ArbitraryBadChar, ReadingKey
  <2>2. Innermost(i)
    BY <2>1, InnermostSame
  <2> QED BY <1>2, <2>1, <2>2
          DEF StartParseString, StartInteger, ArbitraryAtEnd,
              ArbitraryBadChar, collectVars
<1>3. CASE StartList \/ StartDictionary
  <2>1. StackPushes /\ ~ReadingKey
    BY <1>3 DEF StartList, StartDictionary, StackPushes, getNewBObject,
       NewPointer, ReadingKey
  <2>2. PICK f : /\ stack' = Append(stack, f) /\ f \in Frames
                 /\ f.fn = "parseList" \/ ReadingKey'
    <3>1. NewPointer \in Nat
      BY LenProperties DEF TypeOK, NewPointer
    <3>2. CASE StartList
      BY <3>1, <3>2, FrameType DEF StartList, Frame
    <3>3. CASE StartDictionary
      BY <3>1, <3>3, FrameType DEF StartDictionary, StartString, ReadingKey
    <3> QED BY <1>3, <3>2, <3>3
  <2>3. /\ Len(stack) \in Nat /\ Len(stack') = Len(stack) + 1
        /\ DOMAIN stack = 1..Len(stack) /\ DOMAIN stack' = 1..(Len(stack) + 1)
        /\ \A j \in DOMAIN stack : stack'[j] = stack[j]
        /\ stack'[Len(stack) + 1] = f
    BY <2>2, AppendProperties, LenProperties DEF TypeOK
  <2>4. i # Len(stack) + 1
    BY <2>2, <2>3 DEF Innermost, InInfo
  <2>5. Innermost(i) /\ stack'[i] = stack[i]
    BY <2>1, <2>3, <2>4 DEF Innermost, InInfo
  <2> QED BY <1>3, <2>5 DEF StartList, StartDictionary
<1>4. CASE parseInteger
  <2>1. stack' = stack /\ ~ReadingKey /\ ~ReadingKey'
    BY <1>4 DEF parseInteger, IntegerChar, IntegerLateMinus, IntegerEnd,
       ReadingKey
  <2>2. Innermost(i)
    BY <2>1, InnermostSame
  <2> QED BY <1>4, <2>1, <2>2
          DEF parseInteger, IntegerChar, IntegerLateMinus, IntegerEnd
<1>5. CASE extractString
  <2>1. stack' = stack /\ (ReadingKey' <=> ReadingKey)
    BY <1>5 DEF extractString, LengthDigit, LengthBadChar, LengthColon,
       BodyChar, StringEnd, ReadingKey, strVars
  <2>2. Innermost(i)
    BY <2>1, InnermostSame
  <2> QED BY <1>5, <2>1, <2>2
          DEF extractString, LengthDigit, LengthBadChar, LengthColon,
              BodyChar, StringEnd, collectVars
<1>6. CASE KeyEnd
  <2>1. StackKeys /\ ReadingKey /\ ~ReadingKey'
    BY <1>6 DEF KeyEnd, KeyInv, StackKeys, Top, ReadingKey
  <2>2. CASE i = Len(stack)
    BY <2>1, <2>2, KeyedStack DEF StackKeys
  <2>3. CASE i # Len(stack)
    <3>1. ~(InInfo(Len(stack))') /\ Len(stack) \in DOMAIN stack
      BY <2>1, <2>3, KeyedStack DEF Innermost
    <3>2. rstring # InfoKey
      <4>1. Top.fn = "parseDictionary"
        BY <2>1 DEF KeyInv
      <4>2. stack'[Len(stack)].fn = "parseDictionary"
            /\ stack'[Len(stack)].curKey = rstring
        BY <2>1, <4>1, KeyedStack DEF Top
      <4>3. Len(stack') = Len(stack)
        BY <2>1, KeyedStack
      <4> QED BY <2>1, <3>1, <4>2, <4>3 DEF InInfo
    <3>3. Innermost(i) /\ stack'[i] = stack[i]
      BY <2>1, <2>3, KeyedStack DEF Innermost, InInfo
    <3> QED BY <1>6, <3>2, <3>3 DEF KeyEnd
  <2> QED BY <2>2, <2>3
<1>7. CASE ListEnd \/ DictEnd
  <2>1. StackPops /\ ~ReadingKey /\ ~ReadingKey'
    BY <1>7 DEF ListEnd, DictEnd, ReturnsTo, StackPops, ReadingKey
  <2>2. ~InInfo(Len(stack))
    BY <1>7 DEF ListEnd, DictEnd, StoreValue, ReturnsTo, Top, InInfo
  <2>3. Innermost(i) /\ stack'[i] = stack[i]
    BY <2>1, <2>2, PoppedStack DEF Innermost, InInfo
  <2>4. collectInfoDict /\ buf' = buf /\ consumeChar(TRUE)
    BY <1>7 DEF ListEnd, DictEnd, StoreValue, consumeChar, TypeOK
  <2> QED BY <1>7, <2>3, <2>4 DEF ListEnd, DictEnd, ReturnsTo
<1>8. CASE ListNext
  <2>1. stack' = stack /\ ~ReadingKey /\ ~ReadingKey'
    BY <1>8 DEF ListNext, ReturnsTo, ReadingKey
  <2> QED BY <1>8, <2>1, InnermostSame DEF ListNext, ReturnsTo, collectVars
<1>9. CASE DictNext
  <2>1. stack' = stack /\ ~ReadingKey /\ Len(stack) \in DOMAIN stack
    BY <1>9, TopType DEF DictNext, ReturnsTo, ReadingKey
  <2>2. ~InInfo(Len(stack))
    BY <1>9 DEF DictNext, StoreValue, ReturnsTo, Top, InInfo
  <2>3. Innermost(i)
    BY <2>1, <2>2 DEF Innermost, InInfo
  <2> QED BY <1>9, <2>1, <2>3 DEF DictNext, StoreValue, ReturnsTo
<1>10. CASE UNCHANGED vars
  <2>1. stack' = stack /\ (ReadingKey' <=> ReadingKey)
    BY <1>10 DEF vars, strVars, ReadingKey
  <2> QED BY <1>10, <2>1, InnermostSame DEF vars, collectVars
<1>11. ~(ListTruncated \/ LengthNotInteger \/ LengthWild \/ DictTruncated
         \/ ConsumePastEnd)
  BY DEF ListTruncated, LengthNotInteger, LengthWild, DictTruncated,
     ConsumePastEnd
<1> QED BY <1>1, <1>2, <1>3, <1>4, <1>5, <1>6, <1>7, <1>8, <1>9, <1>10, <1>11
        DEF Next, Parser, parseArbitrary, parseList, parseDictionary

\* InfoInv is preserved by every step.
LEMMA InfoKept ==
    ASSUME TypeOK, TypeOK', ContainersMatchFrames, StackInv, KeyInv, RootInv,
           InfoInv, [Next]_vars
    PROVE  InfoInv'
<1> SUFFICES ASSUME pc' \notin Failed, collectInfoDict',
                    NEW i \in DOMAIN stack', Innermost(i)'
             PROVE  EndsWith(collectedInfoDict', RawValue(stack[i])')
  BY DEF InfoInv, Innermost
<1>1. CASE /\ Innermost(i) /\ collectInfoDict /\ pc \notin Failed
           /\ stack'[i].valueFrom = stack[i].valueFrom
           /\ buf' = buf
           /\ \/ cursor' = cursor /\ collectedInfoDict' = collectedInfoDict
              \/ consumeChar(TRUE)
  <2>1. i \in DOMAIN stack /\ Collected(stack[i])
    BY <1>1 DEF Innermost, InfoInv, Collected
  <2> QED BY <1>1, <2>1, CollectedKept
<1>2. CASE stack'[i].valueFrom = cursor'
  <2>1. buf' \in Str /\ collectedInfoDict' \in Str /\ cursor' \in Nat
    BY LenProperties DEF TypeOK, Str
  <2>2. RawValue(stack[i])' = SubSeq(buf', cursor' + 1, cursor')
    BY <1>2 DEF RawValue
  <2> QED BY <2>1, <2>2, EndsWithEmpty
<1> QED BY <1>1, <1>2, InfoStep
-----------------------------------------------------------------------------
(* The theorems.                                                           *)

\* IInv holds when the parser has been constructed.
LEMMA IInvInit == Init => IInv
<1> SUFFICES ASSUME Init PROVE IInv
  OBVIOUS
<1>1. TypeOK
  BY TypeInit
<1>2. ContainersMatchFrames /\ HeapForest /\ NoWildPointer /\ KindsSeparate
      /\ StackInv
  BY DEF Init, ContainersMatchFrames, HeapForest, NoWildPointer,
     KindsSeparate, StackInv
<1>3. WildRootOnlyIfEmpty /\ RetInv /\ RootInv /\ KeyInv /\ InfoInv
  BY DEF Init, WildRootOnlyIfEmpty, RetInv, RootInv, KeyInv, ReadingKey,
     InfoInv
<1> QED BY <1>1, <1>2, <1>3 DEF IInv

\* Every step of the parser and of its caller preserves IInv.
LEMMA IInvNext == IInv /\ [Next]_vars => IInv'
<1> SUFFICES ASSUME IInv, [Next]_vars PROVE IInv'
  OBVIOUS
<1> USE DEF IInv
<1>1. heap' = heap \/ HeapGrows \/ HeapStores
  BY HeapStep
<1>2. stack' = stack \/ StackPushes \/ StackPops \/ StackKeys
  BY StackStep
<1>3. TypeOK'
  BY TypeNext
<1>4. ContainersMatchFrames'
  BY <1>1, <1>2, FramesKept
<1>5. HeapForest' /\ KindsSeparate'
  BY <1>1, ForestKept
<1>6. NoWildPointer' /\ WildRootOnlyIfEmpty'
  BY <1>1, WildKept
<1>7. StackInv'
  BY <1>1, <1>2, StackKept
<1>8. RetInv'
  BY <1>1, RetKept
<1>9. RootInv' /\ KeyInv'
  BY ControlKept
<1>10. InfoInv'
  BY <1>3, InfoKept
<1> QED BY <1>3, <1>4, <1>5, <1>6, <1>7, <1>8, <1>9, <1>10

\* The inductive invariant holds in every state of every execution, whatever
\* the buffers, the number of calls and the widths of the integers.
THEOREM Invariance == Spec => []IInv
<1>1. Init => IInv
  BY IInvInit
<1>2. IInv /\ [Next]_vars => IInv'
  BY IInvNext
<1> QED BY <1>1, <1>2, PTL DEF Spec

\* Every member of the parser keeps to its type, and the cursor to the buffer.
THEOREM TypeCorrect == Spec => []TypeOK
<1>1. IInv => TypeOK
  BY DEF IInv
<1> QED BY <1>1, Invariance, PTL

\* The objects handed to the manager always form a forest, whatever text
\* parseList and parseDictionary are given.
THEOREM ForestAlways == Spec => []HeapForest
<1>1. IInv => HeapForest
  BY DEF IInv
<1> QED BY <1>1, Invariance, PTL

\* No tree the caller of parseBencodedString can see holds a pointer that a
\* parseArbitrary running off its end has left over.
THEOREM NoWildPointerSeen == Spec => []NoWildPointer
<1>1. IInv => NoWildPointer
  BY DEF IInv
<1> QED BY <1>1, Invariance, PTL

\* Only an empty buffer makes parseBencodedString return a wild pointer.
THEOREM WildRootOfEmpty == Spec => []WildRootOnlyIfEmpty
<1>1. IInv => WildRootOnlyIfEmpty
  BY DEF IInv
<1> QED BY <1>1, Invariance, PTL

\* pushBack and addKeyValue never raise BTypeException for the parser.
THEOREM ContainersAlwaysMatch == Spec => []ContainersMatchFrames
<1>1. IInv => ContainersMatchFrames
  BY DEF IInv
<1> QED BY <1>1, Invariance, PTL

\* A step that switches collecting off stores the value of the innermost
\* "info", so that InfoInv speaks of that value.
LEMMA ClosingStep ==
    IInv /\ [Next]_vars
        => [collectInfoDict /\ ~collectInfoDict'
               => EndsWith(collectedInfoDict', RawValue(Top))]_vars
<1> SUFFICES ASSUME IInv, [Next]_vars, collectInfoDict, ~collectInfoDict'
             PROVE  EndsWith(collectedInfoDict', RawValue(Top))
  OBVIOUS
<1>1. DictTruncated \/ DictNext \/ DictEnd
  BY DEF Next, Parser, parseArbitrary, parseInteger, extractString,
     parseList, parseDictionary, ArbitraryAtEnd, ArbitraryBadChar,
     StartInteger, StartParseString, StartList, StartDictionary,
     ConsumePastEnd, IntegerChar, IntegerLateMinus, IntegerEnd, LengthDigit,
     LengthBadChar, LengthColon, BodyChar, StringEnd, KeyEnd, ListTruncated,
     ListNext, ListEnd, LengthNotInteger, LengthWild, ReturnRoot,
     parseBencodedString, collectVars, vars
<1>2. /\ pc = "return" /\ stack # <<>> /\ Top.fn = "parseDictionary"
      /\ StoreValue /\ collectedInfoDict' = collectedInfoDict
  BY <1>1 DEF DictTruncated, DictNext, DictEnd, ReturnsTo, StoreValue,
     consumeChar
<1>3. Top.curKey = InfoKey
  BY <1>2 DEF StoreValue
<1>4. /\ Len(stack) \in DOMAIN stack
      /\ ~\E j \in DOMAIN stack : j > Len(stack)
  BY <1>2, TopType DEF IInv
<1>5. InInfo(Len(stack))
  BY <1>2, <1>3 DEF InInfo, Top, ReadingKey
<1>6. EndsWith(collectedInfoDict, RawValue(Top))
  BY <1>2, <1>4, <1>5 DEF IInv, InfoInv, Failed, Exceptions, Top
<1> QED BY <1>2, <1>6

\* However dictionaries and keys are nested, the characters collected when
\* parseDictionary switches collecting off end with the whole value of "info".
THEOREM InfoDictAlwaysClosed == Spec => InfoDictClosed
<1>1. IInv /\ [Next]_vars
         => [collectInfoDict /\ ~collectInfoDict'
                => EndsWith(collectedInfoDict', RawValue(Top))]_vars
  BY ClosingStep
<1> QED BY <1>1, Invariance, PTL DEF Spec, InfoDictClosed
-----------------------------------------------------------------------------
(* The total of the lengths.                                               *)

\* s sums up v: s[k] is v[1] + ... + v[k].
IsSum(s, v, n) ==
    /\ s[0] = 0 /\ \A k \in 0..n : s[k] \in Int
    /\ \A k \in 1..n : s[k] = s[k - 1] + v[k]

\* w is v, except for d more at p.
IsMore(w, v, n, p, d) ==
    \A k \in 1..n : v[k] \in Int /\ w[k] = IF k = p THEN v[k] + d ELSE v[k]

\* When the summands differ at p, by d, the sums do.
LEMMA SumsDiffer ==
    ASSUME NEW n \in Nat, NEW s, NEW t, NEW v, NEW w, NEW p \in Nat, NEW d \in Int,
           IsSum(s, v, n), IsSum(t, w, n), IsMore(w, v, n, p, d)
    PROVE  t[n] = IF p \in 1..n THEN s[n] + d ELSE s[n]
<1> DEFINE S == {m \in Nat : m <= n =>
                    t[m] = IF p \in 1..m THEN s[m] + d ELSE s[m]}
<1>1. 0 \in S
  BY DEF IsSum
<1>2. ASSUME NEW m \in Nat, m \in S PROVE m + 1 \in S
  <2> SUFFICES ASSUME m + 1 <= n
               PROVE  t[m + 1] = IF p \in 1..(m + 1) THEN s[m + 1] + d ELSE s[m + 1]
    OBVIOUS
  <2>1. PICK k : k = m + 1
    OBVIOUS
  <2>2. k \in 1..n /\ m \in 0..n /\ k - 1 = m
    BY <2>1
  <2>3. t[k] = t[m] + w[k] /\ s[k] = s[m] + v[k] /\ s[m] \in Int /\ v[k] \in Int
    BY <2>2 DEF IsSum, IsMore
  <2>4. t[m] = IF p \in 1..m THEN s[m] + d ELSE s[m]
    BY <1>2, <2>2
  <2>5. w[k] = IF k = p THEN v[k] + d ELSE v[k]
    BY <2>2 DEF IsMore
  <2> QED BY <2>1, <2>3, <2>4, <2>5
<1> HIDE DEF S
<1>3. n \in S
  BY <1>1, <1>2, NatSetInduction
<1> QED BY <1>3 DEF S

\* A heap whose objects hold objects of it, each in one slot.
Sound(h) ==
    /\ h \in Seq(BObjects(Int64))
    /\ \A p \in 1..Len(h) : SlotsDistinct(h[p]) /\ Children(h[p]) \subseteq 1..Len(h)

\* What a dictionary holds under "length".
LEMMA LengthFound ==
    ASSUME NEW o, SlotsDistinct(o), NEW e \in o.dictVal, e[1] = LengthKey
    PROVE  /\ checkIfHasKey(o, LengthKey) /\ getByKey(o, LengthKey) = e[2]
           /\ e[2] \in Children(o)
<1>1. checkIfHasKey(o, LengthKey)
  BY Zenon DEF checkIfHasKey
<1>2. PICK f : f = CHOOSE g \in o.dictVal : g[1] = LengthKey
  OBVIOUS
<1>3. f \in o.dictVal /\ f[1] = LengthKey
  BY <1>2, Zenon
<1>4. f = e
  BY <1>3, Zenon DEF SlotsDistinct
<1>5. getByKey(o, LengthKey) = e[2]
  BY <1>2, <1>4, Zenon DEF getByKey
<1> QED BY <1>1, <1>5, Zenon DEF Children

\* It is an integer.
LEMMA LengthType ==
    ASSUME NEW h, Sound(h), NEW p \in 1..Len(h)
    PROVE  LengthIn(h, p) \in Int
<1>1. CASE checkIfHasKey(h[p], LengthKey)
  <2>1. PICK e \in h[p].dictVal : e[1] = LengthKey
    BY <1>1, Zenon DEF checkIfHasKey
  <2>2. e[2] \in 1..Len(h) /\ getByKey(h[p], LengthKey) = e[2]
    BY <2>1, LengthFound DEF Sound
  <2>3. h[e[2]] \in BObjects(Int64)
    BY <2>2, ElementOfSeq DEF Sound
  <2>4. h[e[2]].intVal \in Int
    BY <2>3, ZeroInRange DEF BObjects
  <2> QED BY <1>1, <2>2, <2>4 DEF LengthIn
<1>2. CASE ~checkIfHasKey(h[p], LengthKey)
  BY <1>2 DEF LengthIn
<1> QED BY <1>1, <1>2

\* LengthSum sums up what the dictionaries hold.
LEMMA LengthsSummed ==
    ASSUME NEW h, Sound(h)
    PROVE  \E s : /\ IsSum(s, [p \in 1..Len(h) |-> LengthIn(h, p)], Len(h))
                  /\ LengthSum(h) = s[Len(h)]
<1>1. PICK m \in Nat : m = Len(h)
  BY LenProperties DEF Sound
<1>2. PICK v : v = [p \in 1..m |-> LengthIn(h, p)]
  OBVIOUS
<1>3. \A p \in 1..m : v[p] \in Int /\ v[p] = LengthIn(h, p)
  BY <1>1, <1>2, LengthType
<1> DEFINE step == [p \in 1..m |-> [x \in Int |-> x + v[p]]]
           Sums(f) == f = [p \in 0..Len(h) |->
                              IF p = 0 THEN 0 ELSE f[p - 1] + LengthIn(h, p)]
<1>4. /\ \A p \in 1..m : step[p] \in [Int -> Int]
      /\ \A p \in 1..m : \A x \in Int : step[p][x] = x + v[p]
  BY <1>3
<1> HIDE DEF step
<1>5. PICK f \in [0..m -> Int] : f[0] = 0 /\ \A p \in 1..m : f[p] = step[p][f[p - 1]]
  <2>1. PICK Z : Z = Int
    OBVIOUS
  <2>2. 0 \in Z /\ \A p \in 1..m : step[p] \in [Z -> Z]
    BY <1>4, <2>1
  <2>3. HasRecursion(Z, step, 0, m)
    BY <2>2, RecursionExists
  <2> QED BY <2>1, <2>3, Zenon DEF HasRecursion
<1>6. \A p \in 0..m : f[p] = IF p = 0 THEN 0 ELSE f[p - 1] + LengthIn(h, p)
  <2> SUFFICES ASSUME NEW p \in 0..m, p # 0 PROVE f[p] = f[p - 1] + LengthIn(h, p)
    BY <1>5
  <2>1. p \in 1..m /\ p - 1 \in 0..m
    OBVIOUS
  <2>2. f[p - 1] \in Int
    BY <2>1
  <2>3. f[p] = f[p - 1] + v[p]
    BY <1>4, <1>5, <2>1, <2>2
  <2> QED BY <1>3, <2>1, <2>3
<1>7. Sums(f)
  <2>1. f = [p \in 0..m |-> f[p]]
    BY <1>5
  <2>2. f = [p \in 0..m |-> IF p = 0 THEN 0 ELSE f[p - 1] + LengthIn(h, p)]
    BY <1>6, <2>1, Zenon
  <2> QED BY <1>1, <2>2, Zenon
<1> HIDE DEF Sums
<1>8. PICK s : s = CHOOSE g : Sums(g)
  OBVIOUS
<1>9. Sums(s)
  BY <1>7, <1>8
<1>10. LengthSum(h) = s[Len(h)]
  BY <1>8 DEF LengthSum, Sums
<1>11. \A p \in 0..m : s[p] = IF p = 0 THEN 0 ELSE s[p - 1] + LengthIn(h, p)
  BY <1>1, <1>9, Zenon DEF Sums
<1>12. s[0] = 0 /\ \A p \in 1..m : s[p] = s[p - 1] + v[p]
  BY <1>3, <1>11
<1>13. \A p \in 0..m : s[p] \in Int
  <2> DEFINE S == {k \in Nat : k <= m => s[k] \in Int}
  <2>1. 0 \in S
    BY <1>12
  <2>2. ASSUME NEW k \in Nat, k \in S PROVE k + 1 \in S
    <3> SUFFICES ASSUME k + 1 <= m PROVE s[k + 1] \in Int
      OBVIOUS
    <3>1. PICK j : j = k + 1
      OBVIOUS
    <3>2. j \in 1..m /\ j - 1 = k /\ s[k] \in Int
      BY <2>2, <3>1
    <3>3. s[j] = s[k] + v[j] /\ v[j] \in Int
      BY <1>3, <1>12, <3>2
    <3> QED BY <3>1, <3>2, <3>3
  <2> HIDE DEF S
  <2>3. Nat \subseteq S
    BY <2>1, <2>2, NatSetInduction
  <2> QED BY <2>3 DEF S
<1>14. IsSum(s, v, m)
  BY <1>12, <1>13 DEF IsSum
<1> QED BY <1>1, <1>2, <1>10, <1>14, Zenon

\* Adding to what has been wrapped is adding to what it stands for.
LEMMA WrapAdds ==
    ASSUME NEW n \in Int, NEW k \in Int, NEW m \in Nat, m >= 2, m % 2 = 0
    PROVE  Wrap(Wrap(n, m) + k, m) = Wrap(n + k, m)
<1>1. PICK a \in Nat : a = m \div 2
  OBVIOUS
<1>2. PICK r : r = (n + a) % m
  OBVIOUS
<1>3. PICK q : q = (n + a) \div m
  OBVIOUS
<1>4. q \in Int /\ r \in Int /\ n + a = m * q + r
  BY <1>1, <1>2, <1>3
<1>5. PICK y, z : y = r + k /\ z = m * q
  OBVIOUS
<1>6. y \in Int /\ z \in Int /\ n + k + a = z + y
  BY <1>1, <1>4, <1>5
<1>7. (z + y) % m = y % m
  <2>1. PICK p \in Int, e \in 0..(m - 1) : y = m * p + e /\ y % m = e
    BY <1>6
  <2>2. z + y = m * (q + p) + e
    BY <1>4, <1>5, <2>1
  <2>3. PICK u : u = q + p
    OBVIOUS
  <2>4. u \in Int /\ z + y = m * u + e
    BY <1>4, <2>1, <2>2, <2>3
  <2>5. (m * u + e) % m = e
    BY <2>1, <2>4
  <2> QED BY <2>1, <2>4, <2>5
<1>8. Wrap(n, m) = r - a /\ r - a + k + a = r + k
  BY <1>1, <1>2, <1>4 DEF Wrap
<1> QED BY <1>1, <1>5, <1>6, <1>7, <1>8 DEF Wrap

\* Nothing is nothing when wrapped.
LEMMA WrapZero == Wrap(0, Int64Modulus) = 0
BY WidthAssumption DEF Wrap

\* g holds the lengths of h, and d more at p.
HoldsMore(g, h, p, d) ==
    /\ Len(g) = Len(h)
    /\ \A q \in 1..Len(h) :
          LengthIn(g, q) = IF q = p THEN LengthIn(h, q) + d ELSE LengthIn(h, q)

\* A sum changes as its summands do.
LEMMA LengthsDiffer ==
    ASSUME NEW h, Sound(h), NEW g, Sound(g), NEW p \in Nat, NEW d \in Int,
           HoldsMore(g, h, p, d)
    PROVE  LengthSum(g) = IF p \in 1..Len(h) THEN LengthSum(h) + d ELSE LengthSum(h)
<1>1. PICK n \in Nat : n = Len(h)
  BY LenProperties DEF Sound
<1>2. PICK v, w : /\ v = [q \in 1..n |-> LengthIn(h, q)]
                  /\ w = [q \in 1..n |-> LengthIn(g, q)]
  OBVIOUS
<1>3. PICK s : IsSum(s, v, n) /\ LengthSum(h) = s[n]
  BY <1>1, <1>2, LengthsSummed
<1>4. PICK t : IsSum(t, w, n) /\ LengthSum(g) = t[n]
  BY <1>1, <1>2, LengthsSummed DEF HoldsMore
<1>5. IsMore(w, v, n, p, d)
  BY <1>1, <1>2, LengthType DEF IsMore, HoldsMore
<1>6. t[n] = IF p \in 1..n THEN s[n] + d ELSE s[n]
  BY <1>3, <1>4, <1>5, SumsDiffer, Zenon
<1> QED BY <1>1, <1>3, <1>4, <1>6

\* An object that holds nothing adds nothing.
LEMMA LengthsGrow ==
    ASSUME NEW h, Sound(h), NEW o \in BObjects(Int64), o.dictVal = {},
           Sound(Append(h, o))
    PROVE  LengthSum(Append(h, o)) = LengthSum(h)
<1>1. PICK n \in Nat : n = Len(h)
  BY LenProperties DEF Sound
<1>2. PICK g : g = Append(h, o)
  OBVIOUS
<1>3. /\ Len(g) = n + 1 /\ g[n + 1] = o
      /\ \A q \in 1..n : g[q] = h[q]
  BY <1>1, <1>2, AppendProperties DEF Sound
<1>4. ASSUME NEW q \in 1..n PROVE LengthIn(g, q) = LengthIn(h, q)
  <2>1. CASE checkIfHasKey(h[q], LengthKey)
    <3>1. PICK e \in h[q].dictVal : e[1] = LengthKey
      BY <2>1, Zenon DEF checkIfHasKey
    <3>2. e[2] \in 1..n /\ getByKey(h[q], LengthKey) = e[2]
      BY <1>1, <3>1, LengthFound DEF Sound
    <3> QED BY <1>3, <2>1, <3>2 DEF LengthIn
  <2>2. CASE ~checkIfHasKey(h[q], LengthKey)
    BY <1>3, <2>2 DEF LengthIn
  <2> QED BY <2>1, <2>2
<1>5. LengthIn(g, n + 1) = 0
  BY <1>3 DEF LengthIn, checkIfHasKey
<1>6. PICK v, w : /\ v = [q \in 1..n |-> LengthIn(h, q)]
                  /\ w = [q \in 1..(n + 1) |-> LengthIn(g, q)]
  OBVIOUS
<1>7. PICK s : IsSum(s, v, n) /\ LengthSum(h) = s[n]
  BY <1>1, <1>6, LengthsSummed
<1>8. PICK t : IsSum(t, w, n + 1) /\ LengthSum(g) = t[n + 1]
  BY <1>2, <1>3, <1>6, LengthsSummed
<1>9. IsSum(t, w, n)
  BY <1>8 DEF IsSum
<1>10. IsMore(w, v, n, 0, 0) /\ 0 \notin 1..n
  BY <1>1, <1>4, <1>6, LengthType DEF IsMore
<1>11. t[n] = s[n]
  <2>1. 0 \in Nat /\ 0 \in Int
    OBVIOUS
  <2> QED BY <1>7, <1>9, <1>10, <2>1, SumsDiffer, Zenon
<1>12. PICK k : k = n + 1
  OBVIOUS
<1>13. k \in 1..(n + 1) /\ k - 1 = n /\ w[k] = 0 /\ t[n] \in Int
  BY <1>5, <1>6, <1>8, <1>12 DEF IsSum
<1>14. t[k] = t[n] + w[k]
  BY <1>8, <1>12, <1>13 DEF IsSum
<1> QED BY <1>2, <1>7, <1>8, <1>11, <1>12, <1>13, <1>14
-----------------------------------------------------------------------------
\* What the properties of the parser say of its heap.
LEMMA HeapSound ==
    ASSUME NEW h \in Seq(BObjects(Int64)),
           \A p \in DOMAIN h : SlotsDistinct(h[p]) /\ Wild \notin Children(h[p]),
           \A p \in DOMAIN h : \A c \in Children(h[p]) : c # Wild => p < c /\ c <= Len(h)
    PROVE  Sound(h)
<1>1. DOMAIN h = 1..Len(h)
  BY LenProperties
<1>2. ASSUME NEW p \in 1..Len(h), NEW c \in Children(h[p])
      PROVE  c \in 1..Len(h)
  <2>1. h[p] \in BObjects(Int64)
    BY <1>1, ElementOfSeq
  <2>2. c \in Nat
    BY <1>2, <2>1, ChildIsPointer
  <2>3. c # Wild /\ c <= Len(h)
    BY <1>1, <1>2
  <2>4. PICK n \in Nat : n = Len(h)
    BY <1>1, LenProperties
  <2> QED BY <2>2, <2>3, <2>4 DEF Wild
<1> QED BY <1>1, <1>2 DEF Sound

\* A dictionary with the same entry for "length", or none, holds the same.
LEMMA LengthSame ==
    ASSUME NEW h, Sound(h), NEW g, Sound(g), Len(g) = Len(h), NEW p \in 1..Len(h),
           \A q \in 1..Len(h) : g[q].intVal = h[q].intVal,
           \A e : e[1] = LengthKey => (e \in g[p].dictVal <=> e \in h[p].dictVal)
    PROVE  LengthIn(g, p) = LengthIn(h, p)
<1>1. CASE checkIfHasKey(h[p], LengthKey)
  <2>1. PICK e \in h[p].dictVal : e[1] = LengthKey
    BY <1>1, Zenon DEF checkIfHasKey
  <2>2. e \in g[p].dictVal
    BY <2>1
  <2>3. e[2] \in 1..Len(h) /\ getByKey(h[p], LengthKey) = e[2]
    BY <2>1, LengthFound DEF Sound
  <2>4. checkIfHasKey(g[p], LengthKey) /\ getByKey(g[p], LengthKey) = e[2]
    BY <2>1, <2>2, LengthFound DEF Sound
  <2> QED BY <1>1, <2>3, <2>4 DEF LengthIn
<1>2. CASE ~checkIfHasKey(h[p], LengthKey)
  <2>1. ~checkIfHasKey(g[p], LengthKey)
    BY <1>2, Zenon DEF checkIfHasKey
  <2> QED BY <1>2, <2>1 DEF LengthIn
<1> QED BY <1>1, <1>2

\* pushBack and addKeyValue leave the integer of an object alone.
LEMMA IntegersKept ==
    ASSUME NEW o \in BObjects(Int64), NEW p, NEW key
    PROVE  pushBack(o, p).intVal = o.intVal /\ addKeyValue(o, key, p).intVal = o.intVal
BY DEF BObjects, pushBack, addKeyValue

\* addKeyValue adds an entry under a key that has none.
LEMMA EntryAdded ==
    ASSUME NEW o \in BObjects(Int64), NEW p, NEW key
    PROVE  addKeyValue(o, key, p).dictVal =
              IF checkIfHasKey(o, key) THEN o.dictVal ELSE o.dictVal \cup {<<key, p>>}
<1>1. CASE checkIfHasKey(o, key)
  BY <1>1, Zenon DEF addKeyValue
<1>2. CASE ~checkIfHasKey(o, key)
  <2>1. PICK d : d = o.dictVal \cup {<<key, p>>}
    OBVIOUS
  <2>2. addKeyValue(o, key, p) = [o EXCEPT !.dictVal = d]
    BY <1>2, <2>1, Zenon DEF addKeyValue
  <2>3. [o EXCEPT !.dictVal = d].dictVal = d
    BY DEF BObjects
  <2> QED BY <1>2, <2>1, <2>2, <2>3, Zenon
<1> QED BY <1>1, <1>2, Zenon

\* What StoreElement and StoreValue do to the objects.
LEMMA OneStored ==
    ASSUME TypeOK, ContainersMatchFrames, stack # <<>>, NEW o \in BObjects(Int64),
           heap' = [heap EXCEPT ![Top.bObj] = o], o.intVal = heap[Top.bObj].intVal
    PROVE  /\ Len(heap') = Len(heap) /\ heap'[Top.bObj] = o
           /\ Top.bObj \in 1..Len(heap) /\ heap[Top.bObj] \in BObjects(Int64)
           /\ \A q \in 1..Len(heap) : heap'[q].intVal = heap[q].intVal
           /\ \A q \in 1..Len(heap) : q # Top.bObj => heap'[q] = heap[q]
<1>1. DOMAIN heap = 1..Len(heap)
  BY LenProperties DEF TypeOK
<1> QED BY <1>1, StoreType, TopType

\* A step that returns a value to a list leaves the lengths as they are.
LEMMA ListKeepsLengths ==
    ASSUME IInv, Sound(heap), Sound(heap'), stack # <<>>, StoreElement
    PROVE  LengthSum(heap') = LengthSum(heap)
<1>1. TypeOK /\ ContainersMatchFrames /\ ret \in Nat
  BY DEF IInv, TypeOK
<1>2. PICK o : o = pushBack(heap[Top.bObj], ret)
  OBVIOUS
<1>3. o \in BObjects(Int64) /\ heap' = [heap EXCEPT ![Top.bObj] = o]
  BY <1>1, <1>2, ElementStored
<1>4. heap[Top.bObj] \in BObjects(Int64) /\ LengthKey \in Str
  BY <1>1, TopType, KeysAssumption
<1>5. o.intVal = heap[Top.bObj].intVal /\ o.dictVal = heap[Top.bObj].dictVal
  BY <1>1, <1>2, <1>4, IntegersKept, StoredObjects
<1>6. /\ Len(heap') = Len(heap) /\ heap'[Top.bObj] = o
      /\ \A q \in 1..Len(heap) : heap'[q].intVal = heap[q].intVal
      /\ \A q \in 1..Len(heap) : q # Top.bObj => heap'[q] = heap[q]
  BY <1>1, <1>3, <1>5, OneStored
<1>7. \A q \in 1..Len(heap) : heap'[q].dictVal = heap[q].dictVal
  BY <1>5, <1>6
<1>8. \A q \in 1..Len(heap) : LengthIn(heap', q) = LengthIn(heap, q)
  BY <1>6, <1>7, LengthSame
<1>9. PICK n \in Nat : n = Len(heap)
  BY LenProperties DEF Sound
<1>10. /\ 0 \in Nat /\ 0 \in Int /\ 0 \notin 1..Len(heap)
       /\ \A q \in 1..Len(heap) : q # 0
  BY <1>9
<1>11. HoldsMore(heap', heap, 0, 0)
  BY <1>6, <1>8, <1>10, Zenon DEF HoldsMore
<1> QED BY <1>10, <1>11, LengthsDiffer, Zenon

\* A value that parseDictionary stores, not a second one under "length", is
\* added to the lengths if it is stored under "length".
LEMMA ValueAddsLength ==
    ASSUME IInv, Sound(heap), Sound(heap'), pc = "return", stack # <<>>, StoreValue,
           Top.curKey = LengthKey => ~checkIfHasKey(heap[Top.bObj], LengthKey)
    PROVE  LengthSum(heap') = IF Top.curKey = LengthKey
                              THEN LengthSum(heap) + heap[ret].intVal
                              ELSE LengthSum(heap)
<1>1. TypeOK /\ ContainersMatchFrames /\ RetInv /\ ret \in Nat
  BY DEF IInv, TypeOK
<1>2. PICK o : o = addKeyValue(heap[Top.bObj], Top.curKey, ret)
  OBVIOUS
<1>3. o \in BObjects(Int64) /\ heap' = [heap EXCEPT ![Top.bObj] = o]
  BY <1>1, <1>2, ValueStored
<1>4. heap[Top.bObj] \in BObjects(Int64) /\ Top.curKey \in Str
  BY <1>1, TopType DEF Frames
<1>5. /\ o.intVal = heap[Top.bObj].intVal
      /\ o.dictVal = IF checkIfHasKey(heap[Top.bObj], Top.curKey)
                     THEN heap[Top.bObj].dictVal
                     ELSE heap[Top.bObj].dictVal \cup {<<Top.curKey, ret>>}
  <2>1. o.intVal = heap[Top.bObj].intVal
    BY <1>2, <1>4, IntegersKept
  <2> QED BY <1>2, <1>4, <2>1, EntryAdded, Zenon
<1>6. /\ Len(heap') = Len(heap) /\ heap'[Top.bObj] = o
      /\ Top.bObj \in 1..Len(heap)
      /\ \A q \in 1..Len(heap) : heap'[q].intVal = heap[q].intVal
      /\ \A q \in 1..Len(heap) : q # Top.bObj => heap'[q] = heap[q]
  BY <1>1, <1>3, <1>5, OneStored
<1>7. ASSUME NEW q \in 1..Len(heap), q # Top.bObj \/ Top.curKey # LengthKey
      PROVE  LengthIn(heap', q) = LengthIn(heap, q)
  <2>1. \A e : e[1] = LengthKey => (e \in heap'[q].dictVal <=> e \in heap[q].dictVal)
    BY <1>5, <1>6, <1>7
  <2> QED BY <1>6, <2>1, LengthSame
<1>8. PICK n \in Nat : n = Len(heap)
  BY LenProperties DEF Sound
<1>9. CASE Top.curKey # LengthKey
  <2>1. /\ 0 \in Nat /\ 0 \in Int /\ 0 \notin 1..Len(heap)
        /\ \A q \in 1..Len(heap) : q # 0
    BY <1>8
  <2>2. HoldsMore(heap', heap, 0, 0)
    BY <1>6, <1>7, <1>9, <2>1, Zenon DEF HoldsMore
  <2> QED BY <1>9, <2>1, <2>2, LengthsDiffer, Zenon
<1>10. CASE Top.curKey = LengthKey
  <2>1. PICK p, d : p = Top.bObj /\ d = heap[ret].intVal
    OBVIOUS
  <2>2. ret \in DOMAIN heap /\ DOMAIN heap = 1..Len(heap)
    BY <1>1, <1>10, LenProperties DEF StoreValue, RetInv, TypeOK
  <2>3. heap[ret] \in BObjects(Int64)
    BY <2>2, ElementOfSeq DEF Sound
  <2>4. d \in Int /\ p \in Nat /\ p \in 1..Len(heap)
    <3>1. d \in Int
      BY <2>1, <2>3, ZeroInRange DEF BObjects
    <3>2. p \in 1..n
      BY <1>6, <1>8, <2>1
    <3> QED BY <1>8, <3>1, <3>2
  <2>5. LengthIn(heap, p) = 0
    BY <1>10, <2>1 DEF LengthIn
  <2>6. <<LengthKey, ret>> \in heap'[p].dictVal
    BY <1>5, <1>6, <1>10, <2>1
  <2>7. SlotsDistinct(heap'[p])
    BY <1>6, <2>4 DEF Sound
  <2>8. checkIfHasKey(heap'[p], LengthKey) /\ getByKey(heap'[p], LengthKey) = ret
    <3>1. PICK e : e = <<LengthKey, ret>>
      OBVIOUS
    <3>2. e[1] = LengthKey /\ e[2] = ret /\ e \in heap'[p].dictVal
      BY <2>6, <3>1
    <3> QED BY <2>7, <3>2, LengthFound
  <2>9. LengthIn(heap', p) = 0 + d
    BY <1>6, <2>1, <2>2, <2>4, <2>8 DEF LengthIn
  <2>10. HoldsMore(heap', heap, p, d)
    BY <1>6, <1>7, <2>1, <2>5, <2>9, Zenon DEF HoldsMore
  <2>11. LengthSum(heap') =
            IF p \in 1..Len(heap) THEN LengthSum(heap) + d ELSE LengthSum(heap)
    BY <2>4, <2>10, LengthsDiffer, Zenon
  <2> QED BY <1>10, <2>1, <2>4, <2>11
<1> QED BY <1>9, <1>10

\* The total so far.
Totalled == pc \notin Failed => collectedLength = Wrap(LengthSum(heap), Int64Modulus)

\* What a step does to the lengths and their total.
LEMMA LengthStep ==
    ASSUME IInv, [Next]_vars, pc' \notin Failed
    PROVE  \/ UNCHANGED <<heap, collectedLength>>
           \/ collectedLength' = collectedLength /\ HeapGrows
           \/ /\ collectedLength' = collectedLength /\ stack # <<>> /\ StoreElement
           \/ ReturnsTo("parseDictionary") /\ StoreValue
<1>1. CASE StartInteger \/ StartParseString \/ ArbitraryAtEnd
           \/ ArbitraryBadChar \/ parseBencodedString \/ IntegerChar
           \/ IntegerLateMinus \/ LengthDigit \/ LengthBadChar \/ LengthColon
           \/ BodyChar \/ KeyEnd \/ LengthNotInteger \/ ConsumePastEnd
           \/ ReturnRoot \/ UNCHANGED vars
  BY <1>1 DEF StartInteger, StartParseString, ArbitraryAtEnd,
     ArbitraryBadChar, parseBencodedString, IntegerChar, IntegerLateMinus,
     LengthDigit, LengthBadChar, LengthColon, BodyChar, KeyEnd,
     LengthNotInteger, ConsumePastEnd, ReturnRoot, vars, collectVars
<1>2. CASE StartList \/ StartDictionary
  BY <1>2, NewObjects, NewChildless
  DEF StartList, StartDictionary, getNewBObject, HeapGrows, BObject_t
<1>3. CASE IntegerEnd
  <2>1. intVal' \in Int64
    BY <1>3, WrapRange, ZeroInRange, WidthAssumption
    DEF IntegerEnd, IInv, TypeOK, Int64
  <2> QED BY <1>3, <2>1, NewObjects, NewChildless
          DEF IntegerEnd, getNewBObject, HeapGrows
<1>4. CASE StringEnd
  BY <1>4, NewObjects, NewChildless
  DEF StringEnd, getNewBObject, HeapGrows, IInv, TypeOK, collectVars
<1>5. CASE ListTruncated \/ ListNext \/ ListEnd
  BY <1>5 DEF ListTruncated, ListNext, ListEnd, ReturnsTo, collectVars
<1>6. CASE LengthWild \/ DictTruncated \/ DictNext \/ DictEnd
  BY <1>6 DEF LengthWild, DictTruncated, DictNext, DictEnd, Failed, Exceptions
<1> QED BY <1>1, <1>2, <1>3, <1>4, <1>5, <1>6
        DEF Next, Parser, parseArbitrary, parseInteger, extractString,
            parseList, parseDictionary

\* Once the process has ended, nothing happens.
LEMMA FailedStays == [Next]_vars /\ pc' \notin Failed => pc \notin Failed
BY DEF Next, Parser, parseArbitrary, parseInteger, extractString,
   parseList, parseDictionary, ArbitraryAtEnd, ArbitraryBadChar,
   StartInteger, StartParseString, StartList, StartDictionary,
   ConsumePastEnd, IntegerChar, IntegerLateMinus, IntegerEnd, LengthDigit,
   LengthBadChar, LengthColon, BodyChar, StringEnd, KeyEnd, ListTruncated,
   ListNext, ListEnd, LengthNotInteger, LengthWild, DictTruncated, DictNext,
   DictEnd, ReturnRoot, ReturnsTo, parseBencodedString, vars, Failed, Exceptions

\* A step that repeats no length keeps the total.
LEMMA TotalKept ==
    IInv /\ Totalled /\ ~RepeatsLength /\ [Next]_vars => Totalled'
<1> SUFFICES ASSUME IInv, Totalled, ~RepeatsLength, [Next]_vars, pc' \notin Failed
             PROVE  collectedLength' = Wrap(LengthSum(heap'), Int64Modulus)
  BY DEF Totalled
<1>1. IInv'
  BY IInvNext
<1>2. pc \notin Failed
  BY FailedStays
<1>3. Sound(heap)
  BY <1>2, HeapSound DEF IInv, TypeOK, HeapForest, NoWildPointer
<1>4. Sound(heap')
  <2>1. TypeOK' /\ HeapForest' /\ NoWildPointer'
    BY <1>1 DEF IInv
  <2> QED BY <2>1, HeapSound DEF TypeOK, HeapForest, NoWildPointer
<1>5. collectedLength = Wrap(LengthSum(heap), Int64Modulus)
  BY <1>2 DEF Totalled
<1>6. CASE UNCHANGED <<heap, collectedLength>>
  BY <1>5, <1>6
<1>7. CASE collectedLength' = collectedLength /\ HeapGrows
  <2>1. PICK o \in BObjects(Int64) : heap' = Append(heap, o) /\ o.dictVal = {}
    BY <1>7 DEF HeapGrows
  <2>2. LengthSum(heap') = LengthSum(heap)
    BY <1>3, <1>4, <2>1, LengthsGrow
  <2> QED BY <1>5, <1>7, <2>2
<1>8. CASE collectedLength' = collectedLength /\ stack # <<>> /\ StoreElement
  BY <1>3, <1>4, <1>5, <1>8, ListKeepsLengths
<1>9. CASE ReturnsTo("parseDictionary") /\ StoreValue
  <2>1. pc = "return" /\ stack # <<>>
        /\ (Top.curKey = LengthKey => ~checkIfHasKey(heap[Top.bObj], LengthKey))
    BY <1>9 DEF ReturnsTo, RepeatsLength
  <2>2. LengthSum(heap') = IF Top.curKey = LengthKey
                           THEN LengthSum(heap) + heap[ret].intVal
                           ELSE LengthSum(heap)
    BY <1>3, <1>4, <1>9, <2>1, ValueAddsLength
  <2>3. CASE Top.curKey = LengthKey
    <3>1. ret \in DOMAIN heap /\ DOMAIN heap = 1..Len(heap)
      BY <1>9, <2>1, <2>3, LenProperties DEF StoreValue, IInv, RetInv, TypeOK
    <3>2. heap[ret].intVal \in Int
      <4>1. heap[ret] \in BObjects(Int64)
        BY <1>3, <3>1, ElementOfSeq DEF Sound
      <4> QED BY <4>1, ZeroInRange DEF BObjects
    <3>3. LengthSum(heap) \in Int
      <4>1. PICK n \in Nat : n = Len(heap)
        BY <1>3, LenProperties DEF Sound
      <4>2. PICK s : \E v : IsSum(s, v, n) /\ LengthSum(heap) = s[n]
        BY <1>3, <4>1, LengthsSummed
      <4> QED BY <4>1, <4>2 DEF IsSum
    <3>4. collectedLength' = Wrap(collectedLength + heap[ret].intVal, Int64Modulus)
      BY <1>9, <2>3 DEF StoreValue
    <3> QED BY <1>5, <2>2, <2>3, <3>2, <3>3, <3>4, WrapAdds, WidthAssumption
  <2>4. CASE Top.curKey # LengthKey
    BY <1>5, <1>9, <2>2, <2>4 DEF StoreValue
  <2> QED BY <2>3, <2>4
<1> QED BY <1>6, <1>7, <1>8, <1>9, LengthStep

\* Without an object there is no length.
LEMMA TotalStarts == Init => Totalled
<1> SUFFICES ASSUME Init PROVE Totalled
  OBVIOUS
<1>1. heap = <<>> /\ collectedLength = 0 /\ Len(heap) = 0
  BY DEF Init
<1>2. Sound(heap)
  BY <1>1 DEF Sound
<1>3. LengthSum(heap) = 0
  BY <1>1, <1>2, LengthsSummed DEF IsSum
<1> QED BY <1>1, <1>3, WrapZero DEF Totalled

\* The total that main announces is the sum of the lengths in the torrent.
THEOREM LengthsAlwaysTotal == Spec => LengthTotal
<1>1. Init => Totalled
  BY TotalStarts
<1>2. IInv /\ Totalled /\ ~RepeatsLength /\ [Next]_vars => Totalled'
  BY TotalKept
<1>3. LengthTotal <=> ([]~RepeatsLength => []Totalled)
  BY DEF LengthTotal, Totalled
<1> QED BY <1>1, <1>2, <1>3, Invariance, PTL DEF Spec
-----------------------------------------------------------------------------
\* To the parser, a step of the client is one of its own steps, a call, no
\* step at all, or the end of the process that it lives in.
LEMMA ParserView == [SessionNext]_allVars => [Next]_vars \/ Init'
<1> SUFFICES ASSUME [SessionNext]_allVars PROVE [Next]_vars \/ Init'
  OBVIOUS
<1>1. ASSUME NEW status, End(status) PROVE Init'
  BY <1>1 DEF End, Init
<1>2. CASE ParserStep \/ ReadFile \/ CheckResponse
  BY <1>1, <1>2 DEF ParserStep, ReadFile, CheckResponse, Exit, Next
<1>3. CASE Startup \/ ParserThrows \/ FillMetainfo \/ CreateBitfield
           \/ FillBitfield \/ ReadBitfield
  BY <1>1, <1>3 DEF Startup, ParserThrows, FillMetainfo, CreateBitfield,
     FillBitfield, ReadBitfield, Exit, Abort
<1>4. CASE AnnounceStarted \/ AnnounceStopped
  BY <1>1, <1>4 DEF AnnounceStarted, AnnounceStopped, makeGetRequest, Exit
<1>5. CASE HandleReply \/ MakePeer
  BY <1>1, <1>5 DEF HandleReply, MakePeer, Exit, Abort
<1>6. CASE PeersMade \/ TryConnect \/ Connected \/ DeletePeer \/ PeersDeleted
           \/ TruncateBitfield
  BY <1>6 DEF PeersMade, TryConnect, Connected, DeletePeer, PeersDeleted,
     TruncateBitfield
<1>7. CASE WriteBitfield \/ Crash \/ OpenFails \/ ReadFails \/ WriteFails
  BY <1>1, <1>7 DEF WriteBitfield, Crash, OpenFails, ReadFails, WriteFails
<1>8. CASE Start \/ CtrlHandler \/ UNCHANGED allVars
  BY <1>8 DEF Start, CtrlHandler, allVars
<1> QED BY <1>2, <1>3, <1>4, <1>5, <1>6, <1>7, <1>8 DEF SessionNext, Run

\* The parser keeps its invariant in every run of the client: what is proved
\* of the parser on its own holds of the parser main calls.
THEOREM ParserInSession == SessionSpec => []IInv
<1>1. SessionInit => IInv
  BY IInvInit DEF SessionInit
<1>2. [SessionNext]_allVars => [Next]_vars \/ Init'
  BY ParserView
<1>3. Init => IInv
  BY IInvInit
<1>4. IInv /\ [Next]_vars => IInv'
  BY IInvNext
<1> QED BY <1>1, <1>2, <1>3, <1>4, PTL DEF SessionSpec
-----------------------------------------------------------------------------
(* Types of main's own state.                                              *)

\* The pieces of file contents that main writes: nothing, zeros, the bitfield
\* and an initial part of it.
LEMMA FileTypes ==
    /\ NoFile \in Files /\ File(<<>>) \in Files
    /\ \A b \in Seq(Byte) : File(b) \in Files
    /\ \A b \in Seq(Byte) : \A n \in 0..Len(b) :
           File(SubSeq(b, 1, n)) \in Files
    /\ \A n \in Nat : emptyFile(n) \in Files
<1>1. <<>> \in Seq(Byte)
  OBVIOUS
<1>2. \A b \in Seq(Byte) : File(b) \in Files
  BY DEF File, Files
<1>3. ASSUME NEW b \in Seq(Byte), NEW n \in 0..Len(b)
      PROVE  SubSeq(b, 1, n) \in Seq(Byte)
  <2>1. n \in Nat /\ n <= Len(b)
    BY LenProperties
  <2> QED BY <2>1, PrefixType
<1>4. ASSUME NEW n \in Nat PROVE Zeros(n) \in Seq(Byte)
  <2>1. Zeros(n) \in [1..n -> Byte]
    BY DEF Zeros, Byte
  <2> QED BY <2>1, SeqDef
<1> QED BY <1>1, <1>2, <1>3, <1>4 DEF NoFile, Files, emptyFile

\* What is in a file: bytes, none if there is no file.
LEMMA FileBytes ==
    ASSUME NEW f \in Files
    PROVE  /\ f.bytes \in Seq(Byte)
           /\ f = NoFile \/ f = File(f.bytes)
<1>1. CASE f = NoFile
  <2>1. <<>> \in Seq(Byte)
    OBVIOUS
  <2> QED BY <1>1, <2>1 DEF NoFile
<1>2. CASE f \in [exists : {TRUE}, bytes : Seq(Byte)]
  BY <1>2 DEF File
<1> QED BY <1>1, <1>2 DEF Files

\* The size main computes for the bitfield is a natural number.
LEMMA BitfieldSizeType ==
    ASSUME SessionTypeOK, metainfo.piece_length # 0
    PROVE  bitfieldSize \in Nat
<1> DEFINE t == metainfo.total_length % Int64Modulus
           p == metainfo.piece_length
<1>1. t \in Nat /\ p \in Nat \ {0}
  <2>1. /\ metainfo.total_length \in Int /\ p \in 0..(Int64Modulus - 1)
        /\ Int64Modulus \in Nat /\ Int64Modulus >= 2
    BY ZeroInRange, WidthAssumption DEF SessionTypeOK
  <2>2. \A n \in Int, m \in Nat : m >= 2 => n % m \in Nat
    OBVIOUS
  <2> QED BY <2>1, <2>2
<1>2. t \div p \in Nat
  <2> HIDE DEF t, p
  <2> QED BY <1>1
<1>3. (t \div p) \div 8 \in Nat
  <2> HIDE DEF t, p
  <2> QED BY <1>2
<1> QED BY <1>3 DEF bitfieldSize, getBitfieldSize

\* A fresh process has the types it should have.
LEMMA EndType ==
    ASSUME SessionTypeOK, NEW status \in Ended, End(status),
           bitfieldFile' \in Files, torrentFile' = torrentFile,
           registered' \in BOOLEAN,
           announced' \in Seq(Requests), Len(announced') <= 2,
           runs' = runs, faults' \in 0..MaxFaults
    PROVE  SessionTypeOK'
<1>1. NoMetainfo \in [infodict : Str, total_length : Int64,
                      piece_length : 0..(Int64Modulus - 1), announce : Str]
  BY ZeroInRange, StrAppend, WidthAssumption DEF NoMetainfo
<1>2. /\ <<>> \in Seq(Byte) /\ <<>> \in Str /\ <<>> \in Seq(Nat)
      /\ Len(<<>>) = 0
  BY StrAppend
<1>3. /\ at' \in Ended \cup Up
      /\ registered' \in BOOLEAN /\ exitRequested' \in BOOLEAN
      /\ readFailed' \in BOOLEAN
  BY DEF End
<1>4. /\ peers' \in Seq(Nat) /\ bpeers' \in 0..Len(peers')
      /\ break_early' \in 0..6
  BY <1>2 DEF End
<1>5. /\ bitfield' \in Seq(Byte) /\ response' \in Str
      /\ deleted' \in Seq(Nat)
      /\ torrentFile' \in [exists : BOOLEAN, bytes : Str]
      /\ runs' \in 0..MaxRuns
  BY <1>2 DEF End, Destructors, SessionTypeOK
<1> QED BY <1>1, <1>3, <1>4, <1>5 DEF End, SessionTypeOK

\* What a request adds to the list of requests.
LEMMA RequestType ==
    ASSUME SessionTypeOK, NEW event \in {"started", "stopped"},
           Len(announced) <= 1, announced' = Append(announced, Request(event))
    PROVE  /\ announced' \in Seq(Requests) /\ Len(announced') <= 2
           /\ Len(announced') = Len(announced) + 1
           /\ \A i \in DOMAIN announced' :
                 \/ i \in DOMAIN announced /\ announced'[i] = announced[i]
                 \/ announced'[i] = Request(event)
<1>1. Request(event) \in Requests
  BY DEF Request, Requests, SessionTypeOK
<1>2. announced \in Seq(Requests) /\ Len(announced) \in Nat
  BY LenProperties DEF SessionTypeOK
<1> QED BY <1>1, <1>2, AppendProperties, LenProperties

\* A request leaves main with a reply, or the process ends.
LEMMA RequestStep ==
    ASSUME SessionTypeOK, NEW event \in {"started", "stopped"},
           NEW next \in {"checkResponse", "saveBitfield"},
           Len(announced) <= 1, makeGetRequest(event, next)
    PROVE  SessionTypeOK'
<1>1. /\ announced' \in Seq(Requests) /\ Len(announced') <= 2
  BY RequestType DEF makeGetRequest
<1>2. CASE End("failure") /\ UNCHANGED <<disk, runs, faults>>
  <2>1. registered' \in BOOLEAN
    BY DEF makeGetRequest, answered, SessionTypeOK
  <2> QED BY <1>1, <1>2, <2>1, EndType DEF Ended, disk, SessionTypeOK
<1>3. CASE /\ response' \in Replies
           /\ registered' = answered(event, response')
           /\ at' = next
           /\ UNCHANGED <<vars, disk, metainfo, bitfield, peers, bpeers,
                          break_early, readFailed, deleted, env>>
  <2>1. response' \in Str /\ at' \in Up /\ registered' \in BOOLEAN
    BY <1>3, TextsAssumption, InputsAssumption DEF Up, Saving, answered, SessionTypeOK
  <2> QED BY <1>1, <1>3, <2>1 DEF disk, env, SessionTypeOK
<1> QED BY <1>2, <1>3 DEF makeGetRequest

\* What main finds under a key, of the type it asks for, is an object.
LEMMA TypedMember ==
    ASSUME TypeOK, NEW p, NEW key, NEW t, HasTyped(p, key, t)
    PROVE  LET o == heap[At(p, key)]
           IN /\ o \in BObjects(Int64)
              /\ o.intVal \in Int64 /\ o.stringVal \in Str
              /\ o.listVal \in Seq(Nat)
<1>1. /\ heap \in Seq(BObjects(Int64)) /\ At(p, key) \in DOMAIN heap
  BY DEF HasTyped, TypeOK
<1>2. heap[At(p, key)] \in BObjects(Int64)
  BY <1>1, LenProperties, ElementOfSeq
<1> QED BY <1>2 DEF BObjects

\* A step that exits or aborts, and leaves the tracker's list alone.
LEMMA ExitType ==
    ASSUME SessionTypeOK, Exit \/ Abort, registered' = registered
    PROVE  SessionTypeOK'
<1>1. /\ Len(announced) <= 2 /\ announced \in Seq(Requests)
      /\ registered \in BOOLEAN /\ bitfieldFile \in Files
      /\ faults \in 0..MaxFaults
  BY DEF SessionTypeOK
<1>2. /\ announced' = announced /\ bitfieldFile' = bitfieldFile
      /\ torrentFile' = torrentFile /\ runs' = runs /\ faults' = faults
  BY DEF Exit, Abort, disk
<1>3. PICK status \in {"failure", "aborted"} : End(status)
  BY DEF Exit, Abort
<1>4. status \in Ended
  BY <1>3 DEF Ended
<1> QED BY <1>1, <1>2, <1>3, <1>4, EndType

\* Metainfo is filled with values of its types.
LEMMA FillMetainfoType ==
    ASSUME TypeOK, SessionTypeOK, FillMetainfo
    PROVE  SessionTypeOK'
<1>1. CASE Abort /\ UNCHANGED registered
  BY <1>1, ExitType
<1> DEFINE piece == heap[At(At(ret, InfoKey), PieceLengthKey)].intVal
           announce == heap[At(ret, AnnounceKey)].stringVal
<1>2. CASE /\ HasTyped(At(ret, InfoKey), PieceLengthKey, "BInteger")
           /\ HasTyped(ret, AnnounceKey, "BString")
           /\ metainfo' = [infodict |-> collectedInfoDict,
                           total_length |-> collectedLength,
                           piece_length |-> piece % Int64Modulus,
                           announce |-> announce]
           /\ at' = "openBitfield"
           /\ UNCHANGED <<vars, disk, registered, bitfield, response, peers,
                          bpeers, break_early, readFailed, history, env>>
  <2>1. piece \in Int /\ announce \in Str
    BY <1>2, TypedMember, ZeroInRange
  <2>2. piece % Int64Modulus \in 0..(Int64Modulus - 1)
    <3>1. \A n \in Int, m \in Nat : m >= 2 => n % m \in 0..(m - 1)
      OBVIOUS
    <3> QED BY <2>1, <3>1, WidthAssumption
  <2>3. collectedInfoDict \in Str /\ collectedLength \in Int64
    BY DEF TypeOK
  <2> HIDE DEF piece, announce
  <2>4. metainfo' \in [infodict : Str, total_length : Int64,
                       piece_length : 0..(Int64Modulus - 1), announce : Str]
    BY <1>2, <2>1, <2>2, <2>3
  <2>5. at' \in Up
    BY <1>2 DEF Up
  <2> QED BY <1>2, <2>4, <2>5 DEF disk, history, env, SessionTypeOK
<1> QED BY <1>1, <1>2 DEF FillMetainfo

\* The tracker's list of peers is a list of pointers.
LEMMA HandleReplyType ==
    ASSUME TypeOK, SessionTypeOK, HandleReply, peers = <<>>
    PROVE  SessionTypeOK'
<1>1. CASE (Exit \/ Abort) /\ UNCHANGED registered
  BY <1>1, ExitType
<1>2. CASE /\ UsableReply
           /\ peers' = heap[At(ret, PeersKey)].listVal
           /\ at' = "makePeers"
           /\ UNCHANGED <<vars, disk, registered, metainfo, bitfield,
                          response, bpeers, break_early, readFailed, history, env>>
  <2>1. peers' \in Seq(Nat)
    BY <1>2, TypedMember DEF UsableReply
  <2>2. bpeers = 0
    BY DEF SessionTypeOK
  <2>3. bpeers' \in 0..Len(peers') /\ at' \in Up
    BY <1>2, <2>1, <2>2, LenProperties DEF Up
  <2> QED BY <1>2, <2>1, <2>3 DEF disk, history, env, SessionTypeOK
<1> QED BY <1>1, <1>2 DEF HandleReply

\* Every step keeps main's state to its types.
LEMMA SessionTypeNext ==
    ASSUME TypeOK, SessionTypeOK, CreateInv, DeletedInv, RequestsInv,
           [SessionNext]_allVars
    PROVE  SessionTypeOK'
<1>1. CASE ParserStep \/ UNCHANGED allVars
  BY <1>1 DEF ParserStep, main, allVars, disk, locals, history, env,
     SessionTypeOK
<1>2. CASE Start
  <2>1. runs' \in 0..MaxRuns /\ at' \in Up
    BY <1>2, BoundsAssumption DEF Start, Up, SessionTypeOK
  <2>2. /\ deleted' \in Seq(Nat) /\ announced' \in Seq(Requests)
        /\ Len(announced') <= 2
    BY <1>2 DEF Start
  <2> QED BY <1>2, <2>1, <2>2 DEF Start, disk, locals, SessionTypeOK
<1>3. CASE Startup
  <2>1. CASE at' = "readFile"
             /\ UNCHANGED <<vars, disk, registered, locals, history, env>>
    BY <2>1 DEF Up, disk, locals, history, env, SessionTypeOK
  <2> QED BY <1>3, <2>1, ExitType DEF Startup
<1>4. CASE ReadFile
  <2>1. CASE at' = "parseTorrent"
             /\ UNCHANGED <<disk, registered, locals, history, env>>
    BY <2>1 DEF Up, Parsing, disk, locals, history, env, SessionTypeOK
  <2> QED BY <1>4, <2>1, ExitType DEF ReadFile
<1>5. CASE ParserThrows
  BY <1>5, ExitType DEF ParserThrows
<1>6. CASE FillMetainfo
  BY <1>6, FillMetainfoType
<1>7. CASE CreateBitfield
  <2>1. CASE /\ bitfieldFile' = File(<<>>)
             /\ at' = "createBitfield"
             /\ UNCHANGED <<vars, torrentFile, registered, locals, history,
                            env>>
    <3>1. bitfieldFile' \in Files
      BY <2>1, FileTypes
    <3> QED BY <2>1, <3>1 DEF Up, locals, history, env, SessionTypeOK
  <2> QED BY <1>7, <2>1, ExitType DEF CreateBitfield
<1>8. CASE FillBitfield
  <2>1. bitfieldFile' \in Files
    BY <1>8, FileTypes, BitfieldSizeType DEF FillBitfield, CreateInv
  <2> QED BY <1>8, <2>1
          DEF FillBitfield, Up, locals, history, env, SessionTypeOK
<1>9. CASE ReadBitfield
  <2>1. bitfield' \in Seq(Byte) /\ at' \in Up
    <3>1. bitfieldFile \in Files
      BY DEF SessionTypeOK
    <3>2. bitfieldFile.bytes \in Seq(Byte)
      BY <3>1, FileBytes
    <3> QED BY <1>9, <3>2 DEF ReadBitfield, Up
  <2> QED BY <1>9, <2>1
          DEF ReadBitfield, disk, history, env, SessionTypeOK
<1>10. CASE AnnounceStarted
  <2>1. Len(announced) <= 1
    BY <1>10 DEF AnnounceStarted, RequestsInv, Up
  <2> QED BY <1>10, <2>1, RequestStep, ExitType DEF AnnounceStarted
<1>11. CASE CheckResponse
  <2>1. CASE at' = "parseReply"
             /\ UNCHANGED <<disk, registered, locals, history, env>>
    BY <2>1 DEF Up, Parsing, disk, locals, history, env, SessionTypeOK
  <2> QED BY <1>11, <2>1, ExitType DEF CheckResponse
<1>12. CASE HandleReply
  <2>1. peers = <<>>
    BY <1>12 DEF HandleReply, DeletedInv, BeforeDeleting, Parsing
  <2> QED BY <1>12, <2>1, HandleReplyType
<1>13. CASE MakePeer
  <2>1. CASE /\ bpeers < Len(peers) /\ bpeers' = bpeers + 1
             /\ UNCHANGED <<vars, at, disk, registered, metainfo, bitfield,
                            response, peers, break_early, readFailed, history, env>>
    <3>1. bpeers' \in 0..Len(peers')
      BY <2>1, LenProperties DEF SessionTypeOK
    <3> QED BY <2>1, <3>1 DEF disk, history, env, SessionTypeOK
  <2> QED BY <1>13, <2>1, ExitType DEF MakePeer
<1>14. CASE PeersMade \/ Connected \/ PeersDeleted
  BY <1>14 DEF PeersMade, Connected, PeersDeleted, Up, disk, locals, history,
     env, SessionTypeOK
<1>15. CASE TryConnect
  <2>1. break_early' \in 0..6
    BY <1>15 DEF TryConnect, SessionTypeOK
  <2> QED BY <1>15, <2>1 DEF TryConnect, disk, history, env, SessionTypeOK
<1>16. CASE DeletePeer
  <2>1. Len(deleted) + 1 \in 1..Len(peers)
    BY <1>16, LenProperties DEF DeletePeer, SessionTypeOK
  <2>2. deleted' \in Seq(Nat)
    BY <1>16, <2>1, AppendProperties, ElementOfSeq
       DEF DeletePeer, SessionTypeOK
  <2> QED BY <1>16, <2>2 DEF DeletePeer, disk, locals, env, SessionTypeOK
<1>17. CASE AnnounceStopped
  <2>1. Len(announced) <= 1
    BY <1>17 DEF AnnounceStopped, RequestsInv, Up
  <2> QED BY <1>17, <2>1, RequestStep DEF AnnounceStopped
<1>18. CASE TruncateBitfield
  <2>1. bitfieldFile' \in Files
    BY <1>18, FileTypes DEF TruncateBitfield
  <2> QED BY <1>18, <2>1
          DEF TruncateBitfield, Up, Saving, locals, history, env, SessionTypeOK
<1>19. CASE WriteBitfield
  <2>1. bitfieldFile' \in Files
    BY <1>19, FileTypes DEF WriteBitfield, SessionTypeOK
  <2> QED BY <1>19, <2>1, EndType DEF WriteBitfield, Ended, SessionTypeOK
<1>20. CASE Crash
  <2>1. bitfieldFile' \in Files
    <3>1. CASE at = "createBitfield"
      BY <1>20, <3>1, FileTypes, BitfieldSizeType DEF Crash, CreateInv
    <3>2. CASE at # "createBitfield"
      BY <1>20, <3>2, FileTypes DEF Crash, SessionTypeOK
    <3> QED BY <3>1, <3>2
  <2>2. faults' \in 0..MaxFaults
    BY <1>20, BoundsAssumption DEF Crash, SessionTypeOK
  <2> QED BY <1>20, <2>1, <2>2, EndType DEF Crash, Ended, SessionTypeOK
<1>21. CASE CtrlHandler
  BY <1>21 DEF CtrlHandler, disk, locals, history, SessionTypeOK
<1>22. CASE OpenFails
  <2>1. faults' \in 0..MaxFaults
    BY <1>22, BoundsAssumption DEF OpenFails, SessionTypeOK
  <2> QED BY <1>22, <2>1, EndType
          DEF OpenFails, Ended, Up, disk, locals, SessionTypeOK
<1>23. CASE WriteFails
  <2>1. bitfieldFile' \in Files /\ faults' \in 0..MaxFaults
    BY <1>23, FileTypes, BoundsAssumption DEF WriteFails, SessionTypeOK
  <2> QED BY <1>23, <2>1, EndType
          DEF WriteFails, Ended, Up, locals, SessionTypeOK
<1>24. CASE ReadFails
  <2>1. faults' \in 0..MaxFaults /\ at' \in Up
    BY <1>24, BoundsAssumption DEF ReadFails, Up, SessionTypeOK
  <2>2. bitfieldFile.bytes \in Seq(Byte)
    BY FileBytes DEF SessionTypeOK
  <2>3. bitfield' \in Seq(Byte)
    <3>1. PICK n \in 0..(Len(bitfieldFile.bytes) - 1) :
             bitfield' = SubSeq(bitfieldFile.bytes, 1, n)
      BY <1>24 DEF ReadFails
    <3>2. n \in 0..Len(bitfieldFile.bytes)
      BY <2>2, LenProperties
    <3> QED BY <2>2, <3>1, <3>2, SubSeqProperties
  <2> QED BY <1>24, <2>1, <2>3 DEF ReadFails, disk, history, SessionTypeOK
<1> QED BY <1>1, <1>2, <1>3, <1>4, <1>5, <1>6, <1>7, <1>8, <1>9, <1>10,
           <1>11, <1>12, <1>13, <1>14, <1>15, <1>16, <1>17, <1>18, <1>19,
           <1>20, <1>21, <1>22, <1>23, <1>24 DEF SessionNext, Run
-----------------------------------------------------------------------------
(* The invariants of a run.                                                *)

\* Each way a step has to end the process.
LEMMA WaysToEnd ==
    Exit \/ Abort => /\ \E status \in Ended : End(status)
                     /\ announced' = announced
BY DEF Exit, Abort, Ended

\* CreateInv is preserved by every step.
LEMMA CreateNext ==
    ASSUME CreateInv, [SessionNext]_allVars
    PROVE  CreateInv'
<1> SUFFICES ASSUME at' = "createBitfield"
             PROVE  metainfo'.piece_length # 0
  BY DEF CreateInv
<1>1. ASSUME NEW status \in Ended, End(status) PROVE FALSE
  BY <1>1 DEF End, Ended
<1>2. ~Exit /\ ~Abort
  BY <1>1, WaysToEnd
<1>3. CASE CreateBitfield
  BY <1>2, <1>3 DEF CreateBitfield, locals
<1>4. CASE MakePeer \/ TryConnect \/ DeletePeer \/ CtrlHandler
           \/ UNCHANGED allVars
  BY <1>2, <1>4 DEF MakePeer, TryConnect, DeletePeer, CtrlHandler, allVars,
     main, locals, CreateInv
<1>5. ~Start /\ ~Startup /\ ~ReadFile /\ ~ParserStep /\ ~ParserThrows
      /\ ~FillMetainfo /\ ~FillBitfield /\ ~ReadBitfield
  BY <1>2 DEF Start, Startup, ReadFile, ParserStep, ParserThrows, main,
     Parsing, FillMetainfo, FillBitfield, ReadBitfield
<1>6. ~AnnounceStarted /\ ~AnnounceStopped
  BY <1>1, <1>2 DEF AnnounceStarted, AnnounceStopped, makeGetRequest, Ended
<1>7. ~CheckResponse /\ ~HandleReply /\ ~PeersMade /\ ~Connected
      /\ ~PeersDeleted /\ ~TruncateBitfield
  BY <1>2 DEF CheckResponse, HandleReply, PeersMade, Connected, PeersDeleted,
     TruncateBitfield
<1>8. ~WriteBitfield /\ ~Crash /\ ~OpenFails /\ ~ReadFails /\ ~WriteFails
  BY <1>1 DEF WriteBitfield, Crash, OpenFails, ReadFails, WriteFails, Ended
<1> QED BY <1>3, <1>4, <1>5, <1>6, <1>7, <1>8 DEF SessionNext, Run

\* The tracker's list of peers holds no object twice, because the objects of
\* the memory manager form a forest.
LEMMA RepliedPeers ==
    ASSUME TypeOK, HeapForest, HasTyped(ret, PeersKey, "BList"),
           peers' = heap[At(ret, PeersKey)].listVal
    PROVE  \A i, j \in DOMAIN peers' : peers'[i] = peers'[j] => i = j
<1>1. At(ret, PeersKey) \in DOMAIN heap
  BY DEF HasTyped
<1> QED BY <1>1 DEF HeapForest, SlotsDistinct

\* Deleting goes through the list once.
LEMMA DeletedNext ==
    ASSUME TypeOK, HeapForest, SessionTypeOK, DeletedInv, NoDoubleFree,
           [SessionNext]_allVars
    PROVE  DeletedInv' /\ NoDoubleFree'
<1>1. ASSUME NEW status \in Ended, End(status)
      PROVE  DeletedInv' /\ NoDoubleFree'
  <2>1. at' \notin BeforeDeleting \cup {"deletePeers"}
    BY <1>1 DEF End, Ended, BeforeDeleting, Parsing
  <2>2. peers' = <<>> /\ deleted' = deleted
    BY <1>1 DEF End, Destructors
  <2> QED BY <2>1, <2>2 DEF DeletedInv, NoDoubleFree
<1>2. Exit \/ Abort => DeletedInv' /\ NoDoubleFree'
  BY <1>1, WaysToEnd
<1>3. CASE Start
  BY <1>3 DEF Start, locals, DeletedInv, NoDoubleFree
<1> USE DEF BeforeDeleting, Parsing
<1>4. CASE Startup \/ ReadFile \/ ParserStep \/ ParserThrows
  BY <1>2, <1>4 DEF Startup, ReadFile, ParserStep, ParserThrows, main, locals,
     history, Ended, DeletedInv, NoDoubleFree
<1>5. CASE FillMetainfo \/ CreateBitfield \/ FillBitfield \/ ReadBitfield
           \/ CheckResponse
  BY <1>2, <1>5 DEF FillMetainfo, CreateBitfield, FillBitfield, ReadBitfield,
     CheckResponse, locals, history, Ended, DeletedInv, NoDoubleFree
<1>14. CASE ReadFails
  BY <1>14 DEF ReadFails, history, Ended, DeletedInv, NoDoubleFree
<1>6. CASE AnnounceStarted \/ AnnounceStopped
  <2>1. "failure" \in Ended
    BY DEF Ended
  <2>2. CASE End("failure")
    BY <1>1, <2>1, <2>2
  <2>3. CASE /\ UNCHANGED <<peers, deleted>>
             /\ \/ at = "announce" /\ at' = "checkResponse"
                \/ at' = "saveBitfield"
    BY <2>3 DEF Ended, DeletedInv, NoDoubleFree
  <2> QED BY <1>2, <1>6, <2>2, <2>3
          DEF AnnounceStarted, AnnounceStopped, makeGetRequest
<1>7. CASE HandleReply
  <2>1. CASE /\ UsableReply
             /\ peers' = heap[At(ret, PeersKey)].listVal
             /\ at' = "makePeers" /\ deleted' = deleted
    <3>1. \A i, j \in DOMAIN peers' : peers'[i] = peers'[j] => i = j
      BY <2>1, RepliedPeers DEF UsableReply
    <3>2. deleted = <<>>
      BY <1>7 DEF HandleReply, DeletedInv
    <3> QED BY <2>1, <3>1, <3>2 DEF Ended, DeletedInv, NoDoubleFree
  <2> QED BY <1>2, <1>7, <2>1 DEF HandleReply, history
<1>8. CASE MakePeer \/ PeersMade \/ TryConnect
  BY <1>2, <1>8 DEF MakePeer, PeersMade, TryConnect, locals, history, Ended,
     DeletedInv, NoDoubleFree
<1>9. CASE Connected
  <2>1. deleted' = <<>> /\ peers' = peers /\ at' = "deletePeers"
    BY <1>9 DEF Connected, locals, history, DeletedInv
  <2>2. Len(peers) \in Nat
    BY LenProperties DEF SessionTypeOK
  <2> QED BY <2>1, <2>2 DEF Ended, DeletedInv, NoDoubleFree
<1>10. CASE DeletePeer
  <2> DEFINE n == Len(deleted)
  <2>1. /\ at = "deletePeers" /\ at' = at /\ peers' = peers
        /\ n \in Nat /\ DOMAIN deleted = 1..n
        /\ n < Len(peers) /\ DOMAIN peers = 1..Len(peers)
        /\ Len(peers) \in Nat
        /\ \A i \in 1..n : deleted[i] = peers[i]
    <3>1. /\ at = "deletePeers" /\ at' = at /\ peers' = peers
          /\ n < Len(peers)
      BY <1>10 DEF DeletePeer, locals
    <3>2. \A i \in DOMAIN deleted : deleted[i] = peers[i]
      BY <3>1 DEF DeletedInv
    <3>3. /\ n \in Nat /\ DOMAIN deleted = 1..n
          /\ Len(peers) \in Nat /\ DOMAIN peers = 1..Len(peers)
      BY LenProperties DEF SessionTypeOK
    <3> QED BY <3>1, <3>2, <3>3
  <2>2. /\ Len(deleted') = n + 1 /\ DOMAIN deleted' = 1..(n + 1)
        /\ \A i \in 1..n : deleted'[i] = deleted[i]
        /\ deleted'[n + 1] = peers[n + 1]
    BY <1>10, <2>1, AppendProperties, LenProperties, ElementOfSeq
       DEF DeletePeer, SessionTypeOK
  <2>3. \A i \in 1..(n + 1) : i \in DOMAIN peers /\ deleted'[i] = peers[i]
    BY <2>1, <2>2
  <2>4. Len(deleted') <= Len(peers)
    BY <2>1, <2>2
  <2> QED BY <2>1, <2>2, <2>3, <2>4 DEF Ended, DeletedInv, NoDoubleFree
<1>11. CASE PeersDeleted \/ TruncateBitfield
  BY <1>11 DEF PeersDeleted, TruncateBitfield, locals, history, Ended,
     DeletedInv, NoDoubleFree
<1>12. CASE WriteBitfield \/ Crash \/ OpenFails \/ WriteFails
  <2>1. CASE at' = "readBitfield" /\ UNCHANGED <<locals, deleted>>
        /\ at \in {"openBitfield", "createBitfield"}
    BY <2>1 DEF locals, Ended, DeletedInv, NoDoubleFree
  <2> QED BY <1>1, <1>12, <2>1
          DEF WriteBitfield, Crash, OpenFails, WriteFails, Ended
<1>13. CASE CtrlHandler \/ UNCHANGED allVars
  BY <1>13 DEF CtrlHandler, allVars, main, locals, history, DeletedInv,
     NoDoubleFree
<1> QED BY <1>3, <1>4, <1>5, <1>6, <1>7, <1>8, <1>9, <1>10, <1>11, <1>12,
           <1>13, <1>14 DEF SessionNext, Run

\* A request of a running client agrees with the earlier ones, and the count
\* goes up by one.
LEMMA RequestAgrees ==
    ASSUME SessionTypeOK, RequestsInv, at \in {"announce", "stop"},
           NEW event \in {"started", "stopped"},
           announced' = Append(announced, Request(event))
    PROVE  /\ AnnouncesAgree'
           /\ \A i \in DOMAIN announced' :
                 /\ announced'[i].info_hash = metainfo.infodict
                 /\ announced'[i].left = metainfo.total_length
           /\ at = "announce" => Len(announced') <= 1
<1>1. Len(announced) <= 1 /\ at \in Up
      /\ (at = "announce" => announced = <<>>)
  BY DEF RequestsInv, Up, BeforeAnnouncing
<1>2. /\ Len(announced') = Len(announced) + 1
      /\ \A i \in DOMAIN announced' :
            \/ i \in DOMAIN announced /\ announced'[i] = announced[i]
            \/ announced'[i] = Request(event)
  BY <1>1, RequestType
<1>3. \A i \in DOMAIN announced' :
         /\ announced'[i].info_hash = metainfo.infodict
         /\ announced'[i].left = metainfo.total_length
  BY <1>1, <1>2 DEF RequestsInv, Request
<1>4. AnnouncesAgree'
  BY <1>3 DEF AnnouncesAgree
<1>5. at = "announce" => Len(announced') <= 1
  BY <1>1, <1>2
<1> QED BY <1>3, <1>4, <1>5

\* main's Metainfo does not change between the requests of a run.
LEMMA RequestsNext ==
    ASSUME SessionTypeOK, RequestsInv, AnnouncesAgree, [SessionNext]_allVars
    PROVE  RequestsInv' /\ AnnouncesAgree'
<1> USE DEF BeforeAnnouncing, Up, Saving, Parsing
<1>1. ASSUME NEW status \in Ended, End(status)
      PROVE  RequestsInv'
  <2>1. at' \notin Up
    BY <1>1 DEF End, Ended
  <2> QED BY <2>1 DEF RequestsInv
<1>2. Exit \/ Abort => RequestsInv' /\ AnnouncesAgree'
  BY <1>1, WaysToEnd DEF AnnouncesAgree
<1>3. CASE Start
  <2>1. announced' = <<>> /\ Len(<<>>) <= 1
    BY <1>3 DEF Start
  <2> QED BY <2>1 DEF RequestsInv, AnnouncesAgree
<1>4. CASE Startup \/ ReadFile \/ ParserStep \/ ParserThrows
  BY <1>2, <1>4 DEF Startup, ReadFile, ParserStep, ParserThrows, main, locals,
     history, RequestsInv, AnnouncesAgree
<1>5. CASE FillMetainfo
  <2>1. announced = <<>> /\ Len(<<>>) <= 1
    BY <1>5 DEF FillMetainfo, RequestsInv
  <2> QED BY <1>2, <1>5, <2>1
          DEF FillMetainfo, history, RequestsInv, AnnouncesAgree
<1>6. CASE CreateBitfield \/ FillBitfield \/ ReadBitfield
  BY <1>2, <1>6 DEF CreateBitfield, FillBitfield, ReadBitfield, locals,
     history, RequestsInv, AnnouncesAgree
<1>7. ASSUME NEW event \in {"started", "stopped"},
             NEW next \in {"checkResponse", "saveBitfield"},
             event = "started" <=> next = "checkResponse",
             event = "started" => at = "announce",
             event = "stopped" => at = "stop",
             makeGetRequest(event, next)
      PROVE  RequestsInv' /\ AnnouncesAgree'
  <2>1. announced' = Append(announced, Request(event))
    BY <1>7 DEF makeGetRequest
  <2>2. /\ AnnouncesAgree'
        /\ \A i \in DOMAIN announced' :
              /\ announced'[i].info_hash = metainfo.infodict
              /\ announced'[i].left = metainfo.total_length
        /\ at = "announce" => Len(announced') <= 1
    BY <1>7, <2>1, RequestAgrees
  <2>3. CASE End("failure")
    BY <1>1, <2>2, <2>3 DEF Ended
  <2>4. CASE at' = next /\ metainfo' = metainfo
    BY <1>7, <2>2, <2>4 DEF RequestsInv
  <2> QED BY <1>7, <2>3, <2>4 DEF makeGetRequest
<1>8. CASE AnnounceStarted
  BY <1>2, <1>7, <1>8 DEF AnnounceStarted
<1>9. CASE AnnounceStopped
  BY <1>7, <1>9 DEF AnnounceStopped
<1>10. CASE CheckResponse \/ HandleReply
  BY <1>2, <1>10 DEF CheckResponse, HandleReply, locals, history, RequestsInv,
     AnnouncesAgree
<1>11. CASE MakePeer \/ PeersMade \/ TryConnect \/ Connected
  BY <1>2, <1>11 DEF MakePeer, PeersMade, TryConnect, Connected, locals,
     history, RequestsInv, AnnouncesAgree
<1>12. CASE DeletePeer \/ PeersDeleted \/ TruncateBitfield
  BY <1>12 DEF DeletePeer, PeersDeleted, TruncateBitfield, locals, history,
     RequestsInv, AnnouncesAgree
<1>13. CASE WriteBitfield \/ Crash \/ OpenFails \/ WriteFails
  <2>1. CASE at' = "readBitfield" /\ UNCHANGED <<locals, announced>>
        /\ at \in {"openBitfield", "createBitfield"}
    BY <2>1 DEF locals, RequestsInv, AnnouncesAgree
  <2> QED BY <1>1, <1>13, <2>1
          DEF WriteBitfield, Crash, OpenFails, WriteFails, Ended,
              AnnouncesAgree
<1>14. CASE CtrlHandler \/ UNCHANGED allVars
  BY <1>14 DEF CtrlHandler, allVars, main, locals, history, RequestsInv,
     AnnouncesAgree
<1>15. CASE ReadFails
  BY <1>15 DEF ReadFails, history, RequestsInv, AnnouncesAgree
<1> QED BY <1>3, <1>4, <1>5, <1>6, <1>8, <1>9, <1>10, <1>11, <1>12, <1>13,
           <1>14, <1>15 DEF SessionNext, Run
-----------------------------------------------------------------------------
(* What the tracker was told, and what is in the bitfield file.            *)

\* One event more.
LEMMA EventAdded ==
    ASSUME SessionTypeOK, NEW event \in {"started", "stopped"},
           announced' = Append(announced, Request(event))
    PROVE  Events' = Append(Events, event)
<1>1. announced \in Seq(Requests) /\ Len(announced) \in Nat
      /\ DOMAIN announced = 1..Len(announced)
  BY LenProperties DEF SessionTypeOK
<1>2. Request(event) \in Requests /\ Request(event).event = event
  BY DEF Request, Requests, SessionTypeOK
<1>3. Events \in Seq({"started", "stopped"}) /\ Len(Events) = Len(announced)
  <2>1. \A i \in DOMAIN announced : announced[i].event \in {"started", "stopped"}
    <3>1. \A i \in DOMAIN announced : announced[i] \in Requests
      BY <1>1, ElementOfSeq
    <3>2. \A q \in Requests : q.event \in {"started", "stopped"}
      BY DEF Requests
    <3> QED BY <3>1, <3>2
  <2>2. Events \in [1..Len(announced) -> {"started", "stopped"}]
    BY <1>1, <2>1 DEF Events
  <2> QED BY <1>1, <2>2, SeqDef, LenProperties
<1>4. Append(Events, event) =
         [i \in 1..(Len(announced) + 1) |->
             IF i <= Len(announced) THEN announced[i].event ELSE event]
  BY <1>1, <1>3, AppendProperties, LenProperties DEF Events
<1>5. /\ DOMAIN announced' = 1..(Len(announced) + 1)
      /\ \A i \in 1..Len(announced) : announced'[i] = announced[i]
      /\ announced'[Len(announced) + 1] = Request(event)
  BY <1>1, <1>2, AppendProperties, LenProperties
<1>6. Events' = [i \in 1..(Len(announced) + 1) |->
                    IF i <= Len(announced) THEN announced[i].event ELSE event]
  BY <1>1, <1>2, <1>5 DEF Events
<1> QED BY <1>4, <1>6

\* What main tells the tracker is "started", then "stopped".
LEMMA EventsNext ==
    ASSUME SessionTypeOK, RequestsInv, EventsInv, [SessionNext]_allVars
    PROVE  EventsInv'
<1> USE DEF BetweenAnnounces, Saving
<1>1. ASSUME NEW status \in Ended \ {"success"}, End(status) PROVE EventsInv'
  BY <1>1 DEF End, Ended, EventsInv
<1>2. Exit \/ Abort => EventsInv'
  BY <1>1 DEF Exit, Abort, Ended
<1>3. CASE Startup \/ ReadFile \/ ParserThrows \/ FillMetainfo
  BY <1>2, <1>3 DEF Startup, ReadFile, ParserThrows, FillMetainfo, EventsInv
<1>4. CASE CreateBitfield \/ FillBitfield \/ ReadBitfield \/ Start
  BY <1>2, <1>4 DEF CreateBitfield, FillBitfield, ReadBitfield, Start, EventsInv
<1>5. CASE CheckResponse \/ HandleReply \/ MakePeer
  BY <1>2, <1>5 DEF CheckResponse, HandleReply, MakePeer, history, Events, EventsInv
<1>6. CASE PeersMade \/ TryConnect \/ Connected \/ DeletePeer \/ PeersDeleted
  BY <1>6 DEF PeersMade, TryConnect, Connected, DeletePeer, PeersDeleted, history,
     Events, EventsInv
<1>7. CASE AnnounceStarted
  <2>1. announced = <<>>
    BY <1>7 DEF AnnounceStarted, RequestsInv, BeforeAnnouncing
  <2>2. CASE makeGetRequest("started", "checkResponse")
    <3>1. Events' = Append(Events, "started")
      BY <2>2, EventAdded DEF makeGetRequest
    <3>2. Events = <<>>
      BY <2>1 DEF Events
    <3>3. Events' = <<"started">>
      BY <3>1, <3>2
    <3> QED BY <1>1, <2>2, <3>3 DEF makeGetRequest, Ended, EventsInv
  <2> QED BY <1>2, <1>7, <2>2 DEF AnnounceStarted
<1>8. CASE AnnounceStopped
  <2>1. Events' = Append(Events, "stopped") /\ Events = <<"started">>
    BY <1>8, EventAdded DEF AnnounceStopped, makeGetRequest, EventsInv
  <2>2. Events' = <<"started", "stopped">>
    <3> DEFINE S == {"started", "stopped"}
               s == Append(<<"started">>, "stopped")
               t == <<"started", "stopped">>
    <3>1. <<"started">> \in Seq(S) /\ Len(<<"started">>) = 1
      OBVIOUS
    <3>2. s \in Seq(S) /\ Len(s) = 2 /\ s[1] = "started" /\ s[2] = "stopped"
      BY <3>1, AppendProperties
    <3>3. t \in Seq(S) /\ Len(t) = 2 /\ t[1] = "started" /\ t[2] = "stopped"
      OBVIOUS
    <3>4. s = t
      <4> HIDE DEF s, t, S
      <4>1. \A i \in 1..Len(s) : s[i] = t[i]
        BY <3>2, <3>3
      <4> QED BY <3>2, <3>3, <4>1, SeqEqual
    <3> QED BY <2>1, <3>4
  <2>3. CASE /\ response' \in Replies /\ registered' = answered("stopped", response')
             /\ at' = "saveBitfield"
    BY <2>2, <2>3 DEF answered, EventsInv
  <2> QED BY <1>1, <1>8, <2>3 DEF AnnounceStopped, makeGetRequest, Ended
<1>9. CASE TruncateBitfield
  BY <1>9 DEF TruncateBitfield, locals, history, Events, EventsInv
<1>10. CASE WriteBitfield
  BY <1>10 DEF WriteBitfield, End, Events, EventsInv
<1>11. CASE OpenFails \/ ReadFails \/ WriteFails
  BY <1>11 DEF OpenFails, ReadFails, WriteFails, End, history, Events, EventsInv
<1>12. CASE Crash
  BY <1>1, <1>12 DEF Crash, Ended
<1>13. CASE ParserStep \/ CtrlHandler \/ UNCHANGED allVars
  BY <1>13 DEF ParserStep, CtrlHandler, allVars, main, locals, history, Events,
     EventsInv
<1> QED BY <1>3, <1>4, <1>5, <1>6, <1>7, <1>8, <1>9, <1>10, <1>11, <1>12, <1>13
        DEF SessionNext, Run

\* What a run knows of the bitfield file.
LEMMA FileNext ==
    ASSUME SessionTypeOK, FileInv, [SessionNext]_allVars
    PROVE  FileInv'
<1> USE DEF BetweenAnnounces, Saving
<1>1. ASSUME NEW status \in Ended \ {"success"}, End(status) PROVE FileInv'
  BY <1>1 DEF End, Ended, FileInv
<1>2. Exit \/ Abort => FileInv'
  BY <1>1 DEF Exit, Abort, Ended
<1>3. CASE Startup \/ ReadFile \/ ParserThrows \/ FillMetainfo \/ Start
  BY <1>2, <1>3 DEF Startup, ReadFile, ParserThrows, FillMetainfo, Start, locals, env,
     FileInv
<1>4. CASE CreateBitfield
  BY <1>2, <1>4 DEF CreateBitfield, File, locals, env, FileInv
<1>5. CASE FillBitfield
  BY <1>5 DEF FillBitfield, emptyFile, File, locals, env, FileInv
<1>6. CASE ReadBitfield
  BY <1>6 DEF ReadBitfield, disk, env, FileInv
<1>7. CASE AnnounceStarted \/ AnnounceStopped
  BY <1>1, <1>2, <1>7 DEF AnnounceStarted, AnnounceStopped, makeGetRequest, disk, env,
     Ended, FileInv
<1>8. CASE CheckResponse \/ HandleReply \/ MakePeer
  BY <1>2, <1>8 DEF CheckResponse, HandleReply, MakePeer, disk, locals, env, FileInv
<1>9. CASE PeersMade \/ TryConnect \/ Connected \/ DeletePeer \/ PeersDeleted
  BY <1>9 DEF PeersMade, TryConnect, Connected, DeletePeer, PeersDeleted, disk, locals,
     env, FileInv
<1>10. CASE TruncateBitfield
  BY <1>10 DEF TruncateBitfield, File, locals, env, FileInv
<1>11. CASE WriteBitfield
  BY <1>11 DEF WriteBitfield, End, File, FileInv
<1>12. CASE OpenFails \/ WriteFails
  <2>1. faults' # 0
    BY <1>12 DEF OpenFails, WriteFails, SessionTypeOK
  <2> QED BY <1>12, <2>1 DEF OpenFails, WriteFails, End, FileInv
<1>13. CASE Crash
  BY <1>1, <1>13 DEF Crash, Ended
<1>14. CASE ParserStep \/ CtrlHandler \/ UNCHANGED allVars
  BY <1>14 DEF ParserStep, CtrlHandler, allVars, main, disk, locals, env, FileInv
<1>15. CASE ReadFails
  <2>1. faults' # 0 /\ readFailed' = TRUE /\ bitfieldFile' = bitfieldFile
        /\ at' = "announce"
    BY <1>15 DEF ReadFails, disk, SessionTypeOK
  <2>2. bitfieldFile.bytes \in Seq(Byte)
    BY FileBytes DEF SessionTypeOK
  <2>3. PICK n \in 0..(Len(bitfieldFile.bytes) - 1) :
           bitfield' = SubSeq(bitfieldFile.bytes, 1, n)
    BY <1>15 DEF ReadFails
  <2>4. n \in 0..Len(bitfieldFile.bytes)
    BY <2>2, LenProperties
  <2> QED BY <2>1, <2>3, <2>4 DEF FileInv
<1> QED BY <1>3, <1>4, <1>5, <1>6, <1>7, <1>8, <1>9, <1>10, <1>11, <1>12, <1>13, <1>14,
           <1>15 DEF SessionNext, Run
-----------------------------------------------------------------------------
(* The pointers that main follows without looking at them.                 *)

\* The parser's steps do not change its buffer; what hands a root back is
\* ReturnRoot.
LEMMA ParserKeeps ==
    ASSUME Parser
    PROVE  /\ buf' = buf /\ parses' = parses
           /\ pc' = "idle" => ReturnRoot
BY DEF Parser, parseArbitrary, parseInteger, extractString, parseList,
   parseDictionary, ArbitraryAtEnd, ArbitraryBadChar, StartInteger,
   StartParseString, StartString, StartList, StartDictionary, ConsumePastEnd,
   IntegerChar, IntegerLateMinus, IntegerEnd, LengthDigit, LengthBadChar,
   LengthColon, BodyChar, StringEnd, KeyEnd, ListTruncated, ListNext, ListEnd,
   LengthNotInteger, LengthWild, DictTruncated, DictNext, DictEnd, ReturnRoot,
   ReturnsTo, ThrowUnexpected, Failed, Exceptions

\* What the tracker's list holds are objects of the memory manager.
LEMMA PeersAreObjects ==
    ASSUME TypeOK, HeapForest, NoWildPointer, pc = "idle",
           HasTyped(ret, PeersKey, "BList"),
           peers' = heap[At(ret, PeersKey)].listVal
    PROVE  \A i \in DOMAIN peers' : peers'[i] \in DOMAIN heap
<1> DEFINE o == heap[At(ret, PeersKey)]
<1>1. At(ret, PeersKey) \in DOMAIN heap /\ o.listVal \in Seq(Nat)
      /\ DOMAIN heap = 1..Len(heap) /\ Len(heap) \in Nat
  BY TypedMember, LenProperties DEF HasTyped, TypeOK
<1> SUFFICES ASSUME NEW i \in DOMAIN peers' PROVE peers'[i] \in DOMAIN heap
  OBVIOUS
<1>2. peers'[i] \in Children(o) /\ peers'[i] \in Nat
  BY <1>1, ElementOfSeq, LenProperties DEF Children
<1>3. peers'[i] # Wild
  BY <1>1, <1>2 DEF NoWildPointer, Failed, Exceptions
<1>4. peers'[i] <= Len(heap)
  BY <1>1, <1>2, <1>3 DEF HeapForest
<1> QED BY <1>1, <1>2, <1>3, <1>4 DEF Wild

\* ReplyInv is preserved by every step.
LEMMA ReplyNext ==
    ASSUME IInv, IInv', ReplyInv, [SessionNext]_allVars
    PROVE  ReplyInv'
<1>1. ASSUME NEW status \in Ended, End(status) PROVE ReplyInv'
  BY <1>1 DEF End, Ended, ReplyInv, ReplyValid
<1>2. Exit \/ Abort => ReplyInv'
  BY <1>1, WaysToEnd
<1>3. CASE Start \/ Startup \/ ReadFile \/ ParserThrows
  BY <1>2, <1>3 DEF Start, Startup, ReadFile, ParserThrows, ReplyInv, ReplyValid
<1>4. CASE FillMetainfo \/ CreateBitfield \/ FillBitfield \/ ReadBitfield
           \/ ReadFails
  BY <1>2, <1>4 DEF FillMetainfo, CreateBitfield, FillBitfield, ReadBitfield,
     ReadFails, ReplyInv, ReplyValid
<1>5. CASE ParserStep
  <2>1. at' = at /\ peers' = peers /\ at \in Parsing /\ Parser
    BY <1>5 DEF ParserStep, main, locals
  <2>2. buf' = buf /\ parses' = parses
    BY <2>1, ParserKeeps
  <2> SUFFICES ASSUME at = "parseReply", pc' = "idle" PROVE ret' \in DOMAIN heap'
    BY <2>1, <2>2 DEF Parsing, ReplyInv, ReplyValid
  <2>3. pc = "return" /\ ret' = ret /\ heap' = heap
    BY <2>1, ParserKeeps DEF ReturnRoot
  <2>4. ret' # Wild
    BY <2>2 DEF IInv, WildRootOnlyIfEmpty, ReplyInv
  <2> QED BY <2>3, <2>4 DEF IInv, RetInv
<1>6. CASE AnnounceStarted \/ AnnounceStopped
  <2>1. "failure" \in Ended
    BY DEF Ended
  <2> QED BY <1>1, <1>2, <1>6, <2>1 DEF AnnounceStarted, AnnounceStopped,
     makeGetRequest, ReplyInv, ReplyValid
<1>7. CASE CheckResponse
  <2>1. CASE /\ response # <<>> /\ parseBencodedString /\ buf' = response
             /\ at' = "parseReply"
    <3>1. parses' > 0
      BY <2>1 DEF parseBencodedString, IInv, TypeOK
    <3> QED BY <2>1, <3>1 DEF parseBencodedString, ReplyInv, ReplyValid
  <2> QED BY <1>2, <1>7, <2>1 DEF CheckResponse
<1>8. CASE HandleReply
  <2>1. CASE /\ UsableReply /\ peers' = heap[At(ret, PeersKey)].listVal
             /\ at' = "makePeers" /\ heap' = heap
    <3>1. \A i \in DOMAIN peers' : peers'[i] \in DOMAIN heap
      BY <1>8, <2>1, PeersAreObjects DEF HandleReply, UsableReply, IInv
    <3> QED BY <2>1, <3>1 DEF ReplyInv, ReplyValid
  <2> QED BY <1>2, <1>8, <2>1 DEF HandleReply, vars
<1>9. CASE MakePeer \/ PeersMade \/ TryConnect \/ Connected
  BY <1>2, <1>9 DEF MakePeer, PeersMade, TryConnect, Connected, vars, locals,
     ReplyInv, ReplyValid
<1>10. CASE DeletePeer \/ PeersDeleted \/ TruncateBitfield
  BY <1>10 DEF DeletePeer, PeersDeleted, TruncateBitfield, vars, locals,
     ReplyInv, ReplyValid
<1>11. CASE WriteBitfield \/ Crash \/ OpenFails \/ WriteFails
  <2>1. {"success", "crashed"} \subseteq Ended
    BY DEF Ended
  <2> QED BY <1>1, <1>11, <2>1 DEF WriteBitfield, Crash, OpenFails, WriteFails,
     ReplyInv, ReplyValid
<1>12. CASE CtrlHandler \/ UNCHANGED allVars
  BY <1>12 DEF CtrlHandler, allVars, main, vars, locals, ReplyInv, ReplyValid
<1> QED BY <1>3, <1>4, <1>5, <1>6, <1>7, <1>8, <1>9, <1>10, <1>11, <1>12
        DEF SessionNext, Run
-----------------------------------------------------------------------------
\* Before the first run nothing was deleted or announced.
LEMMA SInvInit == SessionInit => SInv
<1> SUFFICES ASSUME SessionInit PROVE SInv
  OBVIOUS
<1> USE DEF SessionInit
<1>1. IInv
  BY IInvInit
<1>2. /\ <<>> \in Seq(Nat) /\ <<>> \in Seq(Byte) /\ <<>> \in Str
      /\ <<>> \in Seq(Requests) /\ Len(<<>>) = 0
  BY StrAppend
<1>3. SessionTypeOK
  <2>1. NoMetainfo \in [infodict : Str, total_length : Int64,
                        piece_length : 0..(Int64Modulus - 1), announce : Str]
    BY ZeroInRange, StrAppend, WidthAssumption DEF NoMetainfo
  <2>2. torrentFile \in [exists : BOOLEAN, bytes : Str]
    <3>1. ASSUME NEW t \in TorrentFiles, torrentFile = File(t)
          PROVE  torrentFile \in [exists : BOOLEAN, bytes : Str]
      <4>1. t \in Str
        BY <3>1, TextsAssumption, InputsAssumption
      <4> QED BY <3>1, <4>1 DEF File
    <3>2. CASE torrentFile = NoFile
      <4>1. <<>> \in Str
        BY StrAppend
      <4> QED BY <3>2, <4>1 DEF NoFile
    <3> QED BY <3>1, <3>2
  <2>3. bitfieldFile \in Files
    BY BitfieldFilesAssumption
  <2>4. runs \in 0..MaxRuns /\ faults \in 0..MaxFaults
        /\ bpeers \in 0..Len(peers) /\ break_early \in 0..6
    BY <1>2, BoundsAssumption
  <2>5. at \in Ended \cup Up
    BY DEF Ended
  <2>6. registered \in BOOLEAN /\ exitRequested \in BOOLEAN /\ readFailed \in BOOLEAN
    OBVIOUS
  <2> QED BY <1>2, <2>1, <2>2, <2>3, <2>4, <2>5, <2>6 DEF SessionTypeOK
<1>4. /\ CreateInv /\ DeletedInv /\ NoDoubleFree
      /\ RequestsInv /\ AnnouncesAgree
  BY <1>2 DEF CreateInv, DeletedInv, NoDoubleFree, RequestsInv,
     AnnouncesAgree, BeforeDeleting, BeforeAnnouncing, Up, Parsing
<1>5. EventsInv /\ FileInv /\ ReplyInv
  BY DEF EventsInv, FileInv, ReplyInv, ReplyValid, BetweenAnnounces, Saving
<1> QED BY <1>1, <1>3, <1>4, <1>5 DEF SInv

\* Every step of the client preserves SInv.
LEMMA SInvNext == SInv /\ IInv' /\ [SessionNext]_allVars => SInv'
<1> SUFFICES ASSUME SInv, IInv', [SessionNext]_allVars PROVE SInv'
  OBVIOUS
<1>1. TypeOK /\ HeapForest
  BY DEF SInv, IInv
<1> QED BY <1>1, SessionTypeNext, CreateNext, DeletedNext, RequestsNext,
           EventsNext, FileNext, ReplyNext DEF SInv

\* The inductive invariant of the client holds in every run, for every torrent
\* file, reply and bitfield file, with crashes at any point and a disk that fails.
THEOREM SessionInvariance == SessionSpec => []SInv
<1>1. SessionInit => SInv
  BY SInvInit
<1>2. SInv /\ IInv' /\ [SessionNext]_allVars => SInv'
  BY SInvNext
<1> QED BY <1>1, <1>2, ParserInSession, PTL DEF SessionSpec

\* main deletes no object twice, whatever list of peers a tracker sends.
THEOREM NeverDeletedTwice == SessionSpec => []NoDoubleFree
<1>1. SInv => NoDoubleFree
  BY DEF SInv
<1> QED BY <1>1, SessionInvariance, PTL

\* The requests of a run name the same torrent and the same amount left,
\* although the reply goes through the parser that holds both.
THEOREM RequestsAgree == SessionSpec => []AnnouncesAgree
<1>1. SInv => AnnouncesAgree
  BY DEF SInv
<1> QED BY <1>1, SessionInvariance, PTL

\* main's state keeps to its types; two requests and six connection attempts
\* are the most a run makes.
THEOREM SessionTypeCorrect == SessionSpec => []SessionTypeOK
<1>1. SInv => SessionTypeOK
  BY DEF SInv
<1> QED BY <1>1, SessionInvariance, PTL

\* What main dereferences without a check is an object of the memory manager:
\* the root of the reply, and every peer of its list.
THEOREM RepliesValid == SessionSpec => []ReplyValid
<1>1. SInv => ReplyValid
  BY DEF SInv, ReplyInv
<1> QED BY <1>1, SessionInvariance, PTL

\* A run that succeeds told the tracker that it started and that it stopped,
\* and unless the disk failed there is a bitfield file.
THEOREM SuccessAlwaysClean == SessionSpec => []SuccessIsClean
<1>1. SInv => SuccessIsClean
  BY DEF SInv, EventsInv, FileInv, SuccessIsClean
<1> QED BY <1>1, SessionInvariance, PTL
-----------------------------------------------------------------------------
(* The bitfield file from run to run.                                      *)

\* What the file will be, by main's place in the run, before and after a step.
LEMMA SavedFiles ==
    /\ at = "createBitfield" => savedFile = NoFile
    /\ at = "writeBitfield" => savedFile = File(bitfield)
    /\ at \notin {"createBitfield", "writeBitfield"} => savedFile = bitfieldFile
    /\ at' = "createBitfield" => savedFile' = NoFile
    /\ at' = "writeBitfield" => savedFile' = File(bitfield')
    /\ at' \notin {"createBitfield", "writeBitfield"} => savedFile' = bitfieldFile'
BY DEF savedFile

\* A file is created with no piece in it.
FileCreated ==
    /\ savedFile = NoFile
    /\ savedFile' = File(<<>>) \/ \E n \in Nat : savedFile' = emptyFile(n)

\* Only a part of what was to be saved is there, or is going to be.
FileCut ==
    /\ faults' # faults \/ readFailed
    /\ \E b \in Seq(Byte) : \E n \in 0..Len(b) :
           savedFile = File(b) /\ savedFile' = File(SubSeq(b, 1, n))

\* What any step does to the file.
LEMMA SavedStep ==
    ASSUME SessionTypeOK, CreateInv, FileInv, [SessionNext]_allVars
    PROVE  savedFile' = savedFile \/ FileCreated \/ FileCut
<1> USE SavedFiles
<1>1. ASSUME NEW status \in Ended, End(status), bitfieldFile' = bitfieldFile,
             at \notin {"createBitfield", "writeBitfield"}
      PROVE  savedFile' = savedFile
  BY <1>1 DEF End, Ended
<1>2. ASSUME Exit \/ Abort, at \notin {"createBitfield", "writeBitfield"}
      PROVE  savedFile' = savedFile
  BY <1>1, <1>2 DEF Exit, Abort, disk, Ended
<1>3. bitfieldFile \in Files /\ bitfield \in Seq(Byte)
  BY DEF SessionTypeOK
<1>4. CASE Start \/ Startup \/ ReadFile \/ ParserThrows \/ FillMetainfo
  BY <1>2, <1>4 DEF Start, Startup, ReadFile, ParserThrows, FillMetainfo, disk,
     Parsing, Ended
<1>5. CASE CreateBitfield
  <2>1. ~bitfieldFile.exists => bitfieldFile = NoFile
    BY <1>3, FileBytes DEF File
  <2> QED BY <1>2, <1>5, <2>1 DEF CreateBitfield
<1>6. CASE FillBitfield
  <2>1. bitfieldSize \in Nat
    BY <1>6, BitfieldSizeType DEF FillBitfield, CreateInv
  <2> QED BY <1>6, <2>1 DEF FillBitfield, FileCreated
<1>7. CASE ReadBitfield
  BY <1>7 DEF ReadBitfield, disk
<1>8. CASE AnnounceStarted \/ AnnounceStopped
  <2>1. "failure" \in Ended
    BY DEF Ended
  <2> QED BY <1>1, <1>2, <1>8, <2>1 DEF AnnounceStarted, AnnounceStopped,
     makeGetRequest, disk
<1>9. CASE CheckResponse \/ HandleReply \/ MakePeer
  BY <1>2, <1>9 DEF CheckResponse, HandleReply, MakePeer, disk
<1>10. CASE PeersMade \/ TryConnect \/ Connected \/ DeletePeer \/ PeersDeleted
  BY <1>10 DEF PeersMade, TryConnect, Connected, DeletePeer, PeersDeleted, disk
<1>11. CASE TruncateBitfield
  <2> DEFINE bytes == bitfieldFile.bytes
  <2>1. /\ savedFile = bitfieldFile /\ savedFile' = File(bitfield)
        /\ \/ bitfield = bytes
           \/ readFailed /\ \E n \in 0..Len(bytes) : bitfield = SubSeq(bytes, 1, n)
    BY <1>11 DEF TruncateBitfield, locals, FileInv
  <2>2. CASE bitfieldFile = NoFile
    <3>1. bytes = <<>> /\ Len(<<>>) = 0 /\ SubSeq(<<>>, 1, 0) = <<>>
      BY <2>2 DEF NoFile
    <3>2. bitfield = <<>>
      <4> HIDE DEF bytes
      <4> QED BY <2>1, <3>1
    <3> QED BY <2>1, <2>2, <3>2 DEF FileCreated
  <2>3. CASE bitfieldFile = File(bytes) /\ bitfield = bytes
    BY <2>1, <2>3
  <2>4. CASE bitfieldFile = File(bytes) /\ bitfield # bytes
    <3>1. bytes \in Seq(Byte)
      BY <1>3, FileBytes
    <3> HIDE DEF bytes
    <3> QED BY <2>1, <2>4, <3>1 DEF FileCut
  <2> QED BY <1>3, <2>2, <2>3, <2>4, FileBytes
<1>12. CASE WriteBitfield
  BY <1>12 DEF WriteBitfield, End, FileInv
<1>13. CASE OpenFails \/ ReadFails
  BY <1>1, <1>13 DEF OpenFails, ReadFails, disk, Ended
<1>14. ASSUME at = "writeBitfield", faults' # faults,
              at' \notin {"createBitfield", "writeBitfield"},
              NEW n \in 0..Len(bitfield), bitfieldFile' = File(SubSeq(bitfield, 1, n))
       PROVE  FileCut
  BY <1>3, <1>14 DEF FileCut
<1>15. CASE WriteFails
  <2>1. faults' # faults
    BY <1>15 DEF WriteFails, SessionTypeOK
  <2>2. CASE at = "createBitfield"
    BY <1>15, <2>2 DEF WriteFails, FileCreated
  <2>3. CASE at = "writeBitfield"
    BY <1>14, <1>15, <2>1, <2>3 DEF WriteFails, End
  <2> QED BY <1>15, <2>2, <2>3 DEF WriteFails
<1>16. CASE Crash
  <2>1. faults' # faults /\ at' = "crashed"
    BY <1>16 DEF Crash, End, SessionTypeOK
  <2>2. CASE at = "createBitfield"
    <3>1. bitfieldSize \in Nat
      BY <2>2, BitfieldSizeType DEF CreateInv
    <3> QED BY <1>16, <2>1, <2>2, <3>1 DEF Crash, FileCreated
  <2>3. CASE at = "writeBitfield"
    BY <1>14, <1>16, <2>1, <2>3 DEF Crash
  <2>4. CASE at \notin {"createBitfield", "writeBitfield"}
    BY <1>16, <2>1, <2>4 DEF Crash
  <2> QED BY <2>2, <2>3, <2>4
<1>17. CASE ParserStep \/ CtrlHandler \/ UNCHANGED allVars
  BY <1>17 DEF ParserStep, CtrlHandler, allVars, main, disk, locals
<1> QED BY <1>4, <1>5, <1>6, <1>7, <1>8, <1>9, <1>10, <1>11, <1>12, <1>13,
           <1>15, <1>16, <1>17 DEF SessionNext, Run

\* The store allows that.
LEMMA CreatedEmpty == FileCreated => Store!Create
<1> SUFFICES ASSUME FileCreated PROVE Store!Create
  OBVIOUS
<1>1. ~savedFile.exists
  BY DEF FileCreated, NoFile
<1>2. /\ savedFile'.exists
      /\ \A i \in DOMAIN savedFile'.bytes : savedFile'.bytes[i] = {}
  BY DEF FileCreated, emptyFile, File, Zeros
<1> QED BY <1>1, <1>2 DEF Store!Create

\* Whatever the torrent and the tracker's answers, only a kill, a write that
\* fails, or a read that failed in the same run, loses what is in the bitfield
\* file.
THEOREM OnlyFaultsLose == SessionSpec => KeptUnlessFault
<1>1. SInv /\ [SessionNext]_allVars
          => [faults' = faults /\ ~readFailed => [Store!Create]_savedFile]_allVars
  <2> SUFFICES ASSUME SInv, [SessionNext]_allVars, faults' = faults, ~readFailed,
                      savedFile' # savedFile
               PROVE  Store!Create
    OBVIOUS
  <2>1. FileCreated
    BY SavedStep DEF SInv, FileCut
  <2> QED BY <2>1, CreatedEmpty
<1> QED BY <1>1, SessionInvariance, PTL DEF SessionSpec, KeptUnlessFault

\* Where nothing is killed and no opening, reading or writing of the bitfield
\* file fails, main implements the store that a download is resumed from.
THEOREM StoreWithoutFaults ==
    ASSUME MaxFaults = 0
    PROVE  SessionSpec => BitfieldKept
<1>1. SessionInit => Store!Init
  BY DEF SessionInit, Store!Init, savedFile
<1>2. SInv /\ SInv' /\ [SessionNext]_allVars => [Store!Create]_savedFile
  <2> SUFFICES ASSUME SInv, SInv', [SessionNext]_allVars, savedFile' # savedFile
               PROVE  Store!Create
    OBVIOUS
  <2>1. faults' = faults /\ ~readFailed
    BY DEF SInv, SessionTypeOK, FileInv
  <2>2. FileCreated
    BY <2>1, SavedStep DEF SInv, FileCut
  <2> QED BY <2>2, CreatedEmpty
<1> QED BY <1>1, <1>2, SessionInvariance, PTL DEF SessionSpec, BitfieldKept, Store!Spec

\* A file without pieces holds none.
LEMMA NothingHeld ==
    /\ Held(File(<<>>)) = {}
    /\ \A n \in Nat : Held(emptyFile(n)) = {}
<1>1. Held(File(<<>>)) = {}
  BY DEF Held, File
<1>2. ASSUME NEW n \in Nat, NEW piece \in 0..(8 * n - 1)
      PROVE  ~isBitInBitfieldSet(Zeros(n), piece)
  <2>1. ByteOf(piece) \in 1..n
    BY <1>2 DEF ByteOf
  <2> QED BY <2>1 DEF isBitInBitfieldSet, Zeros
<1>3. ASSUME NEW n \in Nat PROVE Len(Zeros(n)) = n
  <2>1. Zeros(n) \in [1..n -> Byte]
    BY DEF Zeros, Byte
  <2> QED BY <2>1, SeqDef, LenProperties
<1> QED BY <1>1, <1>2, <1>3 DEF Held, emptyFile, File

\* A part of a file holds a part of its pieces.
LEMMA PartHeld ==
    ASSUME NEW b \in Seq(Byte), NEW n \in 0..Len(b)
    PROVE  Held(File(SubSeq(b, 1, n))) \subseteq Held(File(b))
<1>1. n \in Nat /\ n <= Len(b) /\ Len(b) \in Nat
  BY LenProperties
<1>2. Len(SubSeq(b, 1, n)) = n /\ \A i \in 1..n : SubSeq(b, 1, n)[i] = b[i]
  BY <1>1, SubSeqProperties
<1>3. ASSUME NEW piece \in 0..(8 * n - 1)
      PROVE  /\ piece \in 0..(8 * Len(b) - 1)
             /\ ByteOf(piece) \in 1..n
  BY <1>1, <1>3 DEF ByteOf
<1> QED BY <1>2, <1>3 DEF Held, File, isBitInBitfieldSet

\* Whatever is killed or fails when, the bitfield file never claims a piece
\* that it did not hold before.
THEOREM NeverForged == SessionSpec => NothingForged
<1>1. SInv /\ [SessionNext]_allVars
          => [Held(savedFile') \subseteq Held(savedFile)]_savedFile
  <2> SUFFICES ASSUME SInv, [SessionNext]_allVars, savedFile' # savedFile
               PROVE  Held(savedFile') \subseteq Held(savedFile)
    OBVIOUS
  <2>1. CASE FileCreated
    BY <2>1, NothingHeld DEF FileCreated
  <2>2. CASE FileCut
    BY <2>2, PartHeld DEF FileCut
  <2> QED BY <2>1, <2>2, SavedStep DEF SInv
<1> QED BY <1>1, SessionInvariance, PTL DEF SessionSpec, NothingForged
=============================================================================
