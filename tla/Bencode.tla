------------------------------ MODULE Bencode ------------------------------
(***************************************************************************)
(* The recursive-descent parser BParser of btor/bencode.cpp together with  *)
(* the BMemoryManager that owns every object it makes.                     *)
(*                                                                         *)
(* The C++ call stack is explicit: `stack' holds one frame per activation  *)
(* of parseList and parseDictionary, `pc' names the function in control,   *)
(* and one step is one character consumed, one dispatch, or one return of  *)
(* a value to the innermost container.  An exception ends the process      *)
(* (main catches none), so each exception is a final value of `pc'.        *)
(*                                                                         *)
(* main keeps one BParser and uses it twice, for the torrent file and for  *)
(* the tracker's reply: the members that parseBencodedString does not      *)
(* reset carry over from the first parse into the second.                  *)
(***************************************************************************)
EXTENDS BObject

CONSTANTS
    Inputs,         \* the buffers the parser may be given
    MaxParses,      \* bound: calls of parseBencodedString (main makes two)
    InfoKey,        \* the key "info", as a sequence of characters
    LengthKey,      \* the key "length"
    IntModulus,     \* number of values of the type int (2^32)
    Int64Modulus    \* number of values of int64_t and of long long (2^64)

ASSUME InputsAssumption == Inputs \subseteq Str
ASSUME KeysAssumption ==
    InfoKey \in Str /\ LengthKey \in Str /\ InfoKey # LengthKey
ASSUME WidthAssumption ==
    /\ IntModulus \in Nat /\ IntModulus >= 2 /\ IntModulus % 2 = 0
    /\ Int64Modulus \in Nat /\ Int64Modulus >= 2 /\ Int64Modulus % 2 = 0
ASSUME MaxParsesAssumption == MaxParses \in Nat

VARIABLES
    buf,                \* *_parseBuf, the characters being parsed
    cursor,             \* position in buf, counted from 0
    pc,                 \* the function in control, or the exception raised
    stack,              \* activations of parseList and parseDictionary
    ret,                \* pointer returned by the function that ended last
    caller,             \* extractString: the function it returns to
    stringlength,       \* extractString: characters still to be read
    rstring,            \* extractString: characters read so far
    intVal,             \* parseInteger: magnitude accumulated so far
    negativeNumber,     \* parseInteger: a leading '-' was seen
    firstChar,          \* parseInteger: nothing was read after the 'i'
    heap,               \* BMemoryManager::BObjects
    collectInfoDict,    \* consumeChar copies what it reads
    collectedInfoDict,  \* the characters copied so far
    collectedLength,    \* running total of the "length" values
    parses              \* calls of parseBencodedString so far

strVars     == <<caller, stringlength, rstring>>
intVars     == <<intVal, negativeNumber, firstChar>>
collectVars == <<collectInfoDict, collectedInfoDict, collectedLength>>
vars == <<buf, cursor, pc, stack, ret, strVars, intVars, heap, collectVars,
          parses>>

-----------------------------------------------------------------------------
(* The characters the parser looks at, by their codes.                     *)

chI == 105   \* 'i'
chL == 108   \* 'l'
chD == 100   \* 'd'
chE == 101   \* 'e'
chColon == 58
chMinus == 45
ch0 == 48
ch9 == 57

IsDigit(c) == ch0 <= c /\ c <= ch9

\* Arithmetic of a signed type with m values.  Overflow is undefined in C++;
\* the compilers the project builds with wrap around.
Wrap(n, m) == ((n + (m \div 2)) % m) - (m \div 2)
SignedRange(m) == (-(m \div 2))..((m \div 2) - 1)
Int64 == SignedRange(Int64Modulus)

\* value * 10 + (c - '0'), the accumulation step of both number readers.
PushDigit(n, c, m) == Wrap(n * 10 + (c - ch0), m)

Exceptions == {"BParserException", "out_of_range", "BTypeException"}

\* Ways a call of parseBencodedString ends without returning; "fault" is the
\* crash that reading through a wild pointer may cause.
Failed == Exceptions \cup {"fault"}
Running == {"parseArbitrary", "parseInteger", "stringLength", "stringBody",
            "return"}

AtEnd == cursor = Len(buf)
Cur   == buf[cursor + 1]
Top   == stack[Len(stack)]
Pop(s) == SubSeq(s, 1, Len(s) - 1)

\* An activation of parseList or parseDictionary.  valueFrom is a history
\* field: the cursor at which the value under curKey begins.
Frame(fn, p) == [fn |-> fn, bObj |-> p, curKey |-> <<>>, valueFrom |-> 0]

\* Mutant of consumeChar: an end marker is not copied.
consumeSkippingEnds(collecting) ==
    /\ ~AtEnd
    /\ cursor' = cursor + 1
    /\ collectedInfoDict' = IF collecting /\ Cur # chE
                            THEN Append(collectedInfoDict, Cur)
                            ELSE collectedInfoDict

\* consumeChar with the flag collectInfoDict equal to `collecting'; its
\* callers take the step that raises out_of_range (ConsumePastEnd) at the end.
consumeChar(collecting) ==
    /\ ~AtEnd
    /\ cursor' = cursor + 1
    /\ collectedInfoDict' = IF collecting
                            THEN Append(collectedInfoDict, Cur)
                            ELSE collectedInfoDict

\* throw BParserException(c): the constructor adds c to the address of a string
\* literal and copies what it finds there, beyond the literal's end, so that
\* the process may crash before the exception is thrown.
ThrowUnexpected == pc' \in {"BParserException", "fault"}

\* BMemoryManager::getNewBObject: the new object is the last of the vector.
getNewBObject(o) == heap' = Append(heap, o)
NewPointer == Len(heap) + 1

\* Entering extractString on behalf of fn.
StartString(fn) ==
    /\ pc' = "stringLength"
    /\ caller' = fn
    /\ stringlength' = 0
    /\ rstring' = <<>>
-----------------------------------------------------------------------------
(* Actions                                                                 *)

\* BParser() and BMemoryManager(): the constructors main runs at start-up.
Init ==
    /\ buf = <<>>
    /\ cursor = 0
    /\ pc = "idle"
    /\ stack = <<>>
    /\ ret = Wild
    /\ caller = "parseString" /\ stringlength = 0 /\ rstring = <<>>
    /\ intVal = 0 /\ negativeNumber = FALSE /\ firstChar = TRUE
    /\ heap = <<>>
    /\ collectInfoDict = FALSE
    /\ collectedInfoDict = <<>>
    /\ collectedLength = 0
    /\ parses = 0

\* A call of parseBencodedString: of the parser's members only the cursor,
\* the buffer and the memory manager are set.
parseBencodedString ==
    /\ pc = "idle"
    /\ parses < MaxParses
    /\ parses' = parses + 1
    /\ buf' \in Inputs
    /\ cursor' = 0
    /\ pc' = "parseArbitrary"
    /\ UNCHANGED <<stack, ret, strVars, intVars, heap, collectVars>>

\* parseArbitrary entered at the end of the buffer: the loop body is never
\* executed and control runs off the end of the function.
ArbitraryAtEnd ==
    /\ pc = "parseArbitrary"
    /\ AtEnd
    /\ pc' = "return"
    /\ ret' = Wild
    /\ UNCHANGED <<buf, cursor, stack, strVars, intVars, heap, collectVars,
                   parses>>

\* Mutant of ArbitraryBadChar: no throw, control leaves the loop.
ArbitrarySkipsBadChar ==
    /\ pc = "parseArbitrary"
    /\ ~AtEnd
    /\ Cur \notin {chI, chL, chD} /\ ~IsDigit(Cur)
    /\ pc' = "return" /\ ret' = Wild
    /\ UNCHANGED <<buf, cursor, stack, strVars, intVars, heap, collectVars,
                   parses>>

ArbitraryBadChar ==
    /\ pc = "parseArbitrary"
    /\ ~AtEnd
    /\ Cur \notin {chI, chL, chD} /\ ~IsDigit(Cur)
    /\ ThrowUnexpected
    /\ UNCHANGED <<buf, cursor, stack, ret, strVars, intVars, heap,
                   collectVars, parses>>

\* Dispatch to parseInteger, up to its loop.
StartInteger ==
    /\ pc = "parseArbitrary"
    /\ ~AtEnd /\ Cur = chI
    /\ consumeChar(collectInfoDict)
    /\ intVal' = 0 /\ negativeNumber' = FALSE /\ firstChar' = TRUE
    /\ pc' = "parseInteger"
    /\ UNCHANGED <<buf, stack, ret, strVars, heap, collectInfoDict,
                   collectedLength, parses>>

\* Dispatch to parseString, which starts with extractString.
StartParseString ==
    /\ pc = "parseArbitrary"
    /\ ~AtEnd /\ IsDigit(Cur)
    /\ StartString("parseString")
    /\ UNCHANGED <<buf, cursor, stack, ret, intVars, heap, collectVars,
                   parses>>

\* Dispatch to parseList, up to the call that parses its first element.
StartList ==
    /\ pc = "parseArbitrary"
    /\ ~AtEnd /\ Cur = chL
    /\ consumeChar(collectInfoDict)
    /\ getNewBObject(NewBObject("BList"))
    /\ stack' = Append(stack, Frame("parseList", NewPointer))
    /\ UNCHANGED <<buf, pc, ret, strVars, intVars, collectInfoDict,
                   collectedLength, parses>>

\* Dispatch to parseDictionary, up to the call that extracts its first key.
StartDictionary ==
    /\ pc = "parseArbitrary"
    /\ ~AtEnd /\ Cur = chD
    /\ consumeChar(collectInfoDict)
    /\ getNewBObject(NewBObject("BDict"))
    /\ stack' = Append(stack, Frame("parseDictionary", NewPointer))
    /\ StartString("parseDictionary")
    /\ UNCHANGED <<buf, ret, intVars, collectInfoDict, collectedLength,
                   parses>>

\* consumeChar at the end of the buffer: vector::at raises std::out_of_range.
ConsumePastEnd ==
    /\ AtEnd
    /\ \/ pc \in {"parseInteger", "stringLength"}
       \/ pc = "stringBody" /\ stringlength # 0
    /\ pc' = "out_of_range"
    /\ UNCHANGED <<buf, cursor, stack, ret, strVars, intVars, heap,
                   collectVars, parses>>

\* Mutant of IntegerChar: a skipped character is peeked at, not consumed.
IntegerCharPeeks ==
    /\ pc = "parseInteger"
    /\ ~AtEnd /\ Cur # chE
    /\ Cur = chMinus => firstChar
    /\ IF IsDigit(Cur) THEN consumeChar(collectInfoDict)
                       ELSE UNCHANGED <<cursor, collectedInfoDict>>
    /\ negativeNumber' = (negativeNumber \/ Cur = chMinus)
    /\ intVal' = IF IsDigit(Cur) THEN PushDigit(intVal, Cur, Int64Modulus)
                                 ELSE intVal
    /\ firstChar' = FALSE
    /\ UNCHANGED <<buf, pc, stack, ret, strVars, heap, collectInfoDict,
                   collectedLength, parses>>

\* One turn of parseInteger's loop that neither ends it nor throws.  A
\* character that is no digit and no '-' is skipped.
IntegerChar ==
    /\ pc = "parseInteger"
    /\ ~AtEnd /\ Cur # chE
    /\ Cur = chMinus => firstChar
    /\ consumeChar(collectInfoDict)
    /\ negativeNumber' = (negativeNumber \/ Cur = chMinus)
    /\ intVal' = IF IsDigit(Cur) THEN PushDigit(intVal, Cur, Int64Modulus)
                                 ELSE intVal
    /\ firstChar' = FALSE
    /\ UNCHANGED <<buf, pc, stack, ret, strVars, heap, collectInfoDict,
                   collectedLength, parses>>

IntegerLateMinus ==
    /\ pc = "parseInteger"
    /\ ~AtEnd /\ Cur = chMinus /\ ~firstChar
    /\ consumeChar(collectInfoDict)
    /\ ThrowUnexpected
    /\ UNCHANGED <<buf, stack, ret, strVars, intVars, heap, collectInfoDict,
                   collectedLength, parses>>

\* Mutant of IntegerEnd: the sign is dropped.
IntegerEndUnsigned ==
    /\ pc = "parseInteger"
    /\ ~AtEnd /\ Cur = chE
    /\ consumeChar(collectInfoDict)
    /\ getNewBObject(NewBInteger(intVal))
    /\ ret' = NewPointer
    /\ pc' = "return"
    /\ UNCHANGED <<buf, stack, strVars, intVars, collectInfoDict,
                   collectedLength, parses>>

IntegerEnd ==
    /\ pc = "parseInteger"
    /\ ~AtEnd /\ Cur = chE
    /\ consumeChar(collectInfoDict)
    /\ intVal' = IF negativeNumber THEN Wrap(-intVal, Int64Modulus)
                                   ELSE intVal
    /\ getNewBObject(NewBInteger(intVal'))
    /\ ret' = NewPointer
    /\ pc' = "return"
    /\ UNCHANGED <<buf, stack, strVars, negativeNumber, firstChar,
                   collectInfoDict, collectedLength, parses>>

\* One turn of extractString's first loop.
LengthDigit ==
    /\ pc = "stringLength"
    /\ ~AtEnd /\ IsDigit(Cur)
    /\ consumeChar(collectInfoDict)
    /\ stringlength' = PushDigit(stringlength, Cur, IntModulus)
    /\ UNCHANGED <<buf, pc, stack, ret, caller, rstring, intVars, heap,
                   collectInfoDict, collectedLength, parses>>

LengthBadChar ==
    /\ pc = "stringLength"
    /\ ~AtEnd /\ Cur # chColon /\ ~IsDigit(Cur)
    /\ consumeChar(collectInfoDict)
    /\ ThrowUnexpected
    /\ UNCHANGED <<buf, stack, ret, strVars, intVars, heap, collectInfoDict,
                   collectedLength, parses>>

LengthColon ==
    /\ pc = "stringLength"
    /\ ~AtEnd /\ Cur = chColon
    /\ consumeChar(collectInfoDict)
    /\ pc' = "stringBody"
    /\ UNCHANGED <<buf, stack, ret, strVars, intVars, heap, collectInfoDict,
                   collectedLength, parses>>

\* One turn of extractString's second loop.
BodyChar ==
    /\ pc = "stringBody"
    /\ stringlength # 0
    /\ consumeChar(collectInfoDict)
    /\ rstring' = Append(rstring, Cur)
    /\ stringlength' = Wrap(stringlength - 1, IntModulus)
    /\ UNCHANGED <<buf, pc, stack, ret, caller, intVars, heap,
                   collectInfoDict, collectedLength, parses>>

\* extractString returns to parseString, which makes the object.
StringEnd ==
    /\ pc = "stringBody"
    /\ stringlength = 0
    /\ caller = "parseString"
    /\ getNewBObject(NewBString(rstring))
    /\ ret' = NewPointer
    /\ pc' = "return"
    /\ UNCHANGED <<buf, cursor, stack, strVars, intVars, collectVars, parses>>

\* extractString returns to parseDictionary, which goes on to the value.
KeyEnd ==
    /\ pc = "stringBody"
    /\ stringlength = 0
    /\ caller = "parseDictionary"
    /\ stack' = [stack EXCEPT ![Len(stack)].curKey = rstring,
                              ![Len(stack)].valueFrom = cursor]
    /\ collectInfoDict' = (collectInfoDict \/ rstring = InfoKey)
    /\ pc' = "parseArbitrary"
    /\ UNCHANGED <<buf, cursor, ret, strVars, intVars, heap,
                   collectedInfoDict, collectedLength, parses>>
-----------------------------------------------------------------------------
(* A value comes back to the innermost container, which stores it and then *)
(* peeks at the next character: at the end of the buffer vector::at throws,*)
(* an 'e' is consumed and the container returned, anything else starts the *)
(* next turn of the loop.                                                  *)

ReturnsTo(fn) == pc = "return" /\ stack # <<>> /\ Top.fn = fn

StoreElement ==
    heap' = [heap EXCEPT ![Top.bObj] = pushBack(@, ret)]

\* Mutant of ListTruncated: peekChar does not throw at the end.
ListGoesOn ==
    /\ ReturnsTo("parseList")
    /\ AtEnd
    /\ StoreElement
    /\ pc' = "parseArbitrary"
    /\ UNCHANGED <<buf, cursor, stack, ret, strVars, intVars, collectVars,
                   parses>>

ListTruncated ==
    /\ ReturnsTo("parseList")
    /\ AtEnd
    /\ StoreElement
    /\ pc' = "out_of_range"
    /\ UNCHANGED <<buf, cursor, stack, ret, strVars, intVars, collectVars,
                   parses>>

ListNext ==
    /\ ReturnsTo("parseList")
    /\ ~AtEnd /\ Cur # chE
    /\ StoreElement
    /\ pc' = "parseArbitrary"
    /\ UNCHANGED <<buf, cursor, stack, ret, strVars, intVars, collectVars,
                   parses>>

\* Mutant of ListEnd: the last element is returned in place of the list.
ListEndReturnsElement ==
    /\ ReturnsTo("parseList")
    /\ ~AtEnd /\ Cur = chE
    /\ StoreElement
    /\ consumeChar(collectInfoDict)
    /\ stack' = Pop(stack)
    /\ UNCHANGED <<buf, pc, ret, strVars, intVars, collectInfoDict,
                   collectedLength, parses>>

ListEnd ==
    /\ ReturnsTo("parseList")
    /\ ~AtEnd /\ Cur = chE
    /\ StoreElement
    /\ consumeChar(collectInfoDict)
    /\ stack' = Pop(stack)
    /\ ret' = Top.bObj
    /\ UNCHANGED <<buf, pc, strVars, intVars, collectInfoDict,
                   collectedLength, parses>>

\* Mutant of StoreValue: collecting is never switched off.
StoreValueCollecting ==
    /\ Top.curKey = LengthKey => ret # Wild /\ heap[ret].type = "BInteger"
    /\ heap' = [heap EXCEPT ![Top.bObj] = addKeyValue(@, Top.curKey, ret)]
    /\ collectedLength' =
           IF Top.curKey = LengthKey
           THEN Wrap(collectedLength + heap[ret].intVal, Int64Modulus)
           ELSE collectedLength
    /\ UNCHANGED collectInfoDict

\* Mutant of StoreValue: the last length replaces the total.
StoreValueLastLength ==
    /\ Top.curKey = LengthKey => ret # Wild /\ heap[ret].type = "BInteger"
    /\ heap' = [heap EXCEPT ![Top.bObj] = addKeyValue(@, Top.curKey, ret)]
    /\ collectInfoDict' = (collectInfoDict /\ Top.curKey # InfoKey)
    /\ collectedLength' = IF Top.curKey = LengthKey THEN heap[ret].intVal
                                                   ELSE collectedLength

\* parseDictionary clears the flag after the value of any key "info", and
\* adds the value of any key "length" to the running total.
StoreValue ==
    /\ Top.curKey = LengthKey => ret # Wild /\ heap[ret].type = "BInteger"
    /\ heap' = [heap EXCEPT ![Top.bObj] = addKeyValue(@, Top.curKey, ret)]
    /\ collectInfoDict' = (collectInfoDict /\ Top.curKey # InfoKey)
    /\ collectedLength' =
           IF Top.curKey = LengthKey
           THEN Wrap(collectedLength + heap[ret].intVal, Int64Modulus)
           ELSE collectedLength

\* getInt on a value of another type.
LengthNotInteger ==
    /\ ReturnsTo("parseDictionary")
    /\ Top.curKey = LengthKey
    /\ ret # Wild /\ heap[ret].type # "BInteger"
    /\ pc' = "BTypeException"
    /\ UNCHANGED <<buf, cursor, stack, ret, strVars, intVars, heap,
                   collectVars, parses>>

\* getInt through a wild pointer: a crash, a type tag that happens not to be
\* BInteger, or an arbitrary integer, after which the peek throws.
LengthWild ==
    /\ ReturnsTo("parseDictionary")
    /\ Top.curKey = LengthKey
    /\ ret = Wild
    /\ \/ /\ pc' \in {"fault", "BTypeException"}
          /\ UNCHANGED <<heap, collectedLength>>
       \/ /\ pc' = "out_of_range"
          /\ heap' = [heap EXCEPT
                        ![Top.bObj] = addKeyValue(@, Top.curKey, ret)]
          /\ collectedLength' \in Int64
    /\ UNCHANGED <<buf, cursor, stack, ret, strVars, intVars,
                   collectInfoDict, collectedInfoDict, parses>>

DictTruncated ==
    /\ ReturnsTo("parseDictionary")
    /\ AtEnd
    /\ StoreValue
    /\ pc' = "out_of_range"
    /\ UNCHANGED <<buf, cursor, stack, ret, strVars, intVars,
                   collectedInfoDict, parses>>

DictNext ==
    /\ ReturnsTo("parseDictionary")
    /\ ~AtEnd /\ Cur # chE
    /\ StoreValue
    /\ StartString("parseDictionary")
    /\ UNCHANGED <<buf, cursor, stack, ret, intVars, collectedInfoDict,
                   parses>>

\* Mutant of DictEnd: the end of the dictionary is collected as well.
DictEndCollectsEnd ==
    /\ ReturnsTo("parseDictionary")
    /\ ~AtEnd /\ Cur = chE
    /\ StoreValue
    /\ consumeChar(collectInfoDict)
    /\ stack' = Pop(stack)
    /\ ret' = Top.bObj
    /\ UNCHANGED <<buf, pc, strVars, intVars, parses>>

DictEnd ==
    /\ ReturnsTo("parseDictionary")
    /\ ~AtEnd /\ Cur = chE
    /\ StoreValue
    /\ consumeChar(collectInfoDict')
    /\ stack' = Pop(stack)
    /\ ret' = Top.bObj
    /\ UNCHANGED <<buf, pc, strVars, intVars, parses>>

\* The outermost parseArbitrary returns the root to parseBencodedString.
ReturnRoot ==
    /\ pc = "return"
    /\ stack = <<>>
    /\ pc' = "idle"
    /\ UNCHANGED <<buf, cursor, stack, ret, strVars, intVars, heap,
                   collectVars, parses>>
-----------------------------------------------------------------------------
parseArbitrary ==
    \/ ArbitraryAtEnd \/ ArbitraryBadChar \/ StartInteger
    \/ StartParseString \/ StartList \/ StartDictionary

parseInteger == IntegerChar \/ IntegerLateMinus \/ IntegerEnd

extractString ==
    LengthDigit \/ LengthBadChar \/ LengthColon \/ BodyChar \/ StringEnd

parseList == ListTruncated \/ ListNext \/ ListEnd

parseDictionary ==
    \/ KeyEnd \/ LengthNotInteger \/ LengthWild
    \/ DictTruncated \/ DictNext \/ DictEnd

\* What the parser does on its own once it is called.
Parser ==
    \/ parseArbitrary \/ parseInteger \/ extractString \/ parseList
    \/ parseDictionary \/ ConsumePastEnd \/ ReturnRoot

Next == Parser \/ parseBencodedString

Spec == Init /\ [][Next]_vars

\* The parser runs in main's only thread and waits for nothing.
FairSpec == Spec /\ WF_vars(Parser)
-----------------------------------------------------------------------------
(* Properties                                                              *)

Frames == [fn : {"parseList", "parseDictionary"}, bObj : Nat, curKey : Str,
           valueFrom : Nat]

\* Type invariant.  The cursor never passes the end of the buffer, and each
\* integer keeps to the width of its C++ type.
TypeOK ==
    /\ buf \in Str
    /\ cursor \in 0..Len(buf)
    /\ pc \in {"idle"} \cup Running \cup Failed
    /\ stack \in Seq(Frames)
    /\ ret \in Nat
    /\ caller \in {"parseString", "parseDictionary"}
    /\ stringlength \in SignedRange(IntModulus)
    /\ rstring \in Str
    /\ intVal \in Int64
    /\ negativeNumber \in BOOLEAN
    /\ firstChar \in BOOLEAN
    /\ heap \in Seq(BObjects(Int64))
    /\ collectInfoDict \in BOOLEAN
    /\ collectedInfoDict \in Str
    /\ collectedLength \in Int64
    /\ parses \in 0..MaxParses

\* The objects of the memory manager form a forest: a container was made
\* before anything it holds, no object is held twice, and no pointer leads
\* outside the manager's vector.  main's `delete(p)' over the tracker's peers
\* and the recursive operator<< rely on it (getNewBObject, pushBack and
\* addKeyValue as parseList and parseDictionary call them).
HeapForest ==
    /\ \A p \in DOMAIN heap : SlotsDistinct(heap[p])
    /\ \A p \in DOMAIN heap : \A c \in Children(heap[p]) :
           c # Wild => p < c /\ c <= Len(heap)
    /\ \A p, q \in DOMAIN heap :
           p # q => Children(heap[p]) \cap Children(heap[q]) = {}

\* A pointer left over by a parseArbitrary that ran off its end is never
\* visible to the caller inside a tree: it is stored only when the peekChar
\* that follows throws.
NoWildPointer ==
    pc \notin Failed => \A p \in DOMAIN heap : Wild \notin Children(heap[p])

\* parseBencodedString hands back a wild root for an empty buffer only.
WildRootOnlyIfEmpty ==
    pc = "idle" /\ parses > 0 /\ ret = Wild => buf = <<>>

\* Each activation on the stack holds an object of its own kind, so the
\* BTypeException of pushBack and of addKeyValue is never raised by the parser.
ContainersMatchFrames ==
    \A i \in DOMAIN stack :
        /\ stack[i].bObj \in DOMAIN heap
        /\ heap[stack[i].bObj].type =
               IF stack[i].fn = "parseList" THEN "BList" ELSE "BDict"

EndsWith(s, t) ==
    /\ Len(t) <= Len(s)
    /\ \A k \in 1..Len(t) : s[Len(s) - Len(t) + k] = t[k]

\* The characters of the value the activation f has parsed so far.
RawValue(f) == SubSeq(buf, f.valueFrom + 1, cursor)

\* Whenever parseDictionary switches collecting off, what was collected ends
\* with exactly the characters of the value that follows the key "info": none
\* is missing and the delimiters around the value are not included.
InfoDictClosed ==
    [][collectInfoDict /\ ~collectInfoDict'
          => EndsWith(collectedInfoDict', RawValue(Top))]_vars

\* The value under "length" in the dictionary at p, for objects h.
LengthIn(h, p) ==
    IF checkIfHasKey(h[p], LengthKey)
    THEN h[getByKey(h[p], LengthKey)].intVal ELSE 0

\* The lengths of all dictionaries together.
LengthSum(h) ==
    LET sum[p \in 0..Len(h)] == IF p = 0 THEN 0 ELSE sum[p - 1] + LengthIn(h, p)
    IN sum[Len(h)]

\* A value comes back for a second key "length" of its dictionary.
RepeatsLength ==
    /\ ReturnsTo("parseDictionary") /\ Top.curKey = LengthKey
    /\ checkIfHasKey(heap[Top.bObj], LengthKey)

\* As long as no dictionary repeats the key "length", getCollectedLength is the
\* sum of what the dictionaries hold under it, in the arithmetic of a long
\* long, over all calls and wherever these dictionaries are.  A value that is
\* repeated is counted by parseDictionary and dropped by addKeyValue.
LengthTotal ==
    []~RepeatsLength =>
        [](pc \notin Failed =>
               collectedLength = Wrap(LengthSum(heap), Int64Modulus))

\* Every call of parseBencodedString returns or throws, for every buffer: a
\* negative (overflowed) string length does not keep extractString looping.
ParseTerminates == pc \in Running ~> pc \notin Running
-----------------------------------------------------------------------------
(* The inductive invariant behind the properties: what relates the stack,  *)
(* the value being returned and the heap between two characters.           *)

\* An activation holds an object made after those of the activations that
\* called it, began its value at a character already read, and its object is
\* not yet part of any other.
StackInv ==
    /\ \A i \in DOMAIN stack : stack[i].valueFrom <= cursor
    /\ \A i, j \in DOMAIN stack : i < j => stack[i].bObj < stack[j].bObj
    /\ \A i \in DOMAIN stack : \A p \in DOMAIN heap :
           stack[i].bObj \notin Children(heap[p])

\* A pointer on its way to the innermost container is wild only at the end of
\* the buffer; any other is newer than the container and not yet held.
RetInv ==
    pc = "return" =>
        \/ ret = Wild /\ AtEnd
        \/ /\ ret \in DOMAIN heap
           /\ \A i \in DOMAIN stack : stack[i].bObj < ret
           /\ \A p \in DOMAIN heap : ret \notin Children(heap[p])

KindsSeparate ==
    \A p \in DOMAIN heap :
        /\ heap[p].type # "BList" => heap[p].listVal = <<>>
        /\ heap[p].type # "BDict" => heap[p].dictVal = {}

RootInv ==
    /\ pc = "idle" => stack = <<>>
    /\ stack = <<>> /\ pc = "parseArbitrary" => cursor = 0
    /\ stack = <<>> /\ pc = "return" /\ ret = Wild => cursor = 0

\* extractString is reading a key for the innermost activation.
ReadingKey ==
    pc \in {"stringLength", "stringBody"} /\ caller = "parseDictionary"

KeyInv == ReadingKey => stack # <<>> /\ Top.fn = "parseDictionary"

\* Activation i is parsing the value under the key "info".
InInfo(i) ==
    /\ stack[i].fn = "parseDictionary" /\ stack[i].curKey = InfoKey
    /\ ~(ReadingKey /\ i = Len(stack))

\* While collecting, what was collected ends with the characters read since
\* the value of the innermost "info" began.
InfoInv ==
    pc \notin Failed /\ collectInfoDict =>
        \A i \in DOMAIN stack :
            InInfo(i) /\ (\A j \in DOMAIN stack : j > i => ~InInfo(j))
                => EndsWith(collectedInfoDict, RawValue(stack[i]))

IInv ==
    /\ TypeOK /\ ContainersMatchFrames /\ HeapForest /\ NoWildPointer
    /\ WildRootOnlyIfEmpty
    /\ StackInv /\ RetInv /\ KindsSeparate /\ RootInv /\ KeyInv /\ InfoInv
=============================================================================
