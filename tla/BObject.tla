------------------------------ MODULE BObject ------------------------------
(***************************************************************************)
(* The bencoded object of btor/bencode.h and btor/bobject.cpp: one class   *)
(* with a type tag and one member per kind of value, of which only the     *)
(* member the tag selects is meaningful.                                   *)
(*                                                                         *)
(* Objects live on the heap of a BMemoryManager and refer to one another   *)
(* by pointer.  A pointer is modelled by the position of the object in the *)
(* manager's vector BObjects, so every definition here is a pure operator  *)
(* on object records; the throwing accessors are a guard (the condition    *)
(* under which the call returns) and a result.                             *)
(***************************************************************************)
EXTENDS Integers, Sequences

\* char is signed in every build configuration of the project (MSVC).
Char == -128..127

\* std::string and the keys of std::map<std::string, BObject*>.
Str == Seq(Char)

\* enum class BObject_t; BNull is made by no code path of the client.
BObject_t == {"BString", "BInteger", "BList", "BDict"}

\* What a control path that runs off the end of a function returning a
\* pointer leaves in the return register: not the position of any object.
Wild == 0

\* The members of an object.  dictVal, a std::map, is the set of its
\* <<key, pointer>> pairs; ints is the range of the integer member.
BObjects(ints) ==
    [type : BObject_t, intVal : ints, stringVal : Str,
     listVal : Seq(Nat), dictVal : SUBSET (Str \X Nat)]

\* BObject(const BObject_t): an empty object of the given type.
NewBObject(t) ==
    [type |-> t, intVal |-> 0, stringVal |-> <<>>,
     listVal |-> <<>>, dictVal |-> {}]

\* BObject(int64_t) and BObject(std::string).
NewBInteger(n) == [NewBObject("BInteger") EXCEPT !.intVal = n]
NewBString(s)  == [NewBObject("BString") EXCEPT !.stringVal = s]

checkIfHasKey(o, key) == \E e \in o.dictVal : e[1] = key
getByKey(o, key) == (CHOOSE e \in o.dictVal : e[1] = key)[2]

\* pushBack, on an object whose type is BList.
pushBack(o, p) == [o EXCEPT !.listVal = Append(@, p)]

\* addKeyValue, on an object whose type is BDict.  std::map::insert leaves the
\* map alone when the key is already present: the first value wins.
addKeyValue(o, key, p) ==
    IF checkIfHasKey(o, key)
    THEN o
    ELSE [o EXCEPT !.dictVal = @ \cup {<<key, p>>}]

\* The pointers an object holds.
Children(o) ==
    {o.listVal[i] : i \in DOMAIN o.listVal} \cup {e[2] : e \in o.dictVal}

\* An object is a list or a dictionary but not both, and holds no pointer in
\* two slots.
SlotsDistinct(o) ==
    /\ o.listVal = <<>> \/ o.dictVal = {}
    /\ \A i, j \in DOMAIN o.listVal : o.listVal[i] = o.listVal[j] => i = j
    /\ \A e, f \in o.dictVal : e[1] = f[1] \/ e[2] = f[2] => e = f
=============================================================================
