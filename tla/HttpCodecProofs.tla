--------------------------- MODULE HttpCodecProofs --------------------------
(***************************************************************************)
(* Proofs about the encodings of httplib (module HttpCodec), for texts of  *)
(* any length, all code points and all paths.                              *)
(*                                                                         *)
(* UTF-8 and paths: what to_utf8 and is_valid_path return.                 *)
(* URLs and queries: a byte is written by a code that is read back wherever*)
(* it stands, and so is a text, from its end to its beginning; what is     *)
(* written for a value has none of the bytes at which a query is split.    *)
(* Base64: three bytes are four digits; the invariant says which digits    *)
(* are out after 3 * q + r bytes, and what of them val still has.          *)
(***************************************************************************)
EXTENDS HttpCodec, SequenceLemmas, FiniteSetTheorems

\* The bytes of a text.
Octets == 0..255

\* An octet, as the SMT solver takes it.
LEMMA OctetBounds ==
  ASSUME NEW x \in Octets
  PROVE  x \in Int /\ 0 <= x /\ x <= 255
<1>1. PICK last : last = 255
  OBVIOUS
<1>2. \A y \in 0..last : y \in Int /\ 0 <= y /\ y <= last
  BY <1>1
<1> QED
  BY <1>1, <1>2, Zenon DEF Octets

\* Every code point is written as RFC 3629 says.
LEMMA CodesWritten == Utf8Exact
<1> SUFFICES ASSUME NEW code \in Codes
             PROVE  IF surrogate(code) THEN to_utf8(code) = <<>>
                    ELSE /\ Utf8(to_utf8(code)) = code
                         /\ Len(to_utf8(code)) = IF code < 128 THEN 1
                                                 ELSE IF code < 2048 THEN 2
                                                 ELSE IF code < 65536 THEN 3 ELSE 4
  BY SMT DEF Utf8Exact
<1>0. code \in Nat /\ code <= 1114111
  <2>1. PICK last : last = LastCode
    OBVIOUS
  <2>2. code \in 0..last
    BY <2>1, CodecAssumption, Zenon DEF CodecAssumption
  <2>3. last = 1114111
    BY <2>1, SMT DEF LastCode
  <2>4. last \in Nat
    BY <2>3, SMT
  <2>5. code \in Nat /\ code <= last
    BY <2>2, <2>4, SMT
  <2> QED
    BY <2>3, <2>5, SMT
<1>p. 2^0 = 1 /\ 2^6 = 64 /\ 2^12 = 4096
  OBVIOUS
<1>t. /\ Tail6(code, 0) = 128 + (code % 64)
      /\ Tail6(code, 6) = 128 + ((code \div 64) % 64)
      /\ Tail6(code, 12) = 128 + ((code \div 4096) % 64)
  <2>1. code \div 1 = code
    BY <1>0, SMT
  <2> QED
    BY <1>p, <2>1 DEF Tail6
<1>1. CASE code < 128
  <2>1. to_utf8(code) = <<code>>
    BY <1>1, SMT DEF to_utf8
  <2>2. Utf8(<<code>>) = code
    BY SMT DEF Utf8
  <2>3. ~surrogate(code)
    BY <1>0, <1>1, SMT DEF surrogate
  <2> QED
    BY <1>0, <1>1, <2>1, <2>2, <2>3, SMT
<1>2. CASE ~(code < 128) /\ code < 2048
  <2>1. PICK x, y : x = 192 + (code \div 64) /\ y = 128 + (code % 64)
    OBVIOUS
  <2>2. to_utf8(code) = <<x, y>>
    BY <1>2, <1>t, <2>1, SMT DEF to_utf8
  <2>3. Utf8(<<x, y>>) = (x - 192) * 64 + y - 128
    BY SMT DEF Utf8
  <2>4. (x - 192) * 64 + y - 128 = code
    BY <1>0, <1>2, <2>1, SMT
  <2>5. ~surrogate(code)
    BY <1>0, <1>2, SMT DEF surrogate
  <2> QED
    BY <1>0, <1>2, <2>2, <2>3, <2>4, <2>5, SMT
<1>3. CASE ~(code < 2048) /\ surrogate(code)
  <2>1. to_utf8(code) = <<>>
    BY <1>0, <1>3, SMT DEF to_utf8
  <2> QED
    BY <1>3, <2>1, SMT
<1>4. CASE ~(code < 2048) /\ ~surrogate(code) /\ code < 65536
  <2>1. PICK x, y, z : /\ x = 224 + (code \div 4096) /\ y = 128 + ((code \div 64) % 64)
                       /\ z = 128 + (code % 64)
    OBVIOUS
  <2>2. to_utf8(code) = <<x, y, z>>
    BY <1>0, <1>4, <1>t, <2>1, SMT DEF to_utf8
  <2>3. Utf8(<<x, y, z>>) = (x - 224) * 4096 + (y - 128) * 64 + z - 128
    BY SMT DEF Utf8
  <2>4. (x - 224) * 4096 + (y - 128) * 64 + z - 128 = code
    BY <1>0, <1>4, <2>1, SMT
  <2> QED
    BY <1>0, <1>4, <2>2, <2>3, <2>4, SMT
<1>5. CASE ~(code < 2048) /\ ~surrogate(code) /\ ~(code < 65536)
  <2>1. PICK x, y, z, w : /\ x = 240 + (code \div 262144)
                          /\ y = 128 + ((code \div 4096) % 64)
                          /\ z = 128 + ((code \div 64) % 64) /\ w = 128 + (code % 64)
    OBVIOUS
  <2>2. to_utf8(code) = <<x, y, z, w>>
    BY <1>0, <1>5, <1>t, <2>1, SMT DEF to_utf8
  <2>3. Utf8(<<x, y, z, w>>)
            = (x - 240) * 262144 + (y - 128) * 4096 + (z - 128) * 64 + w - 128
    BY SMT DEF Utf8
  <2>4. (x - 240) * 262144 + (y - 128) * 4096 + (z - 128) * 64 + w - 128 = code
    BY <1>0, <1>5, <2>1, SMT
  <2> QED
    BY <1>0, <1>5, <2>2, <2>3, <2>4, SMT
<1> QED
  BY <1>0, <1>1, <1>2, <1>3, <1>4, <1>5, SMT DEF surrogate

\* How many of the first n numbers are in X.
CountTo(X, n) == Cardinality((1..n) \cap X)

\* One more is counted, or none.
LEMMA CountOneMore ==
  ASSUME NEW X, NEW n \in Nat
  PROVE  /\ CountTo(X, n) \in Nat /\ CountTo(X, 0) = 0
         /\ CountTo(X, n + 1) = IF n + 1 \in X THEN CountTo(X, n) + 1 ELSE CountTo(X, n)
<1>1. PICK low, high : low = (1..n) \cap X /\ high = (1..(n + 1)) \cap X
  OBVIOUS
<1>2. IsFiniteSet(1..n)
  BY FS_Interval
<1>3. IsFiniteSet(low)
  BY <1>1, <1>2, FS_Subset
<1>4. Cardinality(low) \in Nat
  BY <1>3, FS_CardinalityType
<1>5. CountTo(X, 0) = 0
  <2>1. (1..0) \cap X = {}
    OBVIOUS
  <2> QED
    BY <2>1, FS_EmptySet, Zenon DEF CountTo
<1>6. CASE n + 1 \in X
  <2>1. high = low \cup {n + 1} /\ n + 1 \notin low
    BY <1>1, <1>6
  <2>2. Cardinality(low \cup {n + 1}) = Cardinality(low) + 1
    BY <1>3, <2>1, FS_AddElement
  <2> QED
    BY <1>1, <1>4, <1>5, <1>6, <2>1, <2>2, Zenon DEF CountTo
<1>7. CASE n + 1 \notin X
  <2>1. high = low
    BY <1>1, <1>7
  <2> QED
    BY <1>1, <1>4, <1>5, <1>7, <2>1, Zenon DEF CountTo
<1> QED
  BY <1>6, <1>7

\* The level before and behind a component.
Climbs(level, path, n) ==
    level[n] = IF level[n - 1] = -1 THEN -1
               ELSE IF path[n] = Up THEN level[n - 1] - 1
               ELSE IF path[n] = Here THEN level[n - 1] ELSE level[n - 1] + 1

\* The levels of a path.
LEMMA LevelsOf ==
  ASSUME NEW path, Len(path) \in Nat
  PROVE  \E level : /\ level[0] = 0 /\ \A n \in 1..Len(path) : Climbs(level, path, n)
                    /\ is_valid_path(path) <=> level[Len(path)] # -1
<1>1. PICK m \in Nat : m = Len(path)
  OBVIOUS
<1> DEFINE after(l, c) == IF l = -1 THEN -1
                          ELSE IF c = Up THEN l - 1 ELSE IF c = Here THEN l ELSE l + 1
           step == [n \in 1..m |-> [l \in Int |-> after(l, path[n])]]
           Levels(f) == f = [n \in 0..Len(path) |->
                IF n = 0 THEN 0
                ELSE IF f[n - 1] = -1 THEN -1
                ELSE IF path[n] = Up THEN f[n - 1] - 1
                ELSE IF path[n] = Here THEN f[n - 1] ELSE f[n - 1] + 1]
<1>2. \A n \in 1..m : step[n] \in [Int -> Int]
  <2>1. \A l \in Int : \A c : after(l, c) \in Int
    OBVIOUS
  <2> HIDE DEF after
  <2> QED
    BY <2>1
<1>3. \A n \in 1..m : \A l \in Int : step[n][l] = after(l, path[n])
  <2> HIDE DEF after
  <2> QED
    OBVIOUS
<1> HIDE DEF step
<1>4. PICK f \in [0..m -> Int] : f[0] = 0 /\ \A n \in 1..m : f[n] = step[n][f[n - 1]]
  <2>1. PICK Z : Z = Int
    OBVIOUS
  <2>2. 0 \in Z
    BY <2>1
  <2>4. \A n \in 1..m : step[n] \in [Z -> Z]
    BY <1>2, <2>1
  <2>3. HasRecursion(Z, step, 0, m)
    BY <2>2, <2>4, RecursionExists
  <2> QED
    BY <2>1, <2>3, Zenon DEF HasRecursion
<1>5. \A n \in 1..m : f[n] = after(f[n - 1], path[n])
  <2> SUFFICES ASSUME NEW n \in 1..m PROVE f[n] = after(f[n - 1], path[n])
    OBVIOUS
  <2>1. n - 1 \in 0..m
    OBVIOUS
  <2>2. f[n - 1] \in Int
    BY <2>1
  <2> HIDE DEF after
  <2> QED
    BY <1>3, <1>4, <2>2
<1>6. Levels(f)
  <2>1. f = [n \in 0..m |-> f[n]]
    BY <1>4
  <2>2. \A n \in 0..m : f[n] = IF n = 0 THEN 0 ELSE after(f[n - 1], path[n])
    BY <1>4, <1>5
  <2>3. f = [n \in 0..m |-> IF n = 0 THEN 0 ELSE after(f[n - 1], path[n])]
    <3> HIDE DEF after
    <3> QED
      BY <2>1, <2>2
  <2> QED
    BY <1>1, <2>3, Zenon
<1> HIDE DEF Levels
<1>7. PICK level : level = CHOOSE g : Levels(g)
  OBVIOUS
<1>8. Levels(level)
  BY <1>6, <1>7
<1>9. is_valid_path(path) <=> level[Len(path)] # -1
  BY <1>7 DEF is_valid_path, Levels
<1>10. \A n \in 0..m : level[n] = IF n = 0 THEN 0 ELSE after(level[n - 1], path[n])
  BY <1>1, <1>8, Zenon DEF Levels
<1>11. level[0] = 0
  BY <1>10
<1>12. \A n \in 1..m : Climbs(level, path, n)
  <2> SUFFICES ASSUME NEW n \in 1..m PROVE Climbs(level, path, n)
    OBVIOUS
  <2>1. n \in 0..m /\ n # 0
    OBVIOUS
  <2>2. level[n] = after(level[n - 1], path[n])
    BY <1>10, <2>1
  <2> QED
    BY <2>2, Zenon DEF Climbs
<1> QED
  BY <1>1, <1>9, <1>11, <1>12, Zenon

\* A path is valid when no beginning of it leaves the directory.
LEMMA PathsInside == PathsStayInside
<1> SUFFICES ASSUME NEW path \in Paths
             PROVE  is_valid_path(path) <=>
                        \A n \in 1..Len(path) :
                            Cardinality({k \in 1..n : path[k] = Up})
                                <= Cardinality({k \in 1..n : path[k] \notin {Up, Here}})
  BY Zenon DEF PathsStayInside
<1>1. PICK m \in Nat : m = Len(path)
  BY CodecAssumption DEF CodecAssumption
<1>2. PICK ups, downs : /\ ups = {k \in Nat : path[k] = Up}
                        /\ downs = {k \in Nat : path[k] \notin {Up, Here}}
  OBVIOUS
<1>3. ASSUME NEW n \in Nat
      PROVE  /\ Cardinality({k \in 1..n : path[k] = Up}) = CountTo(ups, n)
             /\ Cardinality({k \in 1..n : path[k] \notin {Up, Here}}) = CountTo(downs, n)
  <2>1. {k \in 1..n : path[k] = Up} = (1..n) \cap ups
    BY <1>2
  <2>2. {k \in 1..n : path[k] \notin {Up, Here}} = (1..n) \cap downs
    BY <1>2
  <2> QED
    BY <2>1, <2>2, Zenon DEF CountTo
<1>4. PICK level : /\ level[0] = 0 /\ \A n \in 1..m : Climbs(level, path, n)
                   /\ is_valid_path(path) <=> level[m] # -1
  BY <1>1, LevelsOf
<1> DEFINE u(n) == CountTo(ups, n)
           d(n) == CountTo(downs, n)
           Inside(n) == \A k \in 1..n : u(k) <= d(k)
           S == {n \in Nat : n <= m => level[n] = IF Inside(n) THEN d(n) - u(n) ELSE -1}
<1>5. \A n \in Nat : u(n) \in Nat /\ d(n) \in Nat
  BY CountOneMore
<1>6. u(0) = 0 /\ d(0) = 0
  BY CountOneMore
<1>7. \A n \in Nat : /\ u(n + 1) = IF n + 1 \in ups THEN u(n) + 1 ELSE u(n)
                     /\ d(n + 1) = IF n + 1 \in downs THEN d(n) + 1 ELSE d(n)
  BY CountOneMore
<1> HIDE DEF u, d
<1>8. 0 \in S
  BY <1>4, <1>6
<1>9. ASSUME NEW n \in Nat, n \in S PROVE n + 1 \in S
  <2> SUFFICES ASSUME n + 1 <= m
               PROVE  level[n + 1] = IF Inside(n + 1) THEN d(n + 1) - u(n + 1) ELSE -1
    OBVIOUS
  <2>1. PICK a, b, c, e, l, k : /\ a = u(n) /\ b = d(n) /\ c = u(n + 1) /\ e = d(n + 1)
                                /\ l = level[n] /\ k = level[n + 1]
    OBVIOUS
  <2>2. a \in Nat /\ b \in Nat /\ c \in Nat /\ e \in Nat
    BY <1>5, <2>1
  <2>3. l = IF Inside(n) THEN b - a ELSE -1
    BY <1>9, <2>1
  <2>4. Inside(n) => a <= b
    <3>1. CASE n = 0
      BY <1>6, <2>1, <3>1
    <3>2. CASE n # 0
      BY <2>1, <3>2
    <3> QED
      BY <3>1, <3>2
  <2>5. Inside(n + 1) <=> Inside(n) /\ c <= e
    <3>1. \A j \in 1..(n + 1) : j \in 1..n \/ j = n + 1
      OBVIOUS
    <3>2. 1..n \subseteq 1..(n + 1) /\ n + 1 \in 1..(n + 1)
      OBVIOUS
    <3> QED
      BY <2>1, <3>1, <3>2
  <2>6. k = IF l = -1 THEN -1 ELSE IF path[n + 1] = Up THEN l - 1
            ELSE IF path[n + 1] = Here THEN l ELSE l + 1
    <3>1. n + 1 \in 1..m /\ n + 1 - 1 = n
      OBVIOUS
    <3>2. Climbs(level, path, n + 1)
      BY <1>4, <3>1
    <3> QED
      BY <2>1, <3>1, <3>2 DEF Climbs
  <2>7. Up # Here
    BY DEF Up, Here
  <2>8. /\ c = IF path[n + 1] = Up THEN a + 1 ELSE a
        /\ e = IF path[n + 1] \notin {Up, Here} THEN b + 1 ELSE b
    BY <1>2, <1>7, <2>1
  <2> HIDE DEF Inside
  <2>9. k = IF Inside(n + 1) THEN e - c ELSE -1
    <3>1. CASE path[n + 1] = Up
      BY <2>2, <2>3, <2>4, <2>5, <2>6, <2>7, <2>8, <3>1
    <3>2. CASE path[n + 1] = Here
      BY <2>2, <2>3, <2>4, <2>5, <2>6, <2>7, <2>8, <3>2
    <3>3. CASE path[n + 1] \notin {Up, Here}
      BY <2>2, <2>3, <2>4, <2>5, <2>6, <2>8, <3>3
    <3> QED
      BY <3>1, <3>2, <3>3
  <2> QED
    BY <2>1, <2>9
<1> HIDE DEF S
<1>10. Nat \subseteq S
  BY <1>8, <1>9, NatSetInduction
<1>11. level[m] = IF Inside(m) THEN d(m) - u(m) ELSE -1
  BY <1>10 DEF S
<1>12. Inside(m) => d(m) - u(m) # -1
  <2>1. CASE m = 0
    BY <1>6, <2>1
  <2>2. CASE m # 0
    <3>1. m \in 1..m
      BY <2>2
    <3> QED
      BY <1>5, <3>1
  <2> QED
    BY <2>1, <2>2
<1>13. is_valid_path(path) <=> Inside(m)
  BY <1>4, <1>11, <1>12, Zenon
<1>14. ASSUME NEW n \in 1..m
       PROVE  u(n) <= d(n) <=> Cardinality({k \in 1..n : path[k] = Up})
                                <= Cardinality({k \in 1..n : path[k] \notin {Up, Here}})
  <2>1. n \in Nat
    OBVIOUS
  <2> QED
    BY <1>3, <2>1, Zenon DEF u, d
<1> QED
  BY <1>1, <1>13, <1>14, Zenon

-----------------------------------------------------------------------------
\* A digit has a value that is one, and no other byte has.
LEMMA HexRange ==
  ASSUME NEW c \in Int
  PROVE  is_hex(c) \in Int
BY SMT DEF is_hex

\* The two digits of an escape are read back.
LEMMA EscapeDigits ==
  ASSUME NEW x \in Octets
  PROVE  /\ HexDigit(x \div 16) \in Octets /\ HexDigit(x % 16) \in Octets
         /\ HexDigit(x \div 16) # LetterU
         /\ is_hex(HexDigit(x \div 16)) = x \div 16 /\ is_hex(HexDigit(x % 16)) = x % 16
         /\ x = (x \div 16) * 16 + (x % 16) /\ x \div 16 \in 0..15 /\ x % 16 \in 0..15
<1>1. PICK h, l : h = x \div 16 /\ l = x % 16
  OBVIOUS
<1>2. h \in 0..15 /\ l \in 0..15 /\ x = h * 16 + l
  BY <1>1 DEF Octets
<1>3. \A n \in 0..15 : /\ HexDigit(n) \in Octets /\ HexDigit(n) # LetterU
                       /\ is_hex(HexDigit(n)) = n
  BY SMT DEF HexDigit, Octets, LetterU, is_hex
<1> QED
  BY <1>1, <1>2, <1>3

\* What from_hex_to_i reads.
LEMMA HexValue ==
  ASSUME NEW s \in Seq(Int), NEW pos \in Nat \ {0}, NEW cnt \in Nat
  PROVE  /\ from_hex_to_i(s, pos, cnt) \in Int
         /\ from_hex_to_i(s, pos, cnt) # -1 =>
               /\ pos + cnt - 1 <= Len(s)
               /\ \A k \in pos..(pos + cnt - 1) : is_hex(s[k]) # -1
         /\ cnt = 2 /\ pos + 1 <= Len(s) /\ is_hex(s[pos]) # -1 /\ is_hex(s[pos + 1]) # -1
               => from_hex_to_i(s, pos, cnt) = is_hex(s[pos]) * 16 + is_hex(s[pos + 1])
<1> DEFINE Given == /\ pos + cnt - 1 <= Len(s)
                    /\ \A k \in pos..(pos + cnt - 1) : is_hex(s[k]) # -1
           Value(v) == v = [k \in 0..cnt |->
                               IF k = 0 THEN 0 ELSE v[k - 1] * 16 + is_hex(s[pos + k - 1])]
           chosen == (CHOOSE v : Value(v))[cnt]
<1>1. from_hex_to_i(s, pos, cnt) = IF Given THEN chosen ELSE -1
  BY Zenon DEF from_hex_to_i
<1> HIDE DEF Given
<1>2. CASE ~Given
  <2>1. from_hex_to_i(s, pos, cnt) = -1
    BY <1>1, <1>2, Zenon
  <2>2. ~(cnt = 2 /\ pos + 1 <= Len(s) /\ is_hex(s[pos]) # -1 /\ is_hex(s[pos + 1]) # -1)
    <3> SUFFICES ASSUME cnt = 2, pos + 1 <= Len(s), is_hex(s[pos]) # -1,
                        is_hex(s[pos + 1]) # -1
                 PROVE  Given
      BY <1>2
    <3>1. \A k \in pos..(pos + cnt - 1) : k = pos \/ k = pos + 1
      OBVIOUS
    <3> QED
      BY <3>1 DEF Given
  <2> QED
    BY <2>1, <2>2
<1>3. CASE Given
  <2>1. ASSUME NEW k \in 1..cnt PROVE is_hex(s[pos + k - 1]) \in Int
    <3>1. pos + k - 1 \in 1..Len(s)
      BY <1>3 DEF Given
    <3>2. s[pos + k - 1] \in Int
      BY <3>1, ElementOfSeq
    <3> QED
      BY <3>2, HexRange
  <2>2. PICK Z : Z = Int
    OBVIOUS
  <2> DEFINE step == [k \in 1..cnt |-> [v \in Int |-> v * 16 + is_hex(s[pos + k - 1])]]
  <2>3. \A k \in 1..cnt : /\ step[k] \in [Z -> Z]
                          /\ \A v \in Int : step[k][v] = v * 16 + is_hex(s[pos + k - 1])
    <3> SUFFICES ASSUME NEW k \in 1..cnt
                 PROVE  /\ step[k] \in [Z -> Z]
                        /\ \A v \in Int : step[k][v] = v * 16 + is_hex(s[pos + k - 1])
      OBVIOUS
    <3>1. PICK d \in Int : d = is_hex(s[pos + k - 1])
      BY <2>1
    <3>2. step[k] = [v \in Int |-> v * 16 + d]
      BY <3>1
    <3>3. \A v \in Int : v * 16 + d \in Int
      OBVIOUS
    <3> QED
      BY <2>2, <3>1, <3>2, <3>3
  <2> HIDE DEF step
  <2>4. HasRecursion(Z, step, 0, cnt)
    <3>1. 0 \in Z
      BY <2>2
    <3> QED
      BY <2>3, <3>1, RecursionExists
  <2>5. PICK f \in [0..cnt -> Int] : f[0] = 0 /\ \A k \in 1..cnt : f[k] = step[k][f[k - 1]]
    BY <2>2, <2>4, Zenon DEF HasRecursion
  <2>6. \A k \in 0..cnt : f[k] = IF k = 0 THEN 0 ELSE f[k - 1] * 16 + is_hex(s[pos + k - 1])
    <3> SUFFICES ASSUME NEW k \in 0..cnt, k # 0
                 PROVE  f[k] = f[k - 1] * 16 + is_hex(s[pos + k - 1])
      BY <2>5
    <3>1. k \in 1..cnt /\ k - 1 \in 0..cnt
      OBVIOUS
    <3>2. f[k] = step[k][f[k - 1]] /\ f[k - 1] \in Int
      BY <2>5, <3>1
    <3> QED
      BY <2>3, <3>1, <3>2, Zenon
  <2>7. Value(f)
    <3>1. f = [k \in 0..cnt |-> f[k]]
      BY <2>5
    <3> QED
      BY <2>6, <3>1, Zenon
  <2>8. PICK v : v = CHOOSE w : Value(w)
    OBVIOUS
  <2> HIDE DEF Value
  <2>9. Value(v)
    BY <2>7, <2>8
  <2>10. \A k \in 0..cnt : v[k] = IF k = 0 THEN 0 ELSE v[k - 1] * 16 + is_hex(s[pos + k - 1])
    BY <2>9, Zenon DEF Value
  <2> DEFINE S == {k \in Nat : k <= cnt => v[k] \in Int}
  <2>11. 0 \in S
    BY <2>10
  <2>12. ASSUME NEW k \in Nat, k \in S PROVE k + 1 \in S
    <3> SUFFICES ASSUME k + 1 <= cnt PROVE v[k + 1] \in Int
      OBVIOUS
    <3>1. PICK n : n = k + 1
      OBVIOUS
    <3>2. n \in 0..cnt /\ n # 0 /\ n - 1 = k /\ n \in 1..cnt /\ v[k] \in Int
      BY <2>12, <3>1
    <3>3. v[n] = v[n - 1] * 16 + is_hex(s[pos + n - 1])
      BY <2>10, <3>2, Zenon
    <3>4. PICK d \in Int : d = is_hex(s[pos + n - 1])
      BY <2>1, <3>2
    <3>5. v[n] = v[k] * 16 + d
      BY <3>2, <3>3, <3>4, Zenon
    <3> QED
      BY <3>1, <3>2, <3>5
  <2> HIDE DEF S
  <2>13. Nat \subseteq S
    BY <2>11, <2>12, NatSetInduction
  <2>14. v[cnt] \in Int
    BY <2>13 DEF S
  <2>15. from_hex_to_i(s, pos, cnt) = v[cnt]
    BY <1>1, <1>3, <2>8, Zenon
  <2>16. cnt = 2 => v[cnt] = is_hex(s[pos]) * 16 + is_hex(s[pos + 1])
    <3> SUFFICES ASSUME cnt = 2 PROVE v[2] = is_hex(s[pos]) * 16 + is_hex(s[pos + 1])
      OBVIOUS
    <3>1. v[0] = 0
      BY <2>10
    <3>2. v[1] = v[0] * 16 + is_hex(s[pos])
      <4>1. 1 \in 0..cnt /\ 1 # 0 /\ 1 - 1 = 0 /\ pos + 1 - 1 = pos
        OBVIOUS
      <4> QED
        BY <2>10, <4>1
    <3>3. v[2] = v[1] * 16 + is_hex(s[pos + 1])
      <4>1. 2 \in 0..cnt /\ 2 # 0 /\ 2 - 1 = 1 /\ pos + 2 - 1 = pos + 1
        OBVIOUS
      <4> QED
        BY <2>10, <4>1
    <3>4. is_hex(s[pos]) \in Int /\ is_hex(s[pos + 1]) \in Int
      <4>1. 1 \in 1..cnt /\ 2 \in 1..cnt /\ pos + 1 - 1 = pos /\ pos + 2 - 1 = pos + 1
        OBVIOUS
      <4> QED
        BY <2>1, <4>1
    <3> QED
      BY <3>1, <3>2, <3>3, <3>4
  <2> QED
    BY <1>3, <2>14, <2>15, <2>16 DEF Given
<1> QED
  BY <1>2, <1>3

\* A code point is written with numbers.
LEMMA Utf8Type ==
  ASSUME NEW code \in Int
  PROVE  to_utf8(code) \in Seq(Int)
<1>1. \A d \in Nat \ {0} : code \div d \in Int /\ (code \div d) % 64 \in Int
  OBVIOUS
<1>2. \A k \in {0, 6, 12} : Tail6(code, k) \in Int
  <2>1. 2^0 = 1 /\ 2^6 = 64 /\ 2^12 = 4096
    OBVIOUS
  <2> QED
    BY <1>1, <2>1 DEF Tail6
<1>3. PICK x, y, z : x = Tail6(code, 0) /\ y = Tail6(code, 6) /\ z = Tail6(code, 12)
  OBVIOUS
<1>4. x \in Int /\ y \in Int /\ z \in Int
  BY <1>2, <1>3
<1>5. PICK a, b, c : /\ a = 192 + (code \div 64) /\ b = 224 + (code \div 4096)
                     /\ c = 240 + (code \div 262144)
  OBVIOUS
<1>6. a \in Int /\ b \in Int /\ c \in Int
  BY <1>1, <1>5
<1>7. /\ <<code>> \in Seq(Int) /\ <<a, x>> \in Seq(Int) /\ <<>> \in Seq(Int)
      /\ <<b, y, x>> \in Seq(Int) /\ <<c, z, y, x>> \in Seq(Int)
  BY <1>4, <1>6
<1> QED
  BY <1>3, <1>5, <1>7, SMT DEF to_utf8

\* Bytes are numbers.
LEMMA OctetsAreInts ==
  ASSUME NEW s \in Seq(Octets)
  PROVE  s \in Seq(Int) /\ Len(s) \in Nat /\ \A k \in 1..Len(s) : s[k] \in Octets /\ s[k] \in Int
<1>1. \A n \in 1..Len(s) : s[n] \in Octets
  BY ElementOfSeq
<1>2. Octets \subseteq Int
  BY DEF Octets
<1>3. s \in [1..Len(s) -> Int] /\ Len(s) \in Nat
  BY <1>1, <1>2, LenProperties
<1>4. s \in Seq(Int)
  BY <1>3, SeqDef
<1> QED
  BY <1>1, <1>2, <1>3, <1>4

\* What stands at a place is numbers, and ends in the text.
LEMMA UnitType ==
  ASSUME NEW s \in Seq(Octets), NEW conv, NEW k \in 1..Len(s)
  PROVE  /\ unit(s, k, conv).text \in Seq(Int)
         /\ k + unit(s, k, conv).size \in (k + 1)..(Len(s) + 1)
<1>0. s \in Seq(Int) /\ Len(s) \in Nat /\ s[k] \in Int
  BY OctetsAreInts
<1>1. PICK v, w : v = from_hex_to_i(s, k + 2, 4) /\ w = from_hex_to_i(s, k + 1, 2)
  OBVIOUS
<1>2. v \in Int /\ (v # -1 => k + 5 <= Len(s))
  <2>1. PICK p \in Nat \ {0} : p = k + 2
    OBVIOUS
  <2>2. from_hex_to_i(s, p, 4) \in Int /\ (from_hex_to_i(s, p, 4) # -1 => p + 4 - 1 <= Len(s))
    BY <1>0, HexValue
  <2> QED
    BY <1>0, <1>1, <2>1, <2>2
<1>3. w \in Int /\ (w # -1 => k + 2 <= Len(s))
  <2>1. PICK p \in Nat \ {0} : p = k + 1
    OBVIOUS
  <2>2. from_hex_to_i(s, p, 2) \in Int /\ (from_hex_to_i(s, p, 2) # -1 => p + 2 - 1 <= Len(s))
    BY <1>0, HexValue
  <2> QED
    BY <1>0, <1>1, <2>1, <2>2
<1>4. to_utf8(v) \in Seq(Int)
  BY <1>2, Utf8Type
<1>5. <<w>> \in Seq(Int) /\ <<Space>> \in Seq(Int) /\ <<s[k]>> \in Seq(Int)
  BY <1>0, <1>3 DEF Space
<1>6. PICK u : u = unit(s, k, conv)
  OBVIOUS
<1>7. \/ v # -1 /\ u = [text |-> to_utf8(v), size |-> 6]
      \/ w # -1 /\ u = [text |-> <<w>>, size |-> 3]
      \/ u = [text |-> <<Space>>, size |-> 1]
      \/ u = [text |-> <<s[k]>>, size |-> 1]
  BY <1>1, <1>6, Zenon DEF unit
<1>8. u.text \in Seq(Int) /\ k + u.size \in (k + 1)..(Len(s) + 1)
  <2>1. CASE v # -1 /\ u = [text |-> to_utf8(v), size |-> 6]
    <3>1. u.text = to_utf8(v) /\ u.size = 6
      BY <2>1
    <3> QED
      BY <1>0, <1>2, <1>4, <2>1, <3>1
  <2>2. CASE w # -1 /\ u = [text |-> <<w>>, size |-> 3]
    <3>1. u.text = <<w>> /\ u.size = 3
      BY <2>2
    <3> QED
      BY <1>0, <1>3, <1>5, <2>2, <3>1
  <2>3. ASSUME NEW t \in Seq(Int), u = [text |-> t, size |-> 1]
        PROVE  u.text \in Seq(Int) /\ k + u.size \in (k + 1)..(Len(s) + 1)
    <3>1. u.text = t /\ u.size = 1
      BY <2>3
    <3> QED
      BY <1>0, <3>1
  <2> QED
    BY <1>5, <1>7, <2>1, <2>2, <2>3, Zenon
<1> QED
  BY <1>6, <1>8

\* decode_url goes from unit to unit.
Decodes(f, s, conv) ==
    /\ f[Len(s) + 1] = <<>> /\ decode_url(s, conv) = f[1]
    /\ \A k \in 1..Len(s) :
          f[k] = unit(s, k, conv).text \o f[k + unit(s, k, conv).size]

\* What decode_url returns comes from such a walk.
LEMMA DecodesUnits ==
  ASSUME NEW s \in Seq(Octets), NEW conv
  PROVE  \E f : Decodes(f, s, conv)
<1>1. PICK n : n = Len(s)
  OBVIOUS
<1>2. n \in Nat
  BY <1>1
<1> DEFINE g == [k \in 1..n |-> unit(s, k, conv).text]
           nx == [k \in 1..n |-> k + unit(s, k, conv).size]
           Rest0(f) == f = [k \in 1..(Len(s) + 1) |->
                              IF k = Len(s) + 1 THEN <<>>
                              ELSE LET u == unit(s, k, conv) IN u.text \o f[k + u.size]]
<1>3. \A k \in 1..n : g[k] \in Seq(Int) /\ nx[k] \in (k + 1)..(n + 1)
  BY <1>1, UnitType
<1>g. \A k \in 1..n : /\ g[k] = unit(s, k, conv).text
                      /\ nx[k] = k + unit(s, k, conv).size
  OBVIOUS
<1> HIDE DEF g, nx
<1>h. PICK hi \in Int : hi = n + 1
  BY <1>2
<1>4. PICK f : IsChain(f, Int, g, nx, 1, hi)
  <2>1. 1 \in Int /\ 1 <= hi
    BY <1>2, <1>h
  <2>2. \A k \in 1..(hi - 1) : g[k] \in Seq(Int) /\ nx[k] \in (k + 1)..hi
    BY <1>2, <1>3, <1>h
  <2>3. HasChain(Int, g, nx, 1, hi)
    BY <2>1, <2>2, ChainExists
  <2> QED
    BY <2>3 DEF HasChain
<1>5. Rest0(f)
  <2>1. f = [k \in 1..(n + 1) |-> f[k]] /\ f[n + 1] = <<>>
    BY <1>4, <1>h, Zenon DEF IsChain
  <2>2. ASSUME NEW k \in 1..(n + 1), k # n + 1
        PROVE  f[k] = unit(s, k, conv).text \o f[k + unit(s, k, conv).size]
    <3>1. k \in 1..n /\ k \in 1..(hi - 1)
      BY <1>2, <1>h, <2>2
    <3>2. f[k] = g[k] \o f[nx[k]]
      BY <1>4, <3>1, Zenon DEF IsChain
    <3> QED
      BY <1>g, <3>1, <3>2, Zenon
  <2>3. f = [k \in 1..(n + 1) |->
                IF k = n + 1 THEN <<>>
                ELSE unit(s, k, conv).text \o f[k + unit(s, k, conv).size]]
    BY <2>1, <2>2, Zenon
  <2> QED
    BY <1>1, <2>3, Zenon
<1> HIDE DEF Rest0
<1>6. PICK c : c = CHOOSE h : Rest0(h)
  OBVIOUS
<1>7. Rest0(c)
  BY <1>5, <1>6
<1>8. decode_url(s, conv) = c[1]
  BY <1>6, Zenon DEF decode_url, Rest0
<1>9. c[n + 1] = <<>>
  <2>1. n + 1 \in 1..(n + 1)
    BY <1>2
  <2> QED
    BY <1>1, <1>7, <2>1, Zenon DEF Rest0
<1>10. ASSUME NEW k \in 1..n
       PROVE  c[k] = unit(s, k, conv).text \o c[k + unit(s, k, conv).size]
  <2>1. k \in 1..(n + 1) /\ k # n + 1
    BY <1>2
  <2> QED
    BY <1>1, <1>7, <2>1, Zenon DEF Rest0
<1>11. Decodes(c, s, conv)
  BY <1>1, <1>8, <1>9, <1>10, Zenon DEF Decodes
<1> QED
  BY <1>11

\* How a byte may be written so that it is read back.
ReadsAs(e, x, conv) ==
    e = Escape(x) \/ (e = <<x>> /\ x # Percent /\ ~(x = Plus /\ conv))

\* The code of a byte, wherever it stands, is read back.
LEMMA UnitRead ==
  ASSUME NEW a \in Seq(Octets), NEW r \in Seq(Octets), NEW x \in Octets, NEW e, NEW conv,
         ReadsAs(e, x, conv)
  PROVE  /\ e \in Seq(Octets) /\ Len(e) \in Nat \ {0}
         /\ unit(a \o (e \o r), Len(a) + 1, conv) = [text |-> <<x>>, size |-> Len(e)]
<1>0. Percent \in Octets /\ Percent \in Int
  BY DEF Percent, Octets
<1>1. PICK n \in Nat : n = Len(a)
  OBVIOUS
<1>2. PICK h, l : h = HexDigit(x \div 16) /\ l = HexDigit(x % 16)
  OBVIOUS
<1>3. /\ h \in Octets /\ l \in Octets /\ h # LetterU
      /\ is_hex(h) # -1 /\ is_hex(l) # -1 /\ is_hex(h) * 16 + is_hex(l) = x
  <2>1. PICK u, v : u = x \div 16 /\ v = x % 16
    OBVIOUS
  <2>2. /\ h \in Octets /\ l \in Octets /\ h # LetterU
        /\ is_hex(h) = u /\ is_hex(l) = v /\ x = u * 16 + v /\ u \in 0..15 /\ v \in 0..15
    BY <1>2, <2>1, EscapeDigits, Zenon
  <2>3. u # -1 /\ v # -1
    BY <2>2
  <2> QED
    BY <2>2, <2>3, Zenon
<1>4. Escape(x) = <<Percent, h, l>>
  BY <1>2 DEF Escape
<1>5. /\ <<Percent, h, l>> \in Seq(Octets) /\ Len(<<Percent, h, l>>) = 3
      /\ <<x>> \in Seq(Octets) /\ Len(<<x>>) = 1
  BY <1>0, <1>3
<1>6. e \in Seq(Octets) /\ Len(e) \in Nat \ {0}
  <2>1. e = <<Percent, h, l>> \/ e = <<x>>
    BY <1>4, Zenon DEF ReadsAs
  <2>2. CASE e = <<Percent, h, l>>
    BY <1>5, <2>2
  <2>3. CASE e = <<x>>
    BY <1>5, <2>3
  <2> QED
    BY <2>1, <2>2, <2>3, Zenon
<1>7. PICK s, p : s = a \o (e \o r) /\ p = n + 1
  OBVIOUS
<1>8. /\ s \in Seq(Octets) /\ Len(s) = n + Len(e) + Len(r) /\ Len(r) \in Nat
      /\ \A k \in 1..Len(e) : s[n + k] = e[k]
  <2>1. /\ e \o r \in Seq(Octets) /\ Len(e \o r) = Len(e) + Len(r)
        /\ \A k \in 1..Len(e) : (e \o r)[k] = e[k]
    BY <1>6, ConcatProperties
  <2>2. PICK t : t = e \o r
    OBVIOUS
  <2>3. /\ a \o t \in Seq(Octets) /\ Len(a \o t) = n + Len(t)
        /\ \A k \in 1..Len(t) : (a \o t)[n + k] = t[k]
    BY <1>1, <2>1, <2>2, ConcatProperties
  <2>4. Len(r) \in Nat /\ Len(e) \in Nat
    BY <1>6
  <2>5. \A k \in 1..Len(e) : k \in 1..Len(t) /\ t[k] = e[k]
    BY <2>1, <2>2, <2>4
  <2> QED
    BY <1>7, <2>1, <2>2, <2>3, <2>4, <2>5
<1>9. s \in Seq(Int) /\ \A k \in 1..Len(s) : s[k] \in Int
  BY <1>8, OctetsAreInts
<1>10. CASE e = <<Percent, h, l>>
  <2>1. Len(e) = 3 /\ e[1] = Percent /\ e[2] = h /\ e[3] = l
    BY <1>10
  <2>2. s[p] = Percent /\ s[p + 1] = h /\ s[p + 2] = l /\ p + 2 <= Len(s) /\ p < Len(s)
    <3>1. /\ 1 \in 1..Len(e) /\ 2 \in 1..Len(e) /\ 3 \in 1..Len(e)
          /\ p = n + 1 /\ p + 1 = n + 2 /\ p + 2 = n + 3
      BY <1>7, <2>1
    <3>2. s[n + 1] = e[1] /\ s[n + 2] = e[2] /\ s[n + 3] = e[3]
      BY <1>8, <3>1, Zenon
    <3>3. p + 2 <= Len(s) /\ p < Len(s)
      BY <1>7, <1>8, <2>1
    <3> QED
      BY <2>1, <3>1, <3>2, <3>3, Zenon
  <2>3. PICK q \in Nat \ {0} : q = p + 1
    BY <1>7
  <2>4. from_hex_to_i(s, q, 2) = x
    <3>1. q + 1 = p + 2 /\ q + 1 <= Len(s)
      BY <1>7, <2>2, <2>3
    <3>2. is_hex(s[q]) # -1 /\ is_hex(s[q + 1]) # -1
      BY <1>3, <2>2, <2>3, <3>1
    <3>3. from_hex_to_i(s, q, 2) = is_hex(s[q]) * 16 + is_hex(s[q + 1])
      BY <1>9, <3>1, <3>2, HexValue
    <3> QED
      BY <1>3, <2>2, <2>3, <3>1, <3>3
  <2>5. x # -1
    BY DEF Octets
  <2>6. unit(s, p, conv) = [text |-> <<x>>, size |-> 3]
    BY <1>3, <2>2, <2>3, <2>4, <2>5, Zenon DEF unit
  <2> QED
    BY <1>1, <1>6, <1>7, <2>1, <2>6, Zenon
<1>11. CASE e = <<x>> /\ x # Percent /\ ~(x = Plus /\ conv)
  <2>1. Len(e) = 1 /\ e[1] = x
    BY <1>11
  <2>2. s[p] = x
    BY <1>7, <1>8, <2>1
  <2>3. unit(s, p, conv) = [text |-> <<x>>, size |-> 1]
    BY <1>11, <2>2, Zenon DEF unit
  <2> QED
    BY <1>1, <1>6, <1>7, <2>1, <2>3, Zenon
<1> QED
  BY <1>4, <1>10, <1>11, Zenon DEF ReadsAs

\* A text, each byte of it by its code.
Coded(code, t) == FlattenSeq([k \in DOMAIN t |-> code[t[k]]])

\* The code of a text is that of its first byte and that of the others.
LEMMA CodedCons ==
  ASSUME NEW X, NEW code \in [X -> Seq(Octets)], NEW x \in X, NEW t \in Seq(X)
  PROVE  /\ Coded(code, t) \in Seq(Octets)
         /\ Coded(code, <<x>> \o t) = code[x] \o Coded(code, t)
<1>1. PICK m \in Nat : m = Len(t)
  OBVIOUS
<1>2. PICK u : u = <<x>> \o t
  OBVIOUS
<1>3. u \in Seq(X) /\ Len(u) = m + 1 /\ \A k \in 1..(m + 1) : u[k] = IF k = 1 THEN x ELSE t[k - 1]
  <2>1. <<x>> \in Seq(X) /\ Len(<<x>>) = 1 /\ <<x>>[1] = x
    OBVIOUS
  <2>2. PICK w : w = <<x>>
    OBVIOUS
  <2>3. /\ w \o t \in Seq(X) /\ Len(w \o t) = Len(w) + Len(t)
        /\ \A k \in 1..(Len(w) + Len(t)) : (w \o t)[k] = IF k <= Len(w) THEN w[k] ELSE t[k - Len(w)]
    BY <2>1, <2>2, ConcatProperties
  <2> QED
    BY <1>1, <1>2, <2>1, <2>2, <2>3
<1>4. PICK all, tail : /\ all = [k \in DOMAIN u |-> code[u[k]]]
                       /\ tail = [k \in DOMAIN t |-> code[t[k]]]
  OBVIOUS
<1>5. /\ tail \in Seq(Seq(Octets)) /\ Len(tail) = m /\ \A k \in 1..m : tail[k] = code[t[k]]
  <2>1. DOMAIN t = 1..m /\ \A k \in 1..m : t[k] \in X
    BY <1>1, LenProperties, ElementOfSeq
  <2>2. tail \in [1..m -> Seq(Octets)] /\ \A k \in 1..m : tail[k] = code[t[k]]
    BY <1>4, <2>1
  <2> QED
    BY <2>2, SeqDef, LenProperties
<1>6. /\ all \in Seq(Seq(Octets)) /\ Len(all) = m + 1 /\ \A k \in 1..(m + 1) : all[k] = code[u[k]]
  <2>1. DOMAIN u = 1..(m + 1) /\ \A k \in 1..(m + 1) : u[k] \in X
    BY <1>3, LenProperties, ElementOfSeq
  <2>2. all \in [1..(m + 1) -> Seq(Octets)] /\ \A k \in 1..(m + 1) : all[k] = code[u[k]]
    BY <1>4, <2>1
  <2> QED
    BY <2>2, SeqDef, LenProperties
<1>7. PICK e : e = code[x]
  OBVIOUS
<1>8. e \in Seq(Octets)
  BY <1>7
<1>9. /\ <<e>> \o tail \in Seq(Seq(Octets)) /\ Len(<<e>> \o tail) = m + 1
      /\ \A k \in 1..(m + 1) : (<<e>> \o tail)[k] = IF k = 1 THEN e ELSE tail[k - 1]
  <2>1. <<e>> \in Seq(Seq(Octets)) /\ Len(<<e>>) = 1 /\ <<e>>[1] = e
    BY <1>8
  <2>2. PICK w : w = <<e>>
    OBVIOUS
  <2>3. /\ w \o tail \in Seq(Seq(Octets)) /\ Len(w \o tail) = Len(w) + Len(tail)
        /\ \A k \in 1..(Len(w) + Len(tail)) :
              (w \o tail)[k] = IF k <= Len(w) THEN w[k] ELSE tail[k - Len(w)]
    BY <1>5, <2>1, <2>2, ConcatProperties
  <2> QED
    BY <1>5, <2>1, <2>2, <2>3
<1>10. \A k \in 1..(m + 1) : all[k] = (<<e>> \o tail)[k]
  <2> SUFFICES ASSUME NEW k \in 1..(m + 1) PROVE all[k] = IF k = 1 THEN e ELSE tail[k - 1]
    BY <1>9
  <2>1. CASE k = 1
    BY <1>3, <1>6, <1>7, <2>1
  <2>2. CASE k # 1
    <3>1. k - 1 \in 1..m
      BY <2>2
    <3>2. all[k] = code[u[k]] /\ u[k] = t[k - 1] /\ tail[k - 1] = code[t[k - 1]]
      BY <1>3, <1>5, <1>6, <2>2, <3>1
    <3> QED
      BY <2>2, <3>2, Zenon
  <2> QED
    BY <2>1, <2>2
<1>11. all = <<e>> \o tail
  <2>1. PICK w : w = <<e>> \o tail
    OBVIOUS
  <2>2. w \in Seq(Seq(Octets)) /\ Len(w) = Len(all) /\ \A k \in 1..Len(all) : all[k] = w[k]
    BY <1>6, <1>9, <1>10, <2>1, Zenon
  <2>3. all = w
    BY <1>6, <2>2, SeqEqual
  <2> QED
    BY <2>1, <2>3
<1>12. FlattenSeq(tail) \in Seq(Octets) /\ FlattenSeq(<<e>> \o tail) = e \o FlattenSeq(tail)
  BY <1>5, <1>8, FlattenType, FlattenCons
<1> QED
  BY <1>2, <1>4, <1>7, <1>11, <1>12, Zenon DEF Coded

\* A text of no bytes has no code.
LEMMA CodedNone ==
  ASSUME NEW code
  PROVE  Coded(code, <<>>) = <<>>
<1>1. [k \in DOMAIN <<>> |-> code[<<>>[k]]] = <<>>
  OBVIOUS
<1>2. FlattenSeq(<<>>) = <<>>
  BY DEF FlattenSeq
<1> QED
  BY <1>1, <1>2, Zenon DEF Coded

\* A text of one byte has its code.
LEMMA CodedOne ==
  ASSUME NEW X, NEW code \in [X -> Seq(Octets)], NEW x \in X
  PROVE  Coded(code, <<x>>) = code[x]
<1>1. PICK none, s : none = <<>> /\ s = <<x>>
  OBVIOUS
<1>2. none \in Seq(X) /\ s \in Seq(X) /\ s \o none = s
  BY <1>1, ConcatEmptySeq
<1>3. Coded(code, <<x>> \o none) = code[x] \o Coded(code, none)
  BY <1>2, CodedCons
<1>4. Coded(code, none) = <<>>
  BY <1>1, CodedNone
<1>5. code[x] \o <<>> = code[x]
  <2>1. code[x] \in Seq(Octets)
    OBVIOUS
  <2> QED
    BY <2>1, ConcatEmptySeq
<1> QED
  BY <1>1, <1>2, <1>3, <1>4, <1>5, Zenon

\* The code of a text is bytes.
LEMMA CodedType ==
  ASSUME NEW X, NEW code \in [X -> Seq(Octets)], NEW t \in Seq(X)
  PROVE  Coded(code, t) \in Seq(Octets)
<1>1. CASE t = <<>>
  BY <1>1, CodedNone, EmptySeq
<1>2. CASE t # <<>>
  <2>1. Head(t) \in X
    BY <1>2, HeadTailProperties
  <2> QED
    BY <2>1, CodedCons
<1> QED
  BY <1>1, <1>2

\* A text whose bytes are read back is read back.
LEMMA CodedRead ==
  ASSUME NEW X \in SUBSET Octets, NEW code \in [X -> Seq(Octets)], NEW conv,
         \A x \in X : ReadsAs(code[x], x, conv), NEW t \in Seq(X)
  PROVE  decode_url(Coded(code, t), conv) = t
<1>1. PICK s : s = Coded(code, t)
  OBVIOUS
<1>2. s \in Seq(Octets)
  BY <1>1, CodedType
<1>3. PICK f : Decodes(f, s, conv)
  BY <1>2, DecodesUnits
<1> DEFINE Read(u, a) == s = a \o Coded(code, u) => f[Len(a) + 1] = u
           S == {m \in Nat : \A u \in Seq(X) : \A a \in Seq(Octets) : Len(u) = m => Read(u, a)}
<1>4. 0 \in S
  <2> SUFFICES ASSUME NEW u \in Seq(X), NEW a \in Seq(Octets), Len(u) = 0,
                      s = a \o Coded(code, u)
               PROVE  f[Len(a) + 1] = u
    OBVIOUS
  <2>1. u = <<>>
    BY EmptySeq
  <2>2. a \o <<>> = a
    BY ConcatEmptySeq
  <2>3. s = a
    BY <2>1, <2>2, CodedNone, Zenon
  <2>4. f[Len(s) + 1] = <<>>
    BY <1>3, Zenon DEF Decodes
  <2> QED
    BY <2>1, <2>3, <2>4, Zenon
<1>5. ASSUME NEW m \in Nat, m \in S PROVE m + 1 \in S
  <2>0. m + 1 \in Nat
    OBVIOUS
  <2> SUFFICES ASSUME NEW u \in Seq(X), NEW a \in Seq(Octets), Len(u) = m + 1,
                      s = a \o Coded(code, u)
               PROVE  f[Len(a) + 1] = u
    BY <2>0, Zenon
  <2>1. PICK x \in X, v \in Seq(X) : u = <<x>> \o v /\ Len(v) = m
    <3>1. HasFirst(u, X, m)
      BY FirstOf
    <3> QED
      BY <3>1, Zenon DEF HasFirst
  <2>2. PICK e, r, k : e = code[x] /\ r = Coded(code, v) /\ k = Len(a) + 1
    OBVIOUS
  <2>3. r \in Seq(Octets) /\ Coded(code, u) = e \o r
    BY <2>1, <2>2, CodedCons
  <2>4. x \in Octets /\ ReadsAs(e, x, conv)
    BY <2>2
  <2>5. /\ e \in Seq(Octets) /\ Len(e) \in Nat \ {0}
        /\ unit(a \o (e \o r), Len(a) + 1, conv) = [text |-> <<x>>, size |-> Len(e)]
    BY <2>3, <2>4, UnitRead
  <2>6. PICK at : at = unit(s, k, conv)
    OBVIOUS
  <2>7. at = [text |-> <<x>>, size |-> Len(e)]
    BY <2>2, <2>3, <2>5, <2>6, Zenon
  <2>8. at.text = <<x>> /\ at.size = Len(e)
    BY <2>7
  <2>9. PICK b : b = a \o e
    OBVIOUS
  <2>10. b \in Seq(Octets) /\ Len(b) = Len(a) + Len(e)
    BY <2>5, <2>9, ConcatProperties
  <2>11. s = b \o r
    <3>1. Regroups(Seq(Octets))
      BY SeqRegroups
    <3>2. a \in Seq(Octets) /\ e \in Seq(Octets) /\ r \in Seq(Octets)
      BY <2>3, <2>5
    <3>3. (a \o e) \o r = a \o (e \o r)
      BY <3>1, <3>2, Zenon DEF Regroups
    <3>4. s = a \o (e \o r)
      BY <2>3, Zenon
    <3> QED
      BY <2>9, <3>3, <3>4, Zenon
  <2>12. f[Len(b) + 1] = v
    BY <1>5, <2>1, <2>2, <2>10, <2>11, Zenon
  <2>13. k \in 1..Len(s) /\ k + Len(e) = Len(b) + 1
    <3>1. Len(s) = Len(b) + Len(r) /\ Len(a) \in Nat /\ Len(r) \in Nat
      BY <2>3, <2>10, <2>11, ConcatProperties
    <3> QED
      BY <2>2, <2>5, <2>10, <3>1
  <2>14. f[k] = at.text \o f[k + at.size]
    BY <1>3, <2>6, <2>13, Zenon DEF Decodes
  <2> QED
    BY <2>1, <2>2, <2>8, <2>12, <2>13, <2>14, Zenon
<1> HIDE DEF S
<1>6. Nat \subseteq S
  BY <1>4, <1>5, NatSetInduction
<1>7. Read(t, <<>>)
  <2>1. <<>> \in Seq(Octets) /\ Len(t) \in Nat
    BY EmptySeq
  <2> QED
    BY <1>6, <2>1 DEF S
<1>8. <<>> \o s = s /\ Len(<<>>) + 1 = 1
  BY <1>2, ConcatEmptySeq, EmptySeq
<1>9. f[1] = t
  BY <1>1, <1>7, <1>8, Zenon
<1> QED
  BY <1>1, <1>3, <1>9, Zenon DEF Decodes

-----------------------------------------------------------------------------
\* Without blanks there is nothing to trim.
LEMMA TrimIs ==
  ASSUME NEW t \in Seq(Octets)
  PROVE  /\ trim(t) \in Seq(Octets)
         /\ (\A k \in 1..Len(t) : t[k] \notin Blanks) => trim(t) = t
<1>1. PICK n \in Nat : n = Len(t)
  OBVIOUS
<1>2. PICK solid : solid = {k \in DOMAIN t : t[k] \notin Blanks}
  OBVIOUS
<1>3. DOMAIN t = 1..n /\ solid \in SUBSET (1..n) /\ solid \in SUBSET (0..n) /\ solid \in SUBSET Nat
  BY <1>1, <1>2, LenProperties
<1>4. trim(t) = IF solid = {} THEN <<>> ELSE SubSeq(t, Min(solid), Max(solid))
  BY <1>2, Zenon DEF trim
<1>5. solid # {} => Min(solid) \in 1..n /\ Max(solid) \in 1..n
  <2> SUFFICES ASSUME solid # {} PROVE Min(solid) \in solid /\ Max(solid) \in solid
    BY <1>3
  <2> QED
    BY <1>3, MinNat, MaxNat
<1>6. trim(t) \in Seq(Octets)
  <2>1. CASE solid = {}
    BY <1>4, <2>1, EmptySeq, Zenon
  <2>2. CASE solid # {}
    <3>1. PICK lo, hi : lo = Min(solid) /\ hi = Max(solid)
      OBVIOUS
    <3>2. lo \in 1..n /\ hi \in 1..n
      BY <1>5, <2>2, <3>1
    <3>3. SubSeq(t, lo, hi) \in Seq(Octets)
      BY <1>1, <3>2, SubSeqProperties
    <3> QED
      BY <1>4, <2>2, <3>1, <3>3, Zenon
  <2> QED
    BY <2>1, <2>2
<1>7. ASSUME \A k \in 1..Len(t) : t[k] \notin Blanks PROVE trim(t) = t
  <2>1. solid = 1..n
    BY <1>1, <1>2, <1>3, <1>7
  <2>2. CASE n = 0
    <3>1. 1..0 = {}
      OBVIOUS
    <3>2. solid = {}
      BY <2>1, <2>2, <3>1, Zenon
    <3>3. t = <<>>
      BY <1>1, <2>2, EmptySeq
    <3> QED
      BY <1>4, <3>2, <3>3, Zenon
  <2>3. CASE n # 0
    <3>a. 1 \in 1..n /\ n \in 1..n
      BY <2>3
    <3>b. 1..n \in SUBSET Int /\ \A x \in 1..n : 1 <= x /\ x <= n
      OBVIOUS
    <3>1. 1 \in 1..n /\ n \in 1..n /\ 1..n \in SUBSET Int /\ 1..n # {}
          /\ \A x \in 1..n : 1 <= x /\ x <= n
      BY <3>a, <3>b, Zenon
    <3>2. Min(solid) = 1 /\ Max(solid) = n
      BY <2>1, <3>1, MinIs, MaxIs, Zenon
    <3>3. SubSeq(t, 1, Len(t)) = t
      BY SubSeqFull
    <3> QED
      BY <1>1, <1>4, <2>1, <3>1, <3>2, <3>3, Zenon
  <2> QED
    BY <2>2, <2>3
<1> QED
  BY <1>6, <1>7

\* The end of a piece is behind its beginning.
LEMMA PieceEnds ==
  ASSUME NEW s \in Seq(Octets), NEW d, NEW b \in 0..Len(s)
  PROVE  /\ pieceEnd(s, d, b) \in (b + 1)..(Len(s) + 1)
         /\ \A e \in (b + 1)..(Len(s) + 1) :
               /\ e = Len(s) + 1 \/ s[e] = d
               /\ \A c \in (b + 1)..(e - 1) : s[c] # d
               => pieceEnd(s, d, b) = e
<1>1. PICK n \in Nat : n = Len(s)
  OBVIOUS
<1>2. PICK ends : ends = {c \in (b + 1)..(n + 1) : c = n + 1 \/ s[c] = d}
  OBVIOUS
<1>3. pieceEnd(s, d, b) = Min(ends)
  BY <1>1, <1>2, Zenon DEF pieceEnd
<1>4. ends \in SUBSET Nat /\ ends \in SUBSET Int /\ n + 1 \in ends
  BY <1>1, <1>2
<1>5. Min(ends) \in ends
  BY <1>4, MinNat
<1>6. ASSUME NEW e \in (b + 1)..(n + 1), e = n + 1 \/ s[e] = d,
             \A c \in (b + 1)..(e - 1) : s[c] # d
      PROVE  Min(ends) = e
  <2>1. e \in ends
    BY <1>2, <1>6
  <2>2. \A c \in ends : e <= c
    <3> SUFFICES ASSUME NEW c \in ends, c < e PROVE FALSE
      BY <1>4, <2>1
    <3>1. c \in (b + 1)..(e - 1) /\ c # n + 1 /\ (c = n + 1 \/ s[c] = d)
      BY <1>1, <1>2
    <3> QED
      BY <1>6, <3>1
  <2> QED
    BY <1>4, <2>1, <2>2, MinIs
<1> QED
  BY <1>1, <1>2, <1>3, <1>5, <1>6

\* split goes from piece to piece.
PieceAt(s, d, b) == trim(SubSeq(s, b + 1, pieceEnd(s, d, b) - 1))

\* A piece that is empty is left out.
PieceGives(s, d, b) == IF PieceAt(s, d, b) = <<>> THEN <<>> ELSE <<PieceAt(s, d, b)>>

\* What split returns comes from such a walk.
Splits(f, s, d) ==
    /\ split(s, d) = f[0] /\ f[Len(s) + 1] = <<>>
    /\ \A b \in 0..Len(s) : f[b] = PieceGives(s, d, b) \o f[pieceEnd(s, d, b)]

\* There is such a walk for every text.
LEMMA SplitsPieces ==
  ASSUME NEW s \in Seq(Octets), NEW d
  PROVE  \E f : Splits(f, s, d)
<1>1. PICK n \in Nat : n = Len(s)
  OBVIOUS
<1> DEFINE g == [b \in 0..n |-> PieceGives(s, d, b)]
           nx == [b \in 0..n |-> pieceEnd(s, d, b)]
           Pieces(f) == f = [b \in 0..(Len(s) + 1) |->
                IF b = Len(s) + 1 THEN <<>>
                ELSE LET piece == trim(SubSeq(s, b + 1, pieceEnd(s, d, b) - 1))
                     IN (IF piece = <<>> THEN <<>> ELSE <<piece>>) \o f[pieceEnd(s, d, b)]]
<1>2. ASSUME NEW b \in 0..n
      PROVE  PieceGives(s, d, b) \in Seq(Seq(Octets)) /\ pieceEnd(s, d, b) \in (b + 1)..(n + 1)
  <2>1. pieceEnd(s, d, b) \in (b + 1)..(n + 1)
    BY <1>1, PieceEnds
  <2>2. PICK lo, hi : lo = b + 1 /\ hi = pieceEnd(s, d, b) - 1
    OBVIOUS
  <2>3. lo \in 1..(n + 1) /\ hi \in 0..n
    BY <2>1, <2>2
  <2>4. SubSeq(s, lo, hi) \in Seq(Octets)
    <3>1. \A k \in lo..hi : k \in 1..n
      BY <2>3
    <3> QED
      BY <1>1, <2>3, <3>1, SubSeqProperties
  <2>5. PICK p : p = PieceAt(s, d, b)
    OBVIOUS
  <2>6. p \in Seq(Octets)
    BY <2>2, <2>4, <2>5, TrimIs DEF PieceAt
  <2>7. <<p>> \in Seq(Seq(Octets)) /\ <<>> \in Seq(Seq(Octets))
    BY <2>6
  <2>8. PieceGives(s, d, b) = IF p = <<>> THEN <<>> ELSE <<p>>
    BY <2>5, Zenon DEF PieceGives
  <2> QED
    BY <2>1, <2>7, <2>8
<1>3. \A b \in 0..n : g[b] = PieceGives(s, d, b) /\ nx[b] = pieceEnd(s, d, b)
  OBVIOUS
<1> HIDE DEF g, nx
<1>4. PICK hi \in Int : hi = n + 1
  OBVIOUS
<1>5. PICK T : T = Seq(Octets)
  OBVIOUS
<1>6. PICK f : IsChain(f, T, g, nx, 0, hi)
  <2>1. 0 \in Int /\ 0 <= hi
    BY <1>4
  <2>2. \A b \in 0..(hi - 1) : g[b] \in Seq(T) /\ nx[b] \in (b + 1)..hi
    <3> SUFFICES ASSUME NEW b \in 0..(hi - 1) PROVE g[b] \in Seq(T) /\ nx[b] \in (b + 1)..hi
      OBVIOUS
    <3>1. b \in 0..n
      BY <1>4
    <3> QED
      BY <1>2, <1>3, <1>4, <1>5, <3>1
  <2>3. HasChain(T, g, nx, 0, hi)
    BY <2>1, <2>2, ChainExists
  <2> QED
    BY <2>3 DEF HasChain
<1>7. Pieces(f)
  <2>1. f = [b \in 0..(n + 1) |-> f[b]] /\ f[n + 1] = <<>>
    BY <1>4, <1>6, Zenon DEF IsChain
  <2>2. ASSUME NEW b \in 0..(n + 1), b # n + 1
        PROVE  f[b] = PieceGives(s, d, b) \o f[pieceEnd(s, d, b)]
    <3>1. b \in 0..n /\ b \in 0..(hi - 1)
      BY <1>4, <2>2
    <3>2. f[b] = g[b] \o f[nx[b]]
      BY <1>6, <3>1, Zenon DEF IsChain
    <3> QED
      BY <1>3, <3>1, <3>2, Zenon
  <2>3. f = [b \in 0..(n + 1) |->
                IF b = n + 1 THEN <<>>
                ELSE PieceGives(s, d, b) \o f[pieceEnd(s, d, b)]]
    BY <2>1, <2>2, Zenon
  <2> QED
    BY <1>1, <2>3, Zenon DEF PieceGives, PieceAt
<1> HIDE DEF Pieces
<1>8. PICK c : c = CHOOSE h : Pieces(h)
  OBVIOUS
<1>9. Pieces(c)
  BY <1>7, <1>8
<1>10. split(s, d) = c[0]
  BY <1>8, Zenon DEF split, Pieces
<1>11. ASSUME NEW b \in 0..(n + 1)
       PROVE  c[b] = IF b = n + 1 THEN <<>>
                     ELSE PieceGives(s, d, b) \o c[pieceEnd(s, d, b)]
  BY <1>1, <1>9, Zenon DEF Pieces, PieceGives, PieceAt
<1>12. c[n + 1] = <<>>
  <2>1. n + 1 \in 0..(n + 1)
    OBVIOUS
  <2> QED
    BY <1>11, <2>1, Zenon
<1>13. ASSUME NEW b \in 0..n PROVE c[b] = PieceGives(s, d, b) \o c[pieceEnd(s, d, b)]
  <2>1. b \in 0..(n + 1) /\ b # n + 1
    OBVIOUS
  <2> QED
    BY <1>11, <2>1, Zenon
<1>14. Splits(c, s, d)
  BY <1>1, <1>10, <1>12, <1>13, Zenon DEF Splits
<1> QED
  BY <1>14

\* A text without d and without blanks.
Solid(a, d) == a \in Seq(Octets) /\ \A k \in 1..Len(a) : a[k] # d /\ a[k] \notin Blanks

\* Two such texts with a d between them are split.
LEMMA SplitInTwo ==
  ASSUME NEW d \in Octets, NEW a, NEW b, Solid(a, d), Solid(b, d), a # <<>>
  PROVE  split(a \o (<<d>> \o b), d) = <<a>> \o (IF b = <<>> THEN <<>> ELSE <<b>>)
<1>1. a \in Seq(Octets) /\ b \in Seq(Octets)
  BY DEF Solid
<1>2. PICK m, n \in Nat : m = Len(a) /\ n = Len(b)
  BY <1>1
<1>3. PICK s : s = a \o (<<d>> \o b)
  OBVIOUS
<1>4. /\ s \in Seq(Octets) /\ Len(s) = m + n + 1 /\ s[m + 1] = d
      /\ \A k \in 1..m : s[k] = a[k]
      /\ \A k \in 1..n : s[m + 1 + k] = b[k]
  <2>1. <<d>> \in Seq(Octets) /\ Len(<<d>>) = 1 /\ <<d>>[1] = d
    OBVIOUS
  <2>2. PICK w, t : w = <<d>> /\ t = w \o b
    OBVIOUS
  <2>3. /\ t \in Seq(Octets) /\ Len(t) = n + 1 /\ t[1] = d /\ \A k \in 1..n : t[k + 1] = b[k]
    <3>1. /\ w \o b \in Seq(Octets) /\ Len(w \o b) = Len(w) + n
          /\ \A k \in 1..(Len(w) + n) : (w \o b)[k] = IF k <= Len(w) THEN w[k] ELSE b[k - Len(w)]
      BY <1>1, <1>2, <2>1, <2>2, ConcatProperties
    <3> QED
      BY <2>1, <2>2, <3>1
  <2>4. /\ a \o t \in Seq(Octets) /\ Len(a \o t) = m + (n + 1)
        /\ \A k \in 1..(m + (n + 1)) : (a \o t)[k] = IF k <= m THEN a[k] ELSE t[k - m]
    <3>1. /\ a \o t \in Seq(Octets) /\ Len(a \o t) = Len(a) + Len(t)
          /\ \A k \in 1..(Len(a) + Len(t)) :
                (a \o t)[k] = IF k <= Len(a) THEN a[k] ELSE t[k - Len(a)]
      BY <1>1, <2>3, ConcatProperties
    <3> QED
      BY <1>2, <2>3, <3>1, Zenon
  <2>5. s = a \o t
    BY <1>3, <2>2, Zenon
  <2>6. s[m + 1] = d
    <3>1. m + 1 \in 1..(m + (n + 1)) /\ ~(m + 1 <= m) /\ m + 1 - m = 1
      OBVIOUS
    <3> QED
      BY <2>3, <2>4, <2>5, <3>1
  <2>7. ASSUME NEW k \in 1..n PROVE s[m + 1 + k] = b[k]
    <3>1. m + 1 + k \in 1..(m + (n + 1)) /\ ~(m + 1 + k <= m) /\ m + 1 + k - m = k + 1
      OBVIOUS
    <3> QED
      BY <2>3, <2>4, <2>5, <3>1
  <2>8. \A k \in 1..m : s[k] = a[k]
    BY <2>4, <2>5
  <2>9. Len(s) = m + n + 1 /\ s \in Seq(Octets)
    BY <2>4, <2>5
  <2> QED
    BY <2>6, <2>7, <2>8, <2>9
<1>5. pieceEnd(s, d, 0) = m + 1
  <2>1. \A c \in 1..m : s[c] # d
    BY <1>2, <1>4 DEF Solid
  <2>2. m + 1 \in (0 + 1)..(Len(s) + 1) /\ (0 + 1)..(m + 1 - 1) = 1..m /\ 0 \in 0..Len(s)
    BY <1>4
  <2> QED
    BY <1>4, <2>1, <2>2, PieceEnds
<1>6. pieceEnd(s, d, m + 1) = m + n + 2
  <2>1. PICK z \in Nat : z = m + 1
    OBVIOUS
  <2>2. z \in 0..Len(s) /\ m + n + 2 \in (z + 1)..(Len(s) + 1) /\ m + n + 2 = Len(s) + 1
    BY <1>4, <2>1
  <2>3. ASSUME NEW c \in (z + 1)..(m + n + 2 - 1) PROVE s[c] # d
    <3>1. PICK k \in 1..n : k = c - (m + 1)
      BY <2>1
    <3>2. c = m + 1 + k
      BY <3>1
    <3> QED
      BY <1>2, <1>4, <3>2 DEF Solid
  <2> QED
    BY <1>4, <2>1, <2>2, <2>3, PieceEnds
<1>7. PieceAt(s, d, 0) = a
  <2>1. SubSeq(s, 1, m) = a
    <3>1. \A k \in 1..m : k \in 1..Len(s)
      BY <1>4
    <3>2. PICK u : u = SubSeq(s, 1, m)
      OBVIOUS
    <3>3. u \in Seq(Octets) /\ Len(u) = m /\ \A k \in 1..m : u[k] = s[k]
      BY <1>4, <3>1, <3>2, SubSeqProperties
    <3>4. u = a
      BY <1>1, <1>2, <1>4, <3>3, SeqEqual
    <3> QED
      BY <3>2, <3>4
  <2>2. trim(a) = a
    BY <1>1, TrimIs DEF Solid
  <2>3. PICK e, lo, hi : e = pieceEnd(s, d, 0) /\ lo = 0 + 1 /\ hi = e - 1
    OBVIOUS
  <2>4. PieceAt(s, d, 0) = trim(SubSeq(s, lo, hi))
    BY <2>3, Zenon DEF PieceAt
  <2>5. lo = 1 /\ hi = m
    BY <1>5, <2>3
  <2> QED
    BY <2>1, <2>2, <2>4, <2>5, Zenon
<1>8. PieceAt(s, d, m + 1) = b
  <2>1. SubSeq(s, m + 2, m + n + 1) = b
    <3>1. PICK lo, hi \in Nat : lo = m + 2 /\ hi = m + n + 1
      OBVIOUS
    <3>2. \A k \in lo..hi : k \in 1..Len(s)
      BY <1>4, <3>1
    <3>3. PICK u : u = SubSeq(s, lo, hi)
      OBVIOUS
    <3>4. /\ u \in Seq(Octets) /\ Len(u) = (IF lo <= hi THEN hi - lo + 1 ELSE 0)
          /\ \A k \in 1..(hi - lo + 1) : u[k] = s[lo + k - 1]
      BY <1>4, <3>1, <3>2, <3>3, SubSeqProperties
    <3>5. Len(u) = n /\ hi - lo + 1 = n /\ \A k \in 1..n : lo + k - 1 = m + 1 + k
      BY <3>1, <3>4
    <3>7. \A k \in 1..n : u[k] = b[k]
      BY <1>4, <3>4, <3>5, Zenon
    <3>6. u = b
      BY <1>1, <1>2, <3>4, <3>5, <3>7, SeqEqual
    <3> QED
      BY <3>1, <3>3, <3>6
  <2>2. trim(b) = b
    BY <1>1, TrimIs DEF Solid
  <2>3. PICK e, lo, hi : e = pieceEnd(s, d, m + 1) /\ lo = m + 1 + 1 /\ hi = e - 1
    OBVIOUS
  <2>4. PieceAt(s, d, m + 1) = trim(SubSeq(s, lo, hi))
    BY <2>3, Zenon DEF PieceAt
  <2>5. lo = m + 2 /\ hi = m + n + 1
    BY <1>6, <2>3
  <2> QED
    BY <2>1, <2>2, <2>4, <2>5, Zenon
<1>9. PICK f : Splits(f, s, d)
  BY <1>4, SplitsPieces
<1>10. f[0] = <<a>> \o f[m + 1]
  <2>1. 0 \in 0..Len(s)
    BY <1>4
  <2>2. PieceGives(s, d, 0) = <<a>>
    BY <1>7, Zenon DEF PieceGives
  <2> QED
    BY <1>5, <1>9, <2>1, <2>2, Zenon DEF Splits
<1>11. f[m + 1] = (IF b = <<>> THEN <<>> ELSE <<b>>) \o <<>>
  <2>1. m + 1 \in 0..Len(s) /\ m + n + 2 = Len(s) + 1
    BY <1>4
  <2>2. PieceGives(s, d, m + 1) = IF b = <<>> THEN <<>> ELSE <<b>>
    BY <1>8, Zenon DEF PieceGives
  <2>3. f[m + n + 2] = <<>>
    BY <1>9, <2>1, Zenon DEF Splits
  <2> QED
    BY <1>6, <1>9, <2>1, <2>2, <2>3, Zenon DEF Splits
<1>12. (IF b = <<>> THEN <<>> ELSE <<b>>) \o <<>> = IF b = <<>> THEN <<>> ELSE <<b>>
  <2>1. <<b>> \in Seq(Seq(Octets)) /\ <<>> \in Seq(Seq(Octets))
    BY <1>1
  <2>2. <<b>> \o <<>> = <<b>> /\ <<>> \o <<>> = <<>>
    BY <2>1, ConcatEmptySeq
  <2> QED
    BY <2>2
<1> QED
  BY <1>3, <1>9, <1>10, <1>11, <1>12, Zenon DEF Splits

\* What encode_query_param writes for a byte.
QueryCode == [x \in Octets |->
    IF isalnum(x) \/ x \in Unescaped THEN <<x>> ELSE Escape(x)]

-----------------------------------------------------------------------------
\* Neither blanks nor what separates parameters and their halves.
Plain == Octets \ {9, Space, Ampersand, Equals}

\* A byte of a parameter is read back, and its code has only plain bytes.
LEMMA QueryCoded ==
  /\ QueryCode \in [Octets -> Seq(Octets)]
  /\ \A x \in Octets : ReadsAs(QueryCode[x], x, TRUE) /\ QueryCode[x] \in Seq(Plain)
<1>1. ASSUME NEW x \in Octets
      PROVE  /\ Escape(x) \in Seq(Plain)
             /\ isalnum(x) \/ x \in Unescaped =>
                   <<x>> \in Seq(Plain) /\ x # Percent /\ x # Plus
  <2>1. PICK h, l : h = HexDigit(x \div 16) /\ l = HexDigit(x % 16)
    OBVIOUS
  <2>2. \A n \in 0..15 : HexDigit(n) \in Plain
    BY SMT DEF HexDigit, Plain, Octets, Space, Ampersand, Equals
  <2>3. h \in Plain /\ l \in Plain
    <3>1. x \div 16 \in 0..15 /\ x % 16 \in 0..15
      BY EscapeDigits
    <3> QED
      BY <2>1, <2>2, <3>1
  <2>4. Percent \in Plain
    BY SMT DEF Percent, Plain, Octets, Space, Ampersand, Equals
  <2>5. Escape(x) = <<Percent, h, l>>
    BY <2>1 DEF Escape
  <2>6. Escape(x) \in Seq(Plain)
    BY <2>3, <2>4, <2>5
  <2>7. ASSUME isalnum(x) \/ x \in Unescaped
        PROVE  x \in Plain /\ x # Percent /\ x # Plus
    BY <2>7, SMT DEF isalnum, Unescaped, Plain, Octets, Space, Ampersand, Equals, Percent, Plus
  <2>8. x \in Plain => <<x>> \in Seq(Plain)
    OBVIOUS
  <2> QED
    BY <2>6, <2>7, <2>8, Zenon
<1>2. ASSUME NEW x \in Octets
      PROVE  ReadsAs(QueryCode[x], x, TRUE) /\ QueryCode[x] \in Seq(Plain)
  <2>1. QueryCode[x] = IF isalnum(x) \/ x \in Unescaped THEN <<x>> ELSE Escape(x)
    BY Zenon DEF QueryCode
  <2>2. CASE isalnum(x) \/ x \in Unescaped
    BY <1>1, <2>1, <2>2, Zenon DEF ReadsAs
  <2>3. CASE ~(isalnum(x) \/ x \in Unescaped)
    BY <1>1, <2>1, <2>3, Zenon DEF ReadsAs
  <2> QED
    BY <2>2, <2>3, Zenon
<1>3. \A x \in Octets : QueryCode[x] \in Seq(Octets)
  <2>1. Plain \subseteq Octets
    BY DEF Plain
  <2> QED
    BY <1>2, <2>1, SeqGrows, Zenon
<1>4. QueryCode = [x \in Octets |-> QueryCode[x]]
  BY DEF QueryCode
<1> QED
  BY <1>2, <1>3, <1>4, Zenon

\* The code of a text is made of what its bytes are coded with.
LEMMA CodedWithin ==
  ASSUME NEW X, NEW M, NEW code, \A x \in X : code[x] \in Seq(M), NEW t \in Seq(X)
  PROVE  Coded(code, t) \in Seq(M)
<1>1. PICK all : all = [k \in DOMAIN t |-> code[t[k]]]
  OBVIOUS
<1>2. all \in Seq(Seq(M))
  <2>1. DOMAIN t = 1..Len(t) /\ Len(t) \in Nat /\ \A k \in 1..Len(t) : t[k] \in X
    BY LenProperties, ElementOfSeq
  <2>2. all \in [1..Len(t) -> Seq(M)]
    BY <1>1, <2>1
  <2> QED
    BY <2>1, <2>2, SeqDef
<1> QED
  BY <1>1, <1>2, FlattenType, Zenon DEF Coded

\* What encode_url writes for a byte of a URL without NUL and per cent sign.
UrlBytes == Octets \ {Nul, Percent}

\* The code of such a byte.
UrlCode == [x \in UrlBytes |-> IF EscapedInUrl(x) THEN Escape(x) ELSE <<x>>]

\* A byte of a URL is read back.
LEMMA UrlCoded ==
  /\ UrlCode \in [UrlBytes -> Seq(Octets)]
  /\ \A x \in UrlBytes : ReadsAs(UrlCode[x], x, FALSE)
<1>1. ASSUME NEW x \in UrlBytes
      PROVE  /\ x \in Octets /\ x # Percent
             /\ Escape(x) \in Seq(Octets) /\ <<x>> \in Seq(Octets)
  <2>1. x \in Octets /\ x # Percent
    BY Zenon DEF UrlBytes
  <2>2. PICK h, l : h = HexDigit(x \div 16) /\ l = HexDigit(x % 16)
    OBVIOUS
  <2>3. h \in Octets /\ l \in Octets
    BY <2>1, <2>2, EscapeDigits
  <2>4. Percent \in Octets
    BY DEF Percent, Octets
  <2>5. Escape(x) = <<Percent, h, l>>
    BY <2>2 DEF Escape
  <2>6. <<Percent, h, l>> \in Seq(Octets) /\ <<x>> \in Seq(Octets)
    BY <2>1, <2>3, <2>4
  <2> QED
    BY <2>1, <2>5, <2>6, Zenon
<1>2. ASSUME NEW x \in UrlBytes
      PROVE  ReadsAs(UrlCode[x], x, FALSE) /\ UrlCode[x] \in Seq(Octets)
  <2>1. UrlCode[x] = IF EscapedInUrl(x) THEN Escape(x) ELSE <<x>>
    BY Zenon DEF UrlCode
  <2>2. CASE EscapedInUrl(x)
    BY <1>1, <2>1, <2>2, Zenon DEF ReadsAs
  <2>3. CASE ~EscapedInUrl(x)
    BY <1>1, <2>1, <2>3, Zenon DEF ReadsAs
  <2> QED
    BY <2>2, <2>3, Zenon
<1>3. UrlCode = [x \in UrlBytes |-> UrlCode[x]]
  BY DEF UrlCode
<1> QED
  BY <1>2, <1>3, Zenon

\* encode_query_param and encode_url write the code of each byte.
LEMMA EncodersCode ==
  ASSUME NEW t \in Seq(Octets)
  PROVE  /\ encode_query_param(t) = Coded(QueryCode, t)
         /\ (\A k \in DOMAIN t : t[k] \notin {Nul, Percent}) =>
               t \in Seq(UrlBytes) /\ encode_url(t) = Coded(UrlCode, t)
<1>1. DOMAIN t = 1..Len(t) /\ Len(t) \in Nat /\ \A k \in DOMAIN t : t[k] \in Octets
  BY LenProperties, ElementOfSeq
<1>2. encode_query_param(t) = Coded(QueryCode, t)
  <2>1. \A k \in DOMAIN t :
           QueryCode[t[k]] = IF isalnum(t[k]) \/ t[k] \in Unescaped
                             THEN <<t[k]>> ELSE Escape(t[k])
    BY <1>1, Zenon DEF QueryCode
  <2>2. [k \in DOMAIN t |-> QueryCode[t[k]]]
            = [k \in DOMAIN t |-> IF isalnum(t[k]) \/ t[k] \in Unescaped
                                  THEN <<t[k]>> ELSE Escape(t[k])]
    BY <2>1, Zenon
  <2> QED
    BY <2>2, Zenon DEF encode_query_param, Coded
<1>3. ASSUME \A k \in DOMAIN t : t[k] \notin {Nul, Percent}
      PROVE  t \in Seq(UrlBytes) /\ encode_url(t) = Coded(UrlCode, t)
  <2>1. \A k \in DOMAIN t : t[k] \in UrlBytes
    BY <1>1, <1>3, Zenon DEF UrlBytes
  <2>2. t \in Seq(UrlBytes)
    <3>1. t \in [1..Len(t) -> UrlBytes]
      BY <1>1, <2>1, LenProperties
    <3> QED
      BY <1>1, <3>1, SeqDef
  <2>3. {k \in DOMAIN t : t[k] = Nul} = {}
    BY <1>3
  <2>4. \A k \in DOMAIN t :
           UrlCode[t[k]] = IF EscapedInUrl(t[k]) THEN Escape(t[k]) ELSE <<t[k]>>
    BY <2>1, Zenon DEF UrlCode
  <2>5. [k \in DOMAIN t |-> UrlCode[t[k]]]
            = [k \in DOMAIN t |-> IF EscapedInUrl(t[k]) THEN Escape(t[k]) ELSE <<t[k]>>]
    BY <2>4, Zenon
  <2>6. encode_url(t) = Coded(UrlCode, t)
    BY <2>3, <2>5, Zenon DEF encode_url, Coded
  <2> QED
    BY <2>2, <2>6
<1> QED
  BY <1>2, <1>3, Zenon

\* A text of plain bytes can be split from another.
LEMMA PlainSolid ==
  ASSUME NEW d, NEW t \in Seq(Octets \ {9, Space, d})
  PROVE  Solid(t, d)
<1>1. t \in Seq(Octets)
  BY SeqGrows
<1>2. \A k \in 1..Len(t) : t[k] \in Octets \ {9, Space, d}
  BY ElementOfSeq
<1> QED
  BY <1>1, <1>2, Zenon DEF Solid, Blanks

\* Query(k, q): a parameter with a key of one letter, as a query has it.
Query(x, q) == <<x>> \o (<<Equals>> \o q)

\* What encode_query_param writes is read back.
LEMMA QueryRead ==
  ASSUME NEW t \in Seq(Octets)
  PROVE  decode_url(Coded(QueryCode, t), TRUE) = t
<1>1. PICK X : X = Octets
  OBVIOUS
<1>2. PICK code : code = QueryCode
  OBVIOUS
<1>3. PICK conv : conv = TRUE
  OBVIOUS
<1>4. X \in SUBSET Octets
  BY <1>1
<1>5. code \in [X -> Seq(Octets)]
  BY <1>1, <1>2, QueryCoded
<1>6. \A x \in X : ReadsAs(code[x], x, conv)
  BY <1>1, <1>2, <1>3, QueryCoded
<1>7. t \in Seq(X)
  BY <1>1
<1>8. decode_url(Coded(code, t), conv) = t
  BY <1>4, <1>5, <1>6, <1>7, CodedRead
<1> QED
  BY <1>2, <1>3, <1>8

\* What encode_query_param writes is plain.
LEMMA QueryPlain ==
  ASSUME NEW t \in Seq(Octets)
  PROVE  Coded(QueryCode, t) \in Seq(Plain)
<1>1. PICK X : X = Octets
  OBVIOUS
<1>2. PICK M : M = Plain
  OBVIOUS
<1>3. \A x \in X : QueryCode[x] \in Seq(M)
  BY <1>1, <1>2, QueryCoded
<1>4. t \in Seq(X)
  BY <1>1
<1>5. Coded(QueryCode, t) \in Seq(M)
  BY <1>3, <1>4, CodedWithin
<1> QED
  BY <1>2, <1>5

\* Query(k, q) cut at its sign.
LEMMA QuerySplit ==
  ASSUME NEW a, NEW b, Solid(a, Equals), Solid(b, Equals), a # <<>>
  PROVE  split(a \o (<<Equals>> \o b), Equals)
            = <<a>> \o (IF b = <<>> THEN <<>> ELSE <<b>>)
<1>1. PICK d : d = Equals
  OBVIOUS
<1>2. d \in Octets
  BY <1>1 DEF Equals, Octets
<1>3. Solid(a, d) /\ Solid(b, d)
  BY <1>1
<1>4. split(a \o (<<d>> \o b), d) = <<a>> \o (IF b = <<>> THEN <<>> ELSE <<b>>)
  BY <1>2, <1>3, SplitInTwo
<1> QED
  BY <1>1, <1>4

\* A byte that stands for itself.
LEMMA QueryOne ==
  ASSUME NEW x \in Octets, QueryCode[x] = <<x>>
  PROVE  Coded(QueryCode, <<x>>) = <<x>>
<1>1. PICK X, code : X = Octets /\ code = QueryCode
  OBVIOUS
<1>2. code \in [X -> Seq(Octets)]
  BY <1>1, QueryCoded
<1>3. x \in X
  BY <1>1
<1>4. Coded(code, <<x>>) = code[x]
  BY <1>2, <1>3, CodedOne
<1> QED
  BY <1>1, <1>4

\* A parameter is read back.
LEMMA FieldRead ==
  ASSUME NEW t \in Seq(Octets), NEW q, q = encode_query_param(t), NEW x \in {65, 66}
  PROVE  parse_field(Query(x, q)) = <<[key |-> <<x>>, val |-> t]>>
<1>0. /\ QueryCode \in [Octets -> Seq(Octets)]
      /\ \A y \in Octets : ReadsAs(QueryCode[y], y, TRUE) /\ QueryCode[y] \in Seq(Plain)
  BY QueryCoded
<1>1. q = Coded(QueryCode, t)
  BY EncodersCode
<1>2. decode_url(q, TRUE) = t
  BY <1>1, QueryRead
<1>3. q \in Seq(Plain)
  BY <1>1, QueryPlain
<1>4. x \in Octets /\ x \in Octets \ {9, Space, Equals} /\ isalnum(x) /\ Equals \in Octets
  BY SMT DEF Octets, Space, Equals, isalnum
<1>5. decode_url(<<x>>, TRUE) = <<x>>
  <2>1. QueryCode[x] = <<x>>
    BY <1>4, Zenon DEF QueryCode
  <2>2. <<>> \in Seq(Octets) /\ <<x>> \in Seq(Octets)
    BY <1>4
  <2>3. Coded(QueryCode, <<x>>) = <<x>>
    BY <1>4, <2>1, QueryOne, Zenon
  <2>4. decode_url(Coded(QueryCode, <<x>>), TRUE) = <<x>>
    BY <2>2, QueryRead
  <2> QED
    BY <2>3, <2>4, Zenon
<1>6. Solid(<<x>>, Equals) /\ <<x>> # <<>>
  <2>1. <<x>> \in Seq(Octets \ {9, Space, Equals})
    BY <1>4
  <2>2. <<x>> # <<>>
    OBVIOUS
  <2> QED
    BY <2>1, <2>2, PlainSolid
<1>7. Solid(q, Equals)
  <2>1. Plain \subseteq Octets \ {9, Space, Equals}
    BY DEF Plain
  <2>2. q \in Seq(Octets \ {9, Space, Equals})
    BY <1>3, <2>1, SeqGrows
  <2> QED
    BY <2>2, PlainSolid
<1>8. PICK halves : halves = split(Query(x, q), Equals)
  OBVIOUS
<1>9. halves = <<<<x>>>> \o (IF q = <<>> THEN <<>> ELSE <<q>>)
  <2>1. PICK a : a = <<x>>
    OBVIOUS
  <2>2. split(a \o (<<Equals>> \o q), Equals) = <<a>> \o (IF q = <<>> THEN <<>> ELSE <<q>>)
    BY <1>6, <1>7, <2>1, QuerySplit
  <2> QED
    BY <1>8, <2>1, <2>2, Zenon DEF Query
<1>10. parse_field(Query(x, q))
          = IF halves = <<>> THEN <<>>
            ELSE <<[key |-> decode_url(Head(halves), TRUE),
                    val |-> IF Len(halves) = 1 THEN <<>> ELSE decode_url(Last(halves), TRUE)]>>
  BY <1>8, Zenon DEF parse_field
<1>11. CASE q = <<>>
  <2>1. halves = <<<<x>>>>
    <3>1. PICK w : w = <<<<x>>>>
      OBVIOUS
    <3>2. w \in Seq(Seq(Octets))
      BY <1>4, <3>1
    <3>3. w \o <<>> = w
      BY <3>2, ConcatEmptySeq
    <3> QED
      BY <1>9, <1>11, <3>1, <3>3, Zenon
  <2>2. halves # <<>> /\ Len(halves) = 1 /\ Head(halves) = <<x>>
    BY <2>1
  <2>3. t = <<>>
    <3>1. <<>> \in Seq(Octets)
      OBVIOUS
    <3>2. decode_url(Coded(QueryCode, <<>>), TRUE) = <<>>
      BY <3>1, QueryRead
    <3> QED
      BY <1>2, <1>11, <3>2, CodedNone, Zenon
  <2> QED
    BY <1>5, <1>10, <2>2, <2>3, Zenon
<1>12. CASE q # <<>>
  <2>1. halves = <<<<x>>, q>>
    <3>0. PICK a : a = <<x>>
      OBVIOUS
    <3>1. a = <<x>> /\ a \in Seq(Octets)
      BY <1>4, <3>0
    <3>2. PICK w : w = <<a>>
      OBVIOUS
    <3>3. w \in Seq(Seq(Octets)) /\ q \in Seq(Octets)
      BY <1>7, <3>1, <3>2 DEF Solid
    <3>4. w \o <<q>> = <<a, q>>
      BY <3>1, <3>2, <3>3, PairJoined
    <3> QED
      BY <1>9, <1>12, <3>1, <3>2, <3>4, Zenon
  <2>2. halves # <<>> /\ Len(halves) # 1 /\ Head(halves) = <<x>> /\ Last(halves) = q
    BY <2>1 DEF Last
  <2> QED
    BY <1>2, <1>5, <1>10, <2>2, Zenon
<1> QED
  BY <1>11, <1>12

\* A parameter of a query can be told from the next.
LEMMA QuerySolid ==
  ASSUME NEW q \in Seq(Plain), NEW x \in {65, 66}
  PROVE  /\ Query(x, q) \in Seq(Octets) /\ Query(x, q) # <<>>
         /\ Solid(Query(x, q), Ampersand)
<1>1. PICK M : M = Octets \ {9, Space, Ampersand}
  OBVIOUS
<1>2. x \in M /\ Equals \in M /\ Plain \subseteq M /\ M \subseteq Octets
  BY <1>1, SMT DEF Octets, Plain, Space, Ampersand, Equals
<1>3. q \in Seq(M)
  BY <1>2, SeqGrows
<1>4. PICK a, b : a = <<x>> /\ b = <<Equals>>
  OBVIOUS
<1>5. a \in Seq(M) /\ b \in Seq(M) /\ Len(a) = 1
  BY <1>2, <1>4
<1>6. PICK r : r = b \o q
  OBVIOUS
<1>7. r \in Seq(M)
  BY <1>3, <1>5, <1>6, ConcatProperties
<1>8. PICK w : w = a \o r
  OBVIOUS
<1>9. w \in Seq(M) /\ Len(w) = 1 + Len(r) /\ Len(r) \in Nat
  <2>1. w \in Seq(M) /\ IsJoin(w, a, r)
    BY <1>5, <1>7, <1>8, JoinedSeqs
  <2>2. Len(r) \in Nat
    BY <1>7, LenProperties
  <2> QED
    BY <1>5, <2>1, <2>2 DEF IsJoin
<1>10. w # <<>>
  BY <1>9
<1>11. w = Query(x, q)
  BY <1>4, <1>6, <1>8 DEF Query
<1>12. w \in Seq(Octets)
  BY <1>2, <1>9, SeqGrows
<1>13. Solid(w, Ampersand)
  BY <1>1, <1>9, PlainSolid
<1> QED
  BY <1>10, <1>11, <1>12, <1>13

\* The query of two parameters.
LEMMA QueryOfTwo ==
  ASSUME NEW t \in Seq(Octets), NEW q \in Seq(Plain), q = encode_query_param(t)
  PROVE  params_to_query_str(<<[key |-> <<65>>, val |-> t], [key |-> <<66>>, val |-> t]>>)
            = Query(65, q) \o (<<Ampersand>> \o Query(66, q))
<1>1. PICK params : params = <<[key |-> <<65>>, val |-> t], [key |-> <<66>>, val |-> t]>>
  OBVIOUS
<1>2. /\ DOMAIN params = 1..2
      /\ params[1].key = <<65>> /\ params[1].val = t
      /\ params[2].key = <<66>> /\ params[2].val = t
  BY <1>1
<1>3. PICK u : u = [k \in DOMAIN params |->
        (IF k = 1 THEN <<>> ELSE <<Ampersand>>)
        \o params[k].key \o <<Equals>> \o encode_query_param(params[k].val)]
  OBVIOUS
<1>4. params_to_query_str(params) = FlattenSeq(u)
  BY <1>3, Zenon DEF params_to_query_str
<1>5. PICK none, amp, eq, a, b :
        none = <<>> /\ amp = <<Ampersand>> /\ eq = <<Equals>> /\ a = <<65>> /\ b = <<66>>
  OBVIOUS
<1>6. PICK M : M = Seq(Octets)
  OBVIOUS
<1>7. none \in M /\ amp \in M /\ eq \in M /\ a \in M /\ b \in M
  <2>1. Ampersand \in Octets /\ Equals \in Octets /\ 65 \in Octets /\ 66 \in Octets
    BY SMT DEF Octets, Ampersand, Equals
  <2> QED
    BY <1>5, <1>6, <2>1
<1>8. q \in M
  <2>1. Plain \subseteq Octets
    BY DEF Plain
  <2> QED
    BY <1>6, <2>1, SeqGrows
<1>9. Regroups(M)
  BY <1>6, SeqRegroups
<1>10. u[1] = ((none \o a) \o eq) \o q
  <2>1. u[1] = (IF 1 = 1 THEN <<>> ELSE <<Ampersand>>)
               \o params[1].key \o <<Equals>> \o encode_query_param(params[1].val)
    <3>1. 1 \in DOMAIN params
      BY <1>2
    <3> QED
      BY <1>3, <3>1, Zenon
  <2> QED
    BY <1>2, <1>5, <2>1, Zenon
<1>11. u[2] = ((amp \o b) \o eq) \o q
  <2>1. u[2] = (IF 2 = 1 THEN <<>> ELSE <<Ampersand>>)
               \o params[2].key \o <<Equals>> \o encode_query_param(params[2].val)
    <3>1. 2 \in DOMAIN params
      BY <1>2
    <3> QED
      BY <1>3, <3>1, Zenon
  <2>2. (IF 2 = 1 THEN <<>> ELSE <<Ampersand>>) = <<Ampersand>>
    OBVIOUS
  <2> QED
    BY <1>2, <1>5, <2>1, <2>2, Zenon
<1>12. PICK g, h : g = a \o (eq \o q) /\ h = b \o (eq \o q)
  OBVIOUS
<1>13. g = Query(65, q) /\ h = Query(66, q)
  BY <1>5, <1>12, Zenon DEF Query
<1>14. eq \o q \in M /\ amp \o b \in M /\ g \in M /\ h \in M
  <2>1. \A s1, s2 \in M : s1 \o s2 \in M
    BY <1>6, ConcatProperties
  <2> QED
    BY <1>7, <1>8, <1>12, <2>1, Zenon
<1>15. u[1] = g
  <2>1. none \o a = a
    BY <1>5, <1>6, <1>7, ConcatEmptySeq
  <2>2. (a \o eq) \o q = a \o (eq \o q)
    <3>1. \A s1, s2, s3 \in M : (s1 \o s2) \o s3 = s1 \o (s2 \o s3)
      BY <1>9, Zenon DEF Regroups
    <3>2. a \in M /\ eq \in M /\ q \in M
      BY <1>7, <1>8
    <3> QED
      BY <3>1, <3>2
  <2> QED
    BY <1>10, <1>12, <2>1, <2>2, Zenon
<1>16. u[2] = amp \o h
  <2>1. PICK ab, eqq : ab = amp \o b /\ eqq = eq \o q
    OBVIOUS
  <2>2. ab \in M /\ eqq \in M
    BY <1>14, <2>1
  <2>3. (ab \o eq) \o q = ab \o (eq \o q)
    <3>1. \A s1, s2, s3 \in M : (s1 \o s2) \o s3 = s1 \o (s2 \o s3)
      BY <1>9, Zenon DEF Regroups
    <3>2. ab \in M /\ eq \in M /\ q \in M
      BY <1>7, <1>8, <2>2
    <3> QED
      BY <3>1, <3>2
  <2>4. (amp \o b) \o eqq = amp \o (b \o eqq)
    <3>1. \A s1, s2, s3 \in M : (s1 \o s2) \o s3 = s1 \o (s2 \o s3)
      BY <1>9, Zenon DEF Regroups
    <3>2. amp \in M /\ b \in M /\ eqq \in M
      BY <1>7, <2>2
    <3> QED
      BY <3>1, <3>2
  <2> QED
    BY <1>11, <1>12, <2>1, <2>3, <2>4, Zenon
<1>17. PICK r : r = amp \o h
  OBVIOUS
<1>18. r \in M
  BY <1>6, <1>7, <1>14, <1>17, ConcatProperties
<1>19. u = <<g, r>>
  <2>1. DOMAIN u = 1..2 /\ u = [k \in 1..2 |-> u[k]]
    BY <1>2, <1>3
  <2> QED
    BY <1>14, <1>15, <1>16, <1>17, <1>18, <2>1, PairOf
<1>20. FlattenSeq(<<g, r>>) = g \o r
  BY <1>6, <1>14, <1>18, FlatTwo
<1> QED
  BY <1>1, <1>4, <1>5, <1>13, <1>17, <1>19, <1>20, Zenon

\* A server reads the two parameters.
LEMMA QueryParsed ==
  ASSUME NEW t \in Seq(Octets), NEW q \in Seq(Plain), q = encode_query_param(t)
  PROVE  parse_query_text(Query(65, q) \o (<<Ampersand>> \o Query(66, q)))
            = <<[key |-> <<65>>, val |-> t], [key |-> <<66>>, val |-> t]>>
<1>1. PICK a, b, d : a = Query(65, q) /\ b = Query(66, q) /\ d = Ampersand
  OBVIOUS
<1>2. /\ a \in Seq(Octets) /\ a # <<>> /\ Solid(a, d)
      /\ b \in Seq(Octets) /\ b # <<>> /\ Solid(b, d)
  BY <1>1, QuerySolid
<1>3. d \in Octets
  BY <1>1 DEF Ampersand, Octets
<1>4. split(a \o (<<d>> \o b), d) = <<a>> \o (IF b = <<>> THEN <<>> ELSE <<b>>)
  BY <1>2, <1>3, SplitInTwo
<1>5. PICK fields : fields = split(a \o (<<d>> \o b), d)
  OBVIOUS
<1>6. fields = <<a, b>>
  <2>1. <<a>> \o <<b>> = <<a, b>>
    BY <1>2, PairJoined
  <2> QED
    BY <1>2, <1>4, <1>5, <2>1, Zenon
<1>7. DOMAIN fields = 1..2 /\ fields[1] = a /\ fields[2] = b
  BY <1>6
<1>8. PICK u : u = [k \in DOMAIN fields |-> parse_field(fields[k])]
  OBVIOUS
<1>9. parse_query_text(a \o (<<d>> \o b)) = FlattenSeq(u)
  BY <1>1, <1>5, <1>8, Zenon DEF parse_query_text
<1>10. PICK v, w : v = [key |-> <<65>>, val |-> t] /\ w = [key |-> <<66>>, val |-> t]
  OBVIOUS
<1>11. u[1] = <<v>> /\ u[2] = <<w>>
  <2>1. u[1] = parse_field(a) /\ u[2] = parse_field(b)
    <3>1. 1 \in DOMAIN fields /\ 2 \in DOMAIN fields
      BY <1>7
    <3> QED
      BY <1>7, <1>8, <3>1, Zenon
  <2>2. parse_field(Query(65, q)) = <<[key |-> <<65>>, val |-> t]>>
    BY FieldRead
  <2>3. parse_field(Query(66, q)) = <<[key |-> <<66>>, val |-> t]>>
    BY FieldRead
  <2> QED
    BY <1>1, <1>10, <2>1, <2>2, <2>3, Zenon
<1>12. PICK T : T = {v, w}
  OBVIOUS
<1>13. PICK y, z : y = <<v>> /\ z = <<w>>
  OBVIOUS
<1>14. y \in Seq(T) /\ z \in Seq(T)
  BY <1>12, <1>13
<1>15. u = <<y, z>>
  <2>1. DOMAIN u = 1..2 /\ u = [k \in 1..2 |-> u[k]]
    BY <1>7, <1>8
  <2>2. PICK M : M = Seq(T)
    OBVIOUS
  <2>3. y \in M /\ z \in M /\ u[1] = y /\ u[2] = z
    BY <1>11, <1>13, <1>14, <2>2
  <2> QED
    BY <2>1, <2>3, PairOf
<1>16. FlattenSeq(<<y, z>>) = y \o z
  BY <1>14, FlatTwo
<1>17. y \o z = <<v, w>>
  <2>1. v \in T /\ w \in T
    BY <1>12
  <2>2. <<v>> \o <<w>> = <<v, w>>
    BY <2>1, PairJoined
  <2> QED
    BY <1>13, <2>2, Zenon
<1> QED
  BY <1>1, <1>9, <1>10, <1>15, <1>16, <1>17, Zenon

\* UrlsRoundTrip: what encode_query_param, encode_url and params_to_query_str
\* write, decode_url and parse_query_text read back.
LEMMA UrlsRead ==
  ASSUME in \in Seq(Octets)
  PROVE  UrlsRoundTrip
<1>1. PICK q : q = encode_query_param(in)
  OBVIOUS
<1>2. q = Coded(QueryCode, in)
  BY <1>1, EncodersCode
<1>3. decode_url(q, TRUE) = in
  BY <1>2, QueryRead
<1>4. q \in Seq(Plain)
  BY <1>2, QueryPlain
<1>5. ASSUME \A k \in DOMAIN in : in[k] \notin {Nul, Percent}
      PROVE  decode_url(encode_url(in), FALSE) = in
  <2>1. PICK X, code, conv : X = UrlBytes /\ code = UrlCode /\ conv = FALSE
    OBVIOUS
  <2>2. X \in SUBSET Octets
    BY <2>1 DEF UrlBytes
  <2>3. code \in [X -> Seq(Octets)]
    BY <2>1, UrlCoded
  <2>4. \A x \in X : ReadsAs(code[x], x, conv)
    BY <2>1, UrlCoded
  <2>5. in \in Seq(X) /\ encode_url(in) = Coded(code, in)
    BY <1>5, <2>1, EncodersCode
  <2>6. decode_url(Coded(code, in), conv) = in
    BY <2>2, <2>3, <2>4, <2>5, CodedRead
  <2> QED
    BY <2>1, <2>5, <2>6
<1>6. PICK params : params = <<[key |-> <<65>>, val |-> in], [key |-> <<66>>, val |-> in]>>
  OBVIOUS
<1>7. parse_query_text(params_to_query_str(params)) = params
  <2>1. params_to_query_str(<<[key |-> <<65>>, val |-> in], [key |-> <<66>>, val |-> in]>>)
            = Query(65, q) \o (<<Ampersand>> \o Query(66, q))
    BY <1>1, <1>4, QueryOfTwo
  <2>2. parse_query_text(Query(65, q) \o (<<Ampersand>> \o Query(66, q)))
            = <<[key |-> <<65>>, val |-> in], [key |-> <<66>>, val |-> in]>>
    BY <1>1, <1>4, QueryParsed
  <2> QED
    BY <1>6, <2>1, <2>2, Zenon
<1> QED
  BY <1>1, <1>3, <1>5, <1>6, <1>7, Zenon DEF UrlsRoundTrip

-----------------------------------------------------------------------------
\* The bytes of a text, and zeros behind them; and the bits of a byte.
Byte(s, k) == IF k <= Len(s) THEN s[k] ELSE 0

\* Bit c of a byte, from the highest.
ByteBit(x, c) == (x \div 2^(7 - c)) % 2

\* The bits of a byte, one by one, from what is left when it is shifted.
BitsAre(x, h7, h6, h5, h4, h3, h2, h1, h0) ==
    /\ ByteBit(x, 0) = h7 % 2 /\ ByteBit(x, 1) = h6 % 2 /\ ByteBit(x, 2) = h5 % 2
    /\ ByteBit(x, 3) = h4 % 2 /\ ByteBit(x, 4) = h3 % 2 /\ ByteBit(x, 5) = h2 % 2
    /\ ByteBit(x, 6) = h1 % 2 /\ ByteBit(x, 7) = h0 % 2

\* They are.
LEMMA ByteBits ==
  ASSUME NEW x, NEW h7, NEW h6, NEW h5, NEW h4, NEW h3, NEW h2, NEW h1, NEW h0,
         x \div 128 = h7, x \div 64 = h6, x \div 32 = h5, x \div 16 = h4,
         x \div 8 = h3, x \div 4 = h2, x \div 2 = h1, x \div 1 = h0
  PROVE  BitsAre(x, h7, h6, h5, h4, h3, h2, h1, h0)
<1>1. /\ 2^(7 - 0) = 128 /\ 2^(7 - 1) = 64 /\ 2^(7 - 2) = 32 /\ 2^(7 - 3) = 16
      /\ 2^(7 - 4) = 8 /\ 2^(7 - 5) = 4 /\ 2^(7 - 6) = 2 /\ 2^(7 - 7) = 1
  BY SMT
<1>2. /\ ByteBit(x, 0) = h7 % 2 /\ ByteBit(x, 1) = h6 % 2
      /\ ByteBit(x, 2) = h5 % 2 /\ ByteBit(x, 3) = h4 % 2
  BY <1>1, Zenon DEF ByteBit
<1>3. /\ ByteBit(x, 4) = h3 % 2 /\ ByteBit(x, 5) = h2 % 2
      /\ ByteBit(x, 6) = h1 % 2 /\ ByteBit(x, 7) = h0 % 2
  BY <1>1, Zenon DEF ByteBit
<1> QED
  BY <1>2, <1>3, Zenon DEF BitsAre

\* Bit counts the bits of a text through its bytes.
LEMMA BitOf ==
  ASSUME NEW s \in Seq(Octets), NEW m \in Nat, NEW c \in 0..7
  PROVE  Bit(s, 8 * m + c + 1) = ByteBit(Byte(s, m + 1), c)
<1>1. PICK k : k = 8 * m + c + 1
  OBVIOUS
<1>2. k \in Nat /\ (k - 1) \div 8 = m /\ (k - 1) % 8 = c /\ Len(s) \in Nat
  BY <1>1
<1>3. Bit(s, k) = IF k > 8 * Len(s) THEN 0 ELSE (s[m + 1] \div 2^(7 - c)) % 2
  BY <1>2, Zenon DEF Bit
<1>4. CASE k > 8 * Len(s)
  <2>1. ~(m + 1 <= Len(s))
    BY <1>1, <1>2, <1>4
  <2>2. Byte(s, m + 1) = 0
    BY <2>1, Zenon DEF Byte
  <2>3. ByteBit(0, c) = 0
    <3>1. c = 0 \/ c = 1 \/ c = 2 \/ c = 3 \/ c = 4 \/ c = 5 \/ c = 6 \/ c = 7
      OBVIOUS
    <3>2. PICK z : z = 0
      OBVIOUS
    <3>3. /\ z \div 128 = z /\ z \div 64 = z /\ z \div 32 = z /\ z \div 16 = z
          /\ z \div 8 = z /\ z \div 4 = z /\ z \div 2 = z /\ z \div 1 = z
          /\ z % 2 = 0
      BY <3>2
    <3>b. BitsAre(z, z, z, z, z, z, z, z, z)
      BY <3>3, ByteBits, Zenon
    <3>4. /\ ByteBit(z, 0) = 0 /\ ByteBit(z, 1) = 0 /\ ByteBit(z, 2) = 0
          /\ ByteBit(z, 3) = 0 /\ ByteBit(z, 4) = 0 /\ ByteBit(z, 5) = 0
          /\ ByteBit(z, 6) = 0 /\ ByteBit(z, 7) = 0
      BY <3>3, <3>b, Zenon DEF BitsAre
    <3>5. ByteBit(z, c) = 0
      BY <3>1, <3>4, Zenon
    <3> QED
      BY <3>2, <3>5
  <2> QED
    BY <1>1, <1>3, <1>4, <2>2, <2>3, Zenon
<1>5. CASE ~(k > 8 * Len(s))
  <2>1. m + 1 <= Len(s)
    BY <1>1, <1>2, <1>5
  <2>2. Byte(s, m + 1) = s[m + 1]
    BY <2>1, Zenon DEF Byte
  <2> QED
    BY <1>1, <1>3, <1>5, <2>2, Zenon DEF ByteBit
<1> QED
  BY <1>4, <1>5

\* A byte of a text, and behind it, is a byte.
LEMMA ByteType ==
  ASSUME NEW s \in Seq(Octets), NEW k \in Nat \ {0}
  PROVE  Byte(s, k) \in Octets
<1>1. CASE k <= Len(s)
  <2>1. k \in 1..Len(s)
    BY <1>1
  <2> QED
    BY <1>1, <2>1, ElementOfSeq DEF Byte
<1>2. CASE ~(k <= Len(s))
  BY <1>2 DEF Byte, Octets
<1> QED
  BY <1>1, <1>2

\* The bits of a byte are what its halves leave.
LEMMA Halves ==
  ASSUME NEW x \in Int, 0 <= x, x <= 255
  PROVE  \E h1, h2, h3, h4, h5, h6, h7 \in Int :
            /\ x \div 1 = x /\ x \div 2 = h1 /\ x \div 4 = h2 /\ x \div 8 = h3
            /\ x \div 16 = h4 /\ x \div 32 = h5 /\ x \div 64 = h6 /\ x \div 128 = h7
            /\ x % 2 = x - 2 * h1 /\ h1 % 2 = h1 - 2 * h2 /\ h2 % 2 = h2 - 2 * h3
            /\ h3 % 2 = h3 - 2 * h4 /\ h4 % 2 = h4 - 2 * h5 /\ h5 % 2 = h5 - 2 * h6
            /\ h6 % 2 = h6 - 2 * h7 /\ h7 % 2 = h7
            /\ x % 4 = x - 4 * h2 /\ x % 16 = x - 16 * h4 /\ x % 64 = x - 64 * h6
<1>1. PICK h1, h2, h3, h4, h5, h6, h7 :
         /\ h1 = x \div 2 /\ h2 = x \div 4 /\ h3 = x \div 8 /\ h4 = x \div 16
         /\ h5 = x \div 32 /\ h6 = x \div 64 /\ h7 = x \div 128
  OBVIOUS
<1>2. h1 \in Int /\ h2 \in Int /\ h3 \in Int /\ h4 \in Int /\ h5 \in Int /\ h6 \in Int /\ h7 \in Int
  BY <1>1
<1>3. x \div 1 = x
  OBVIOUS
<1>4. x % 2 = x - 2 * h1 
  BY <1>1
<1>5. h1 % 2 = h1 - 2 * h2 
  BY <1>1
<1>6. h2 % 2 = h2 - 2 * h3
  BY <1>1
<1>7. h3 % 2 = h3 - 2 * h4
  BY <1>1
<1>8. h4 % 2 = h4 - 2 * h5
  BY <1>1
<1>9. h5 % 2 = h5 - 2 * h6
  BY <1>1
<1>10. h6 % 2 = h6 - 2 * h7
  BY <1>1
<1>11. h7 % 2 = h7
  BY <1>1
<1>12. x % 4 = x - 4 * h2 /\ x % 16 = x - 16 * h4 /\ x % 64 = x - 64 * h6
  BY <1>1
<1> QED
  BY <1>1, <1>2, <1>3, <1>4, <1>5, <1>6, <1>7, <1>8, <1>9, <1>10, <1>11, <1>12

\* A digit is made of the bits of two bytes.
LEMMA FromBits ==
  ASSUME NEW x \in Int, 0 <= x, x <= 255, NEW y \in Int, 0 <= y, y <= 255
  PROVE  /\ 32 * ByteBit(x, 0) + 16 * ByteBit(x, 1) + 8 * ByteBit(x, 2) + 4 * ByteBit(x, 3)
            + 2 * ByteBit(x, 4) + ByteBit(x, 5) = x \div 4
         /\ 32 * ByteBit(x, 6) + 16 * ByteBit(x, 7) + 8 * ByteBit(y, 0) + 4 * ByteBit(y, 1)
            + 2 * ByteBit(y, 2) + ByteBit(y, 3) = (x % 4) * 16 + y \div 16
         /\ 32 * ByteBit(x, 4) + 16 * ByteBit(x, 5) + 8 * ByteBit(x, 6) + 4 * ByteBit(x, 7)
            + 2 * ByteBit(y, 0) + ByteBit(y, 1) = (x % 16) * 4 + y \div 64
         /\ 32 * ByteBit(x, 2) + 16 * ByteBit(x, 3) + 8 * ByteBit(x, 4) + 4 * ByteBit(x, 5)
            + 2 * ByteBit(x, 6) + ByteBit(x, 7) = x % 64
<1>1. PICK h1, h2, h3, h4, h5, h6, h7 \in Int :
            /\ x \div 1 = x /\ x \div 2 = h1 /\ x \div 4 = h2 /\ x \div 8 = h3
            /\ x \div 16 = h4 /\ x \div 32 = h5 /\ x \div 64 = h6 /\ x \div 128 = h7
            /\ x % 2 = x - 2 * h1 /\ h1 % 2 = h1 - 2 * h2 /\ h2 % 2 = h2 - 2 * h3
            /\ h3 % 2 = h3 - 2 * h4 /\ h4 % 2 = h4 - 2 * h5 /\ h5 % 2 = h5 - 2 * h6
            /\ h6 % 2 = h6 - 2 * h7 /\ h7 % 2 = h7
            /\ x % 4 = x - 4 * h2 /\ x % 16 = x - 16 * h4 /\ x % 64 = x - 64 * h6
  BY Halves
<1>2. PICK g1, g2, g3, g4, g5, g6, g7 \in Int :
            /\ y \div 1 = y /\ y \div 2 = g1 /\ y \div 4 = g2 /\ y \div 8 = g3
            /\ y \div 16 = g4 /\ y \div 32 = g5 /\ y \div 64 = g6 /\ y \div 128 = g7
            /\ y % 2 = y - 2 * g1 /\ g1 % 2 = g1 - 2 * g2 /\ g2 % 2 = g2 - 2 * g3
            /\ g3 % 2 = g3 - 2 * g4 /\ g4 % 2 = g4 - 2 * g5 /\ g5 % 2 = g5 - 2 * g6
            /\ g6 % 2 = g6 - 2 * g7 /\ g7 % 2 = g7
            /\ y % 4 = y - 4 * g2 /\ y % 16 = y - 16 * g4 /\ y % 64 = y - 64 * g6
  BY Halves
<1>3. /\ ByteBit(x, 0) = h7 /\ ByteBit(x, 1) = h6 - 2 * h7 /\ ByteBit(x, 2) = h5 - 2 * h6
      /\ ByteBit(x, 3) = h4 - 2 * h5 /\ ByteBit(x, 4) = h3 - 2 * h4
      /\ ByteBit(x, 5) = h2 - 2 * h3 /\ ByteBit(x, 6) = h1 - 2 * h2
      /\ ByteBit(x, 7) = x - 2 * h1
  <2>1. /\ ByteBit(x, 0) = h7 % 2 /\ ByteBit(x, 1) = h6 % 2 /\ ByteBit(x, 2) = h5 % 2
        /\ ByteBit(x, 3) = h4 % 2 /\ ByteBit(x, 4) = h3 % 2 /\ ByteBit(x, 5) = h2 % 2
        /\ ByteBit(x, 6) = h1 % 2 /\ ByteBit(x, 7) = x % 2
    <3>1. /\ x \div 1 = x /\ x \div 2 = h1 /\ x \div 4 = h2 /\ x \div 8 = h3
          /\ x \div 16 = h4 /\ x \div 32 = h5 /\ x \div 64 = h6 /\ x \div 128 = h7
      BY <1>1, Zenon
    <3>2. BitsAre(x, h7, h6, h5, h4, h3, h2, h1, x)
      BY <3>1, ByteBits, Zenon
    <3> QED
      BY <3>2, Zenon DEF BitsAre
  <2>2. /\ x % 2 = x - 2 * h1 /\ h1 % 2 = h1 - 2 * h2 /\ h2 % 2 = h2 - 2 * h3
        /\ h3 % 2 = h3 - 2 * h4 /\ h4 % 2 = h4 - 2 * h5 /\ h5 % 2 = h5 - 2 * h6
        /\ h6 % 2 = h6 - 2 * h7 /\ h7 % 2 = h7
    BY <1>1, Zenon
  <2> QED
    BY <2>1, <2>2, Zenon
<1>4. /\ ByteBit(y, 0) = g7 /\ ByteBit(y, 1) = g6 - 2 * g7 /\ ByteBit(y, 2) = g5 - 2 * g6
      /\ ByteBit(y, 3) = g4 - 2 * g5
  <2>1. /\ ByteBit(y, 0) = g7 % 2 /\ ByteBit(y, 1) = g6 % 2 /\ ByteBit(y, 2) = g5 % 2
        /\ ByteBit(y, 3) = g4 % 2
    <3>1. /\ y \div 1 = y /\ y \div 2 = g1 /\ y \div 4 = g2 /\ y \div 8 = g3
          /\ y \div 16 = g4 /\ y \div 32 = g5 /\ y \div 64 = g6 /\ y \div 128 = g7
      BY <1>2, Zenon
    <3>2. BitsAre(y, g7, g6, g5, g4, g3, g2, g1, y)
      BY <3>1, ByteBits, Zenon
    <3> QED
      BY <3>2, Zenon DEF BitsAre
  <2>2. /\ g4 % 2 = g4 - 2 * g5 /\ g5 % 2 = g5 - 2 * g6
        /\ g6 % 2 = g6 - 2 * g7 /\ g7 % 2 = g7
    BY <1>2, Zenon
  <2> QED
    BY <2>1, <2>2, Zenon
<1>5. /\ x \div 4 = h2 /\ x % 4 = x - 4 * h2 /\ x % 16 = x - 16 * h4 /\ x % 64 = x - 64 * h6
      /\ y \div 16 = g4 /\ y \div 64 = g6
  BY <1>1, <1>2, Zenon
<1>6. 32 * ByteBit(x, 0) + 16 * ByteBit(x, 1) + 8 * ByteBit(x, 2) + 4 * ByteBit(x, 3)
      + 2 * ByteBit(x, 4) + ByteBit(x, 5) = h2
  BY <1>3
<1>7. 32 * ByteBit(x, 6) + 16 * ByteBit(x, 7) + 8 * ByteBit(y, 0) + 4 * ByteBit(y, 1)
      + 2 * ByteBit(y, 2) + ByteBit(y, 3) = (x - 4 * h2) * 16 + g4
  BY <1>3, <1>4
<1>8. 32 * ByteBit(x, 4) + 16 * ByteBit(x, 5) + 8 * ByteBit(x, 6) + 4 * ByteBit(x, 7)
      + 2 * ByteBit(y, 0) + ByteBit(y, 1) = (x - 16 * h4) * 4 + g6
  BY <1>3, <1>4
<1>9. 32 * ByteBit(x, 2) + 16 * ByteBit(x, 3) + 8 * ByteBit(x, 4) + 4 * ByteBit(x, 5)
      + 2 * ByteBit(x, 6) + ByteBit(x, 7) = x - 64 * h6
  BY <1>3
<1> QED
  BY <1>5, <1>6, <1>7, <1>8, <1>9

\* The four digits of three bytes.
LEMMA DigitsOf ==
  ASSUME NEW s \in Seq(Octets), NEW q \in Nat
  PROVE  /\ Digit(s, 4 * q + 1) = Byte(s, 3 * q + 1) \div 4
         /\ Digit(s, 4 * q + 2)
                = (Byte(s, 3 * q + 1) % 4) * 16 + Byte(s, 3 * q + 2) \div 16
         /\ Digit(s, 4 * q + 3)
                = (Byte(s, 3 * q + 2) % 16) * 4 + Byte(s, 3 * q + 3) \div 64
         /\ Digit(s, 4 * q + 4) = Byte(s, 3 * q + 3) % 64
<1>1. PICK m, n, p : m = 3 * q /\ n = 3 * q + 1 /\ p = 3 * q + 2
  OBVIOUS
<1>2. /\ m \in Nat /\ n \in Nat /\ p \in Nat
      /\ m + 1 = 3 * q + 1 /\ n + 1 = 3 * q + 2 /\ p + 1 = 3 * q + 3
  BY <1>1
<1>3. PICK a, b, c : a = Byte(s, m + 1) /\ b = Byte(s, n + 1) /\ c = Byte(s, p + 1)
  OBVIOUS
<1>4. /\ a \in Int /\ 0 <= a /\ a <= 255 /\ b \in Int /\ 0 <= b /\ b <= 255
      /\ c \in Int /\ 0 <= c /\ c <= 255
  <2>1. a \in Octets /\ b \in Octets /\ c \in Octets
    <3>1. m + 1 \in Nat \ {0} /\ n + 1 \in Nat \ {0} /\ p + 1 \in Nat \ {0}
      BY <1>2
    <3> QED
      BY <1>3, <3>1, ByteType, Zenon
  <2> QED
    BY <2>1, OctetBounds
<1>5. ASSUME NEW k \in Nat
      PROVE  \A d \in 0..7 : Bit(s, 8 * k + d + 1) = ByteBit(Byte(s, k + 1), d)
  BY BitOf
<1>6. /\ Bit(s, 6 * (4 * q + 1) - 5) = ByteBit(a, 0) /\ Bit(s, 6 * (4 * q + 1) - 4) = ByteBit(a, 1)
      /\ Bit(s, 6 * (4 * q + 1) - 3) = ByteBit(a, 2) /\ Bit(s, 6 * (4 * q + 1) - 2) = ByteBit(a, 3)
      /\ Bit(s, 6 * (4 * q + 1) - 1) = ByteBit(a, 4) /\ Bit(s, 6 * (4 * q + 1)) = ByteBit(a, 5)
  <2>1. /\ 6 * (4 * q + 1) - 5 = 8 * m + 0 + 1 /\ 6 * (4 * q + 1) - 4 = 8 * m + 1 + 1
        /\ 6 * (4 * q + 1) - 3 = 8 * m + 2 + 1 /\ 6 * (4 * q + 1) - 2 = 8 * m + 3 + 1
        /\ 6 * (4 * q + 1) - 1 = 8 * m + 4 + 1 /\ 6 * (4 * q + 1) = 8 * m + 5 + 1
    BY <1>1
  <2>2. /\ Bit(s, 8 * m + 0 + 1) = ByteBit(a, 0) /\ Bit(s, 8 * m + 1 + 1) = ByteBit(a, 1)
        /\ Bit(s, 8 * m + 2 + 1) = ByteBit(a, 2) /\ Bit(s, 8 * m + 3 + 1) = ByteBit(a, 3)
        /\ Bit(s, 8 * m + 4 + 1) = ByteBit(a, 4) /\ Bit(s, 8 * m + 5 + 1) = ByteBit(a, 5)
    BY <1>2, <1>3, <1>5
  <2> QED
    BY <2>1, <2>2, Zenon
<1>7. /\ Bit(s, 6 * (4 * q + 2) - 5) = ByteBit(a, 6) /\ Bit(s, 6 * (4 * q + 2) - 4) = ByteBit(a, 7)
      /\ Bit(s, 6 * (4 * q + 2) - 3) = ByteBit(b, 0) /\ Bit(s, 6 * (4 * q + 2) - 2) = ByteBit(b, 1)
      /\ Bit(s, 6 * (4 * q + 2) - 1) = ByteBit(b, 2) /\ Bit(s, 6 * (4 * q + 2)) = ByteBit(b, 3)
  <2>1. /\ 6 * (4 * q + 2) - 5 = 8 * m + 6 + 1 /\ 6 * (4 * q + 2) - 4 = 8 * m + 7 + 1
        /\ 6 * (4 * q + 2) - 3 = 8 * n + 0 + 1 /\ 6 * (4 * q + 2) - 2 = 8 * n + 1 + 1
        /\ 6 * (4 * q + 2) - 1 = 8 * n + 2 + 1 /\ 6 * (4 * q + 2) = 8 * n + 3 + 1
    BY <1>1
  <2>2. /\ Bit(s, 8 * m + 6 + 1) = ByteBit(a, 6) /\ Bit(s, 8 * m + 7 + 1) = ByteBit(a, 7)
        /\ Bit(s, 8 * n + 0 + 1) = ByteBit(b, 0) /\ Bit(s, 8 * n + 1 + 1) = ByteBit(b, 1)
        /\ Bit(s, 8 * n + 2 + 1) = ByteBit(b, 2) /\ Bit(s, 8 * n + 3 + 1) = ByteBit(b, 3)
    BY <1>2, <1>3, <1>5
  <2> QED
    BY <2>1, <2>2, Zenon
<1>8. /\ Bit(s, 6 * (4 * q + 3) - 5) = ByteBit(b, 4) /\ Bit(s, 6 * (4 * q + 3) - 4) = ByteBit(b, 5)
      /\ Bit(s, 6 * (4 * q + 3) - 3) = ByteBit(b, 6) /\ Bit(s, 6 * (4 * q + 3) - 2) = ByteBit(b, 7)
      /\ Bit(s, 6 * (4 * q + 3) - 1) = ByteBit(c, 0) /\ Bit(s, 6 * (4 * q + 3)) = ByteBit(c, 1)
  <2>1. /\ 6 * (4 * q + 3) - 5 = 8 * n + 4 + 1 /\ 6 * (4 * q + 3) - 4 = 8 * n + 5 + 1
        /\ 6 * (4 * q + 3) - 3 = 8 * n + 6 + 1 /\ 6 * (4 * q + 3) - 2 = 8 * n + 7 + 1
        /\ 6 * (4 * q + 3) - 1 = 8 * p + 0 + 1 /\ 6 * (4 * q + 3) = 8 * p + 1 + 1
    BY <1>1
  <2>2. /\ Bit(s, 8 * n + 4 + 1) = ByteBit(b, 4) /\ Bit(s, 8 * n + 5 + 1) = ByteBit(b, 5)
        /\ Bit(s, 8 * n + 6 + 1) = ByteBit(b, 6) /\ Bit(s, 8 * n + 7 + 1) = ByteBit(b, 7)
        /\ Bit(s, 8 * p + 0 + 1) = ByteBit(c, 0) /\ Bit(s, 8 * p + 1 + 1) = ByteBit(c, 1)
    BY <1>2, <1>3, <1>5
  <2> QED
    BY <2>1, <2>2, Zenon
<1>9. /\ Bit(s, 6 * (4 * q + 4) - 5) = ByteBit(c, 2) /\ Bit(s, 6 * (4 * q + 4) - 4) = ByteBit(c, 3)
      /\ Bit(s, 6 * (4 * q + 4) - 3) = ByteBit(c, 4) /\ Bit(s, 6 * (4 * q + 4) - 2) = ByteBit(c, 5)
      /\ Bit(s, 6 * (4 * q + 4) - 1) = ByteBit(c, 6) /\ Bit(s, 6 * (4 * q + 4)) = ByteBit(c, 7)
  <2>1. /\ 6 * (4 * q + 4) - 5 = 8 * p + 2 + 1 /\ 6 * (4 * q + 4) - 4 = 8 * p + 3 + 1
        /\ 6 * (4 * q + 4) - 3 = 8 * p + 4 + 1 /\ 6 * (4 * q + 4) - 2 = 8 * p + 5 + 1
        /\ 6 * (4 * q + 4) - 1 = 8 * p + 6 + 1 /\ 6 * (4 * q + 4) = 8 * p + 7 + 1
    BY <1>1
  <2>2. /\ Bit(s, 8 * p + 2 + 1) = ByteBit(c, 2) /\ Bit(s, 8 * p + 3 + 1) = ByteBit(c, 3)
        /\ Bit(s, 8 * p + 4 + 1) = ByteBit(c, 4) /\ Bit(s, 8 * p + 5 + 1) = ByteBit(c, 5)
        /\ Bit(s, 8 * p + 6 + 1) = ByteBit(c, 6) /\ Bit(s, 8 * p + 7 + 1) = ByteBit(c, 7)
    BY <1>2, <1>3, <1>5
  <2> QED
    BY <2>1, <2>2, Zenon
<1>10. Digit(s, 4 * q + 1) = a \div 4
  <2>1. 32 * ByteBit(a, 0) + 16 * ByteBit(a, 1) + 8 * ByteBit(a, 2) + 4 * ByteBit(a, 3)
        + 2 * ByteBit(a, 4) + ByteBit(a, 5) = a \div 4
    BY <1>4, FromBits
  <2> QED
    BY <1>6, <2>1, Zenon DEF Digit
<1>11. Digit(s, 4 * q + 2) = (a % 4) * 16 + b \div 16
  <2>1. 32 * ByteBit(a, 6) + 16 * ByteBit(a, 7) + 8 * ByteBit(b, 0) + 4 * ByteBit(b, 1)
        + 2 * ByteBit(b, 2) + ByteBit(b, 3) = (a % 4) * 16 + b \div 16
    BY <1>4, FromBits
  <2> QED
    BY <1>7, <2>1, Zenon DEF Digit
<1>12. Digit(s, 4 * q + 3) = (b % 16) * 4 + c \div 64
  <2>1. 32 * ByteBit(b, 4) + 16 * ByteBit(b, 5) + 8 * ByteBit(b, 6) + 4 * ByteBit(b, 7)
        + 2 * ByteBit(c, 0) + ByteBit(c, 1) = (b % 16) * 4 + c \div 64
    BY <1>4, FromBits
  <2> QED
    BY <1>8, <2>1, Zenon DEF Digit
<1>13. Digit(s, 4 * q + 4) = c % 64
  <2>1. 32 * ByteBit(c, 2) + 16 * ByteBit(c, 3) + 8 * ByteBit(c, 4) + 4 * ByteBit(c, 5)
        + 2 * ByteBit(c, 6) + ByteBit(c, 7) = c % 64
    BY <1>4, FromBits
  <2> QED
    BY <1>9, <2>1, Zenon DEF Digit
<1> QED
  BY <1>2, <1>3, <1>10, <1>11, <1>12, <1>13, Zenon

-----------------------------------------------------------------------------
\* What base64_encode has after a byte x, when the byte before it was A: the
\* digits that go out, by the number of bytes before them.
Holds(v, A, x) ==
    /\ v \in Nat /\ v % 256 = x
    /\ (v \div 2^2) % 64 = x \div 4
    /\ (v \div 2^4) % 64 = (A % 4) * 16 + x \div 16
    /\ (v \div 2^6) % 64 = (A % 16) * 4 + x \div 64
    /\ (v \div 2^0) % 64 = x % 64

\* The shifts of base64_encode leave these digits.
LEMMA Shifted ==
  ASSUME NEW b \in Nat, NEW x \in Int, 0 <= x, x <= 255, NEW A, A = b % 256,
         NEW v, v = Kept(b * 256 + x)
  PROVE  Holds(v, A, x)
<1>1. PICK h : h = b \div 256
  OBVIOUS
<1>2. h \in Nat /\ A \in Int /\ 0 <= A /\ A <= 255 /\ b = 256 * h + A
  BY <1>1
<1>3. 2^16 = 65536 /\ 2^2 = 4 /\ 2^4 = 16 /\ 2^6 = 64 /\ 2^0 = 1
  BY SMT
<1>4. v = (b * 256 + x) % 65536
  <2>1. PICK e, w : e = 2^16 /\ w = b * 256 + x
    OBVIOUS
  <2>2. v = w % e
    BY <2>1, Zenon DEF Kept
  <2> QED
    BY <1>3, <2>1, <2>2
<1>5. v = 256 * A + x
  <2>1. b * 256 + x = 65536 * h + (256 * A + x)
    BY <1>2
  <2>2. PICK w : w = 256 * A + x
    OBVIOUS
  <2>3. w \in Int /\ 0 <= w /\ w < 65536
    BY <1>2, <2>2
  <2>4. (65536 * h + w) % 65536 = w
    BY <1>2, <2>3
  <2> QED
    BY <1>4, <2>1, <2>2, <2>4
<1>6. v \in Nat /\ v % 256 = x
  BY <1>2, <1>5
<1>7. (v \div 4) % 64 = x \div 4
  <2>1. PICK w : w = x \div 4
    OBVIOUS
  <2>2. w \in Int /\ 0 <= w /\ w < 64 /\ v \div 4 = 64 * A + w
    BY <1>2, <1>5, <2>1
  <2>3. (64 * A + w) % 64 = w
    BY <1>2, <2>2
  <2> QED
    BY <2>1, <2>2, <2>3
<1>8. (v \div 16) % 64 = (A % 4) * 16 + x \div 16
  <2>1. PICK w, a, c : w = x \div 16 /\ a = A \div 4 /\ c = A % 4
    OBVIOUS
  <2>2. w \in Int /\ 0 <= w /\ w < 16 /\ v \div 16 = 16 * A + w
    BY <1>2, <1>5, <2>1
  <2>3. a \in Int /\ c \in Int /\ 0 <= c /\ c < 4 /\ A = 4 * a + c
    BY <1>2, <2>1
  <2>4. PICK z : z = 16 * c + w
    OBVIOUS
  <2>5. z \in Int /\ 0 <= z /\ z < 64 /\ v \div 16 = 64 * a + z
    BY <2>2, <2>3, <2>4
  <2>6. (64 * a + z) % 64 = z
    BY <2>3, <2>5
  <2> QED
    BY <2>1, <2>2, <2>3, <2>4, <2>5, <2>6
<1>9. (v \div 64) % 64 = (A % 16) * 4 + x \div 64
  <2>1. PICK w, a, c : w = x \div 64 /\ a = A \div 16 /\ c = A % 16
    OBVIOUS
  <2>2. w \in Int /\ 0 <= w /\ w < 4 /\ v \div 64 = 4 * A + w
    BY <1>2, <1>5, <2>1
  <2>3. a \in Int /\ c \in Int /\ 0 <= c /\ c < 16 /\ A = 16 * a + c
    BY <1>2, <2>1
  <2>4. PICK z : z = 4 * c + w
    OBVIOUS
  <2>5. z \in Int /\ 0 <= z /\ z < 64 /\ v \div 64 = 64 * a + z
    BY <2>2, <2>3, <2>4
  <2>6. (64 * a + z) % 64 = z
    BY <2>3, <2>5
  <2> QED
    BY <2>1, <2>2, <2>3, <2>4, <2>5, <2>6
<1>10. (v \div 1) % 64 = x % 64
  <2>1. PICK a, c : a = x \div 64 /\ c = x % 64
    OBVIOUS
  <2>2. a \in Int /\ c \in Int /\ 0 <= c /\ c < 64 /\ x = 64 * a + c
    BY <2>1
  <2>3. v \div 1 = 64 * (4 * A + a) + c
    BY <1>2, <1>5, <2>2
  <2>4. (64 * (4 * A + a) + c) % 64 = c
    BY <1>2, <2>2
  <2> QED
    BY <2>1, <2>3, <2>4
<1>11. 2^2 = 4 /\ 2^4 = 16 /\ 2^6 = 64 /\ 2^0 = 1
  BY <1>3
<1>12. (v \div 2^2) % 64 = x \div 4
  BY <1>7, <1>11, Zenon
<1>13. (v \div 2^4) % 64 = (A % 4) * 16 + x \div 16
  BY <1>8, <1>11, Zenon
<1>14. (v \div 2^6) % 64 = (A % 16) * 4 + x \div 64
  BY <1>9, <1>11, Zenon
<1>15. (v \div 2^0) % 64 = x % 64
  BY <1>10, <1>11, Zenon
<1> QED
  BY <1>6, <1>12, <1>13, <1>14, <1>15, Zenon DEF Holds

\* The digit that is left over, when the last byte was A.
LEMMA LeftOver ==
  ASSUME NEW b \in Nat, NEW A, A = b % 256
  PROVE  /\ ((b * 256) \div 2^4) % 64 = (A % 4) * 16
         /\ ((b * 256) \div 2^6) % 64 = (A % 16) * 4
<1>1. PICK h : h = b \div 256
  OBVIOUS
<1>2. h \in Nat /\ A \in Int /\ 0 <= A /\ A <= 255 /\ b = 256 * h + A
  BY <1>1
<1>3. 2^4 = 16 /\ 2^6 = 64
  BY SMT
<1>4. (b * 256) \div 16 = 16 * b /\ (b * 256) \div 64 = 4 * b
  OBVIOUS
<1>5. (16 * b) % 64 = (A % 4) * 16
  <2>1. PICK a, c : a = A \div 4 /\ c = A % 4
    OBVIOUS
  <2>2. a \in Int /\ c \in Int /\ 0 <= c /\ c < 4 /\ A = 4 * a + c
    BY <1>2, <2>1
  <2>3. 16 * b = 64 * (64 * h + a) + 16 * c
    BY <1>2, <2>2
  <2>4. (64 * (64 * h + a) + 16 * c) % 64 = 16 * c
    BY <1>2, <2>2
  <2> QED
    BY <2>1, <2>2, <2>3, <2>4
<1>6. (4 * b) % 64 = (A % 16) * 4
  <2>1. PICK a, c : a = A \div 16 /\ c = A % 16
    OBVIOUS
  <2>2. a \in Int /\ c \in Int /\ 0 <= c /\ c < 16 /\ A = 16 * a + c
    BY <1>2, <2>1
  <2>3. 4 * b = 64 * (16 * h + a) + 4 * c
    BY <1>2, <2>2
  <2>4. (64 * (16 * h + a) + 4 * c) % 64 = 4 * c
    BY <1>2, <2>2
  <2> QED
    BY <2>1, <2>2, <2>3, <2>4
<1>7. ((b * 256) \div 2^4) % 64 = (A % 4) * 16
  BY <1>3, <1>4, <1>5, Zenon
<1>8. ((b * 256) \div 2^6) % 64 = (A % 16) * 4
  BY <1>3, <1>4, <1>6, Zenon
<1> QED
  BY <1>7, <1>8, Zenon

\* Written(o, s, all): the first digits of s, all of them, and the padding.
Written(o, s, all) ==
    /\ o \in Seq(Int) /\ all \in Nat /\ all <= Len(o)
    /\ \A k \in 1..Len(o) : o[k] = IF k <= all THEN Digit(s, k) ELSE 64

\* One more digit.
LEMMA WrittenDigit ==
  ASSUME NEW o, NEW s, Written(o, s, Len(o)), NEW d \in Int, d = Digit(s, Len(o) + 1)
  PROVE  Written(Append(o, d), s, Len(o) + 1) /\ Len(Append(o, d)) = Len(o) + 1
<1>1. PICK p, n : p = Append(o, d) /\ n = Len(o)
  OBVIOUS
<1>2. /\ o \in Seq(Int) /\ n \in Nat
      /\ \A k \in 1..n : o[k] = IF k <= n THEN Digit(s, k) ELSE 64
  BY <1>1 DEF Written
<1>3. p \in Seq(Int) /\ Len(p) = n + 1 /\ p[n + 1] = d /\ \A k \in 1..n : p[k] = o[k]
  BY <1>1, <1>2, AppendProperties
<1>4. ASSUME NEW k \in 1..(n + 1)
      PROVE  p[k] = IF k <= n + 1 THEN Digit(s, k) ELSE 64
  <2>1. CASE k = n + 1
    BY <1>1, <1>2, <1>3, <2>1
  <2>2. CASE k # n + 1
    <3>1. k \in 1..n /\ k <= n /\ k <= n + 1
      BY <1>2, <2>2
    <3> QED
      BY <1>2, <1>3, <3>1
  <2> QED
    BY <2>1, <2>2
<1>5. Written(p, s, n + 1)
  BY <1>2, <1>3, <1>4 DEF Written
<1> QED
  BY <1>1, <1>3, <1>5

\* One more sign of padding.
LEMMA WrittenPad ==
  ASSUME NEW o, NEW s, NEW all, Written(o, s, all)
  PROVE  Written(Append(o, 64), s, all) /\ Len(Append(o, 64)) = Len(o) + 1
<1>1. PICK p, n : p = Append(o, 64) /\ n = Len(o)
  OBVIOUS
<1>2. /\ o \in Seq(Int) /\ n \in Nat /\ all \in Nat /\ all <= n
      /\ \A k \in 1..n : o[k] = IF k <= all THEN Digit(s, k) ELSE 64
  BY <1>1 DEF Written
<1>3. p \in Seq(Int) /\ Len(p) = n + 1 /\ p[n + 1] = 64 /\ \A k \in 1..n : p[k] = o[k]
  BY <1>1, <1>2, AppendProperties
<1>4. ASSUME NEW k \in 1..(n + 1)
      PROVE  p[k] = IF k <= all THEN Digit(s, k) ELSE 64
  <2>1. CASE k = n + 1
    BY <1>2, <1>3, <2>1
  <2>2. CASE k # n + 1
    <3>1. k \in 1..n
      BY <1>2, <2>2
    <3> QED
      BY <1>2, <1>3, <3>1
  <2> QED
    BY <2>1, <2>2
<1>5. Written(p, s, all)
  BY <1>2, <1>3, <1>4 DEF Written
<1> QED
  BY <1>1, <1>3, <1>5

-----------------------------------------------------------------------------
\* How many digits the text has when it ends r bytes behind q times three, and
\* with the padding.
DigitCount(q, r) == IF r = 0 THEN 4 * q ELSE 4 * q + r + 1

\* What the digits are filled up to.
Width(q, r) == IF r = 0 THEN 4 * q ELSE 4 * q + 4

\* base64_encode has read three bytes q times and r more.
Encoding(q, r) ==
    /\ q \in Nat /\ (r = 0 \/ r = 1 \/ r = 2)
    /\ i = 3 * q + r + 1 /\ i <= Len(in) + 1 /\ valb = 2 * r - 6
    /\ i > 1 => val % 256 = in[i - 1]
    /\ ~padding => Len(out) = 4 * q + r /\ Written(out, in, Len(out))
    /\ padding => /\ i = Len(in) + 1
                  /\ Written(out, in, DigitCount(q, r)) /\ Len(out) <= Width(q, r)

\* The inductive invariant of base64_encode.
CodecInv ==
    /\ in \in Seq(Octets) /\ val \in Nat /\ padding \in BOOLEAN
    /\ \E q \in Nat, r \in 0..2 : Encoding(q, r)

\* It holds at the start.
LEMMA CodecStarts == CodecInit => CodecInv
<1> SUFFICES ASSUME CodecInit PROVE CodecInv
  OBVIOUS
<1>1. /\ in \in Texts /\ i = 1 /\ val = 0 /\ valb = -6 /\ out = <<>> /\ padding = FALSE
  BY DEF CodecInit
<1>2. in \in Seq(Octets)
  BY <1>1, CodecAssumption, Zenon DEF CodecAssumption, Octets
<1>3. Len(in) \in Nat
  BY <1>2, LenProperties
<1>4. PICK n : n = Len(out)
  OBVIOUS
<1>5. n = 0 /\ out \in Seq(Int)
  BY <1>1, <1>4
<1>6. Written(out, in, n)
  BY <1>4, <1>5 DEF Written
<1>7. PICK z : z = 0
  OBVIOUS
<1>8. Encoding(z, z)
  <2>1. /\ z \in Nat /\ i = 3 * z + z + 1 /\ i <= Len(in) + 1 /\ valb = 2 * z - 6
        /\ ~(i > 1) /\ n = 4 * z + z
    BY <1>1, <1>3, <1>5, <1>7
  <2> QED
    BY <1>1, <1>4, <1>6, <1>7, <2>1, Zenon DEF Encoding
<1>9. z \in Nat /\ z \in 0..2
  BY <1>7
<1>10. val \in Nat /\ padding \in BOOLEAN
  BY <1>1
<1> QED
  BY <1>2, <1>8, <1>9, <1>10, Zenon DEF CodecInv

\* Where it is after a byte.
LEMMA EncodingNext ==
  ASSUME NEW q \in Nat, NEW r, r = 0 \/ r = 1 \/ r = 2, ~padding',
         i' = 3 * q + r + 1, i' <= Len(in') + 1, valb' = 2 * r - 6,
         val' % 256 = in'[i' - 1], Len(out') = 4 * q + r, Written(out', in', Len(out'))
  PROVE  Encoding(q, r)'
BY Zenon DEF Encoding

\* A byte is read.
LEMMA EncodeKeeps ==
  ASSUME CodecInv, Encode, ~padding
  PROVE  CodecInv'
<1>1. PICK q \in Nat, r \in 0..2 : Encoding(q, r)
  BY DEF CodecInv
<1>2. in \in Seq(Octets) /\ val \in Nat
  BY DEF CodecInv
<1>3. /\ r = 0 \/ r = 1 \/ r = 2
      /\ i = 3 * q + r + 1 /\ valb = 2 * r - 6
      /\ i > 1 => val % 256 = in[i - 1]
      /\ Len(out) = 4 * q + r /\ Written(out, in, Len(out))
  BY <1>1 DEF Encoding
<1>4. i <= Len(in) /\ i' = i + 1 /\ in' = in /\ padding' = padding
  BY DEF Encode
<1>5. PICK x, A, v, b : x = in[i] /\ A = val % 256 /\ v = Kept(val * 256 + x) /\ b = valb + 8
  OBVIOUS
<1>6. i \in 1..Len(in) /\ i \in Nat /\ Len(in) \in Nat
  BY <1>2, <1>3, <1>4, LenProperties
<1>7. x \in Int /\ 0 <= x /\ x <= 255
  <2>1. x \in Octets
    BY <1>2, <1>5, <1>6, ElementOfSeq
  <2> QED
    BY <2>1, OctetBounds
<1>8. /\ v \in Nat /\ v % 256 = x
      /\ (v \div 2^2) % 64 = x \div 4
      /\ (v \div 2^4) % 64 = (A % 4) * 16 + x \div 16
      /\ (v \div 2^6) % 64 = (A % 16) * 4 + x \div 64
      /\ (v \div 2^0) % 64 = x % 64
  <2>1. PICK w : w = val
    OBVIOUS
  <2>2. w \in Nat /\ A = w % 256 /\ v = Kept(w * 256 + x)
    BY <1>2, <1>5, <2>1
  <2>3. Holds(v, A, x)
    BY <1>7, <2>2, Shifted
  <2> QED
    BY <2>3, Zenon DEF Holds
<1>9. /\ val' = v
      /\ IF b >= 6
         THEN out' = out \o <<(v \div 2^b) % 64, (v \div 2^(b - 6)) % 64>> /\ valb' = b - 12
         ELSE out' = Append(out, (v \div 2^b) % 64) /\ valb' = b - 6
  BY <1>5, Zenon DEF Encode
<1>10. out \in Seq(Int)
  BY <1>3 DEF Written
<1>11. A \in Int
  BY <1>2, <1>5
<1>12. Byte(in, i) = x /\ (i > 1 => Byte(in, i - 1) = A)
  <2>1. Byte(in, i) = x
    BY <1>4, <1>5, Zenon DEF Byte
  <2>2. ASSUME i > 1 PROVE Byte(in, i - 1) = A
    <3>1. i - 1 <= Len(in)
      BY <1>6
    <3> QED
      BY <1>3, <1>5, <2>2, <3>1, Zenon DEF Byte
  <2> QED
    BY <2>1, <2>2
<1>13. PICK p : p = i'
  OBVIOUS
<1>14. /\ p = i + 1 /\ p <= Len(in) + 1 /\ p - 1 = i
       /\ v % 256 = in[p - 1]
  BY <1>4, <1>5, <1>6, <1>8, <1>13
<1>15. CASE r = 0
  <2>1. b = 2 /\ ~(b >= 6)
    BY <1>3, <1>5, <1>15
  <2>2. PICK d : d = x \div 4
    OBVIOUS
  <2>3. out' = Append(out, d) /\ valb' = 2 - 6
    BY <1>8, <1>9, <2>1, <2>2, Zenon
  <2>4. d = Digit(in, 4 * q + 1)
    <3>1. Byte(in, 3 * q + 1) = x
      BY <1>3, <1>12, <1>15
    <3> QED
      BY <1>2, <2>2, <3>1, DigitsOf
  <2>5. Len(out) + 1 = 4 * q + 1 /\ d \in Int
    BY <1>3, <1>7, <1>15, <2>2
  <2>6. Written(out', in, Len(out) + 1) /\ Len(out') = Len(out) + 1
    BY <1>3, <2>3, <2>4, <2>5, WrittenDigit
  <2>7. Encoding(q, 1)'
    <3>1. p = 3 * q + 1 + 1 /\ valb' = 2 * 1 - 6 /\ Len(out') = 4 * q + 1
      BY <1>3, <1>14, <1>15, <2>3, <2>5, <2>6
    <3>2. Written(out', in', Len(out')) /\ val' % 256 = in'[p - 1] /\ p <= Len(in') + 1
      BY <1>4, <1>9, <1>14, <2>6, Zenon
    <3> QED
      BY <1>4, <1>13, <3>1, <3>2, EncodingNext
  <2> QED
    BY <1>2, <1>4, <1>8, <1>9, <2>7 DEF CodecInv
<1>16. CASE r = 1
  <2>1. b = 4 /\ ~(b >= 6)
    BY <1>3, <1>5, <1>16
  <2>2. PICK d : d = (A % 4) * 16 + x \div 16
    OBVIOUS
  <2>3. out' = Append(out, d) /\ valb' = 4 - 6
    BY <1>8, <1>9, <2>1, <2>2, Zenon
  <2>4. d = Digit(in, 4 * q + 2)
    <3>1. Byte(in, 3 * q + 2) = x /\ Byte(in, 3 * q + 1) = A
      <4>1. i = 3 * q + 2 /\ i - 1 = 3 * q + 1 /\ i > 1
        BY <1>3, <1>16
      <4> QED
        BY <1>12, <4>1
    <3> QED
      BY <1>2, <2>2, <3>1, DigitsOf
  <2>5. Len(out) + 1 = 4 * q + 2 /\ d \in Int
    BY <1>3, <1>7, <1>11, <1>16, <2>2
  <2>6. Written(out', in, Len(out) + 1) /\ Len(out') = Len(out) + 1
    BY <1>3, <2>3, <2>4, <2>5, WrittenDigit
  <2>7. Encoding(q, 2)'
    <3>1. p = 3 * q + 2 + 1 /\ valb' = 2 * 2 - 6 /\ Len(out') = 4 * q + 2
      BY <1>3, <1>14, <1>16, <2>3, <2>5, <2>6
    <3>2. Written(out', in', Len(out')) /\ val' % 256 = in'[p - 1] /\ p <= Len(in') + 1
      BY <1>4, <1>9, <1>14, <2>6, Zenon
    <3> QED
      BY <1>4, <1>13, <3>1, <3>2, EncodingNext
  <2> QED
    BY <1>2, <1>4, <1>8, <1>9, <2>7 DEF CodecInv
<1>17. CASE r = 2
  <2>1. b = 6 /\ b >= 6 /\ b - 6 = 0
    BY <1>3, <1>5, <1>17
  <2>2. PICK d, e : d = (A % 16) * 4 + x \div 64 /\ e = x % 64
    OBVIOUS
  <2>3. out' = out \o <<d, e>> /\ valb' = 6 - 12
    <3>1. (v \div 2^b) % 64 = d /\ (v \div 2^(b - 6)) % 64 = e
      BY <1>8, <2>1, <2>2, Zenon
    <3>2. out' = out \o <<(v \div 2^b) % 64, (v \div 2^(b - 6)) % 64>> /\ valb' = b - 12
      BY <1>9, <2>1, Zenon
    <3> QED
      BY <2>1, <3>1, <3>2, Zenon
  <2>4. d = Digit(in, 4 * q + 3) /\ e = Digit(in, 4 * q + 4)
    <3>1. Byte(in, 3 * q + 3) = x /\ Byte(in, 3 * q + 2) = A
      <4>1. i = 3 * q + 3 /\ i - 1 = 3 * q + 2 /\ i > 1
        BY <1>3, <1>17
      <4> QED
        BY <1>12, <4>1
    <3> QED
      BY <1>2, <2>2, <3>1, DigitsOf
  <2>5. Len(out) + 1 = 4 * q + 3 /\ d \in Int /\ e \in Int
    BY <1>3, <1>7, <1>11, <1>17, <2>2
  <2>6. PICK one : one = Append(out, d)
    OBVIOUS
  <2>7. Written(one, in, Len(out) + 1) /\ Len(one) = Len(out) + 1
    BY <1>3, <2>4, <2>5, <2>6, WrittenDigit
  <2>8. Len(one) + 1 = 4 * q + 4
    BY <2>5, <2>7
  <2>9. Written(Append(one, e), in, Len(one) + 1) /\ Len(Append(one, e)) = Len(one) + 1
    BY <2>4, <2>5, <2>7, <2>8, WrittenDigit
  <2>10. out' = Append(one, e)
    BY <1>10, <2>3, <2>5, <2>6, AppendPair
  <2>11. PICK q2 : q2 = q + 1
    OBVIOUS
  <2>12. Len(out') = 4 * q2 /\ Written(out', in, Len(out'))
    BY <2>8, <2>9, <2>10, <2>11
  <2>13. Encoding(q2, 0)'
    <3>1. /\ p = 3 * q2 + 0 + 1 /\ valb' = 2 * 0 - 6 /\ Len(out') = 4 * q2 + 0
          /\ q2 \in Nat
      BY <1>3, <1>14, <1>17, <2>3, <2>11, <2>12
    <3>2. Written(out', in', Len(out')) /\ val' % 256 = in'[p - 1] /\ p <= Len(in') + 1
      BY <1>4, <1>9, <1>14, <2>12, Zenon
    <3> QED
      BY <1>4, <1>13, <3>1, <3>2, EncodingNext
  <2> QED
    BY <1>2, <1>4, <1>8, <1>9, <2>11, <2>13 DEF CodecInv
<1> QED
  BY <1>3, <1>15, <1>16, <1>17

\* The digit that is left over is written.
LEMMA RestKeeps ==
  ASSUME CodecInv, Rest
  PROVE  CodecInv'
<1>1. PICK q \in Nat, r \in 0..2 : Encoding(q, r)
  BY DEF CodecInv
<1>2. in \in Seq(Octets) /\ val \in Nat
  BY DEF CodecInv
<1>3. /\ i > Len(in) /\ ~padding /\ padding' = TRUE
      /\ out' = IF valb > -6 THEN Append(out, ((val * 256) \div 2^(valb + 8)) % 64) ELSE out
      /\ in' = in /\ i' = i /\ val' = val /\ valb' = valb
  BY DEF Rest
<1>4. /\ r = 0 \/ r = 1 \/ r = 2
      /\ i = 3 * q + r + 1 /\ i <= Len(in) + 1 /\ valb = 2 * r - 6
      /\ i > 1 => val % 256 = in[i - 1]
      /\ Len(out) = 4 * q + r /\ Written(out, in, Len(out))
  BY <1>1, <1>3 DEF Encoding
<1>5. Len(in) \in Nat
  BY <1>2, LenProperties
<1>6. i = Len(in) + 1 /\ i \in Nat
  BY <1>3, <1>4, <1>5
<1>7. Byte(in, i) = 0 /\ (i > 1 => Byte(in, i - 1) = val % 256)
  <2>1. ~(i <= Len(in)) /\ i - 1 <= Len(in)
    BY <1>5, <1>6
  <2> QED
    BY <1>4, <2>1, Zenon DEF Byte
<1>8. PICK w, A : w = val /\ A = w % 256
  OBVIOUS
<1>9. w \in Nat /\ A \in Int
  BY <1>2, <1>8
<1>10. /\ ((w * 256) \div 2^4) % 64 = (A % 4) * 16
       /\ ((w * 256) \div 2^6) % 64 = (A % 16) * 4
  BY <1>8, <1>9, LeftOver
<1>11. CASE r = 0
  <2>1. ~(valb > -6) /\ Len(out) = 4 * q
    BY <1>4, <1>11
  <2>2. out' = out
    BY <1>3, <2>1, Zenon
  <2>3. DigitCount(q, 0) = 4 * q /\ Width(q, 0) = 4 * q
    BY DEF DigitCount, Width
  <2>4. Written(out', in, DigitCount(q, 0)) /\ Len(out') <= Width(q, 0)
    BY <1>4, <2>1, <2>2, <2>3
  <2>5. Encoding(q, 0)'
    BY <1>3, <1>4, <1>6, <1>11, <2>4 DEF Encoding
  <2> QED
    BY <1>2, <1>3, <2>5 DEF CodecInv
<1>12. CASE r = 1
  <2>1. valb > -6 /\ valb + 8 = 4 /\ Len(out) + 1 = 4 * q + 2
    BY <1>4, <1>12
  <2>2. PICK d : d = (A % 4) * 16
    OBVIOUS
  <2>3. out' = Append(out, d)
    BY <1>3, <1>8, <1>10, <2>1, <2>2, Zenon
  <2>4. d = Digit(in, 4 * q + 2) /\ d \in Int
    <3>1. 3 * q + 2 = i /\ 3 * q + 1 = i - 1 /\ i > 1
      BY <1>4, <1>12
    <3>2. Byte(in, 3 * q + 2) = 0 /\ Byte(in, 3 * q + 1) = A
      BY <1>7, <1>8, <3>1
    <3>3. Digit(in, 4 * q + 2)
             = (Byte(in, 3 * q + 1) % 4) * 16 + Byte(in, 3 * q + 2) \div 16
      BY <1>2, DigitsOf
    <3>4. PICK z : z = 0 \div 16
      OBVIOUS
    <3>5. z = 0
      BY <3>4
    <3>6. Digit(in, 4 * q + 2) = (A % 4) * 16 + z
      BY <3>2, <3>3, <3>4, Zenon
    <3> QED
      BY <1>9, <2>2, <3>5, <3>6
  <2>5. Written(out', in, Len(out) + 1) /\ Len(out') = Len(out) + 1
    BY <1>4, <2>1, <2>3, <2>4, WrittenDigit
  <2>6. DigitCount(q, 1) = 4 * q + 2 /\ Width(q, 1) = 4 * q + 4
    BY DEF DigitCount, Width
  <2>7. Written(out', in, DigitCount(q, 1)) /\ Len(out') <= Width(q, 1)
    BY <2>1, <2>5, <2>6
  <2>8. Encoding(q, 1)'
    BY <1>3, <1>4, <1>6, <1>12, <2>7 DEF Encoding
  <2> QED
    BY <1>2, <1>3, <2>8 DEF CodecInv
<1>13. CASE r = 2
  <2>1. valb > -6 /\ valb + 8 = 6 /\ Len(out) + 1 = 4 * q + 3
    BY <1>4, <1>13
  <2>2. PICK d : d = (A % 16) * 4
    OBVIOUS
  <2>3. out' = Append(out, d)
    BY <1>3, <1>8, <1>10, <2>1, <2>2, Zenon
  <2>4. d = Digit(in, 4 * q + 3) /\ d \in Int
    <3>1. 3 * q + 3 = i /\ 3 * q + 2 = i - 1 /\ i > 1
      BY <1>4, <1>13
    <3>2. Byte(in, 3 * q + 3) = 0 /\ Byte(in, 3 * q + 2) = A
      BY <1>7, <1>8, <3>1
    <3>3. Digit(in, 4 * q + 3)
             = (Byte(in, 3 * q + 2) % 16) * 4 + Byte(in, 3 * q + 3) \div 64
      BY <1>2, DigitsOf
    <3>4. PICK z : z = 0 \div 64
      OBVIOUS
    <3>5. z = 0
      BY <3>4
    <3>6. Digit(in, 4 * q + 3) = (A % 16) * 4 + z
      BY <3>2, <3>3, <3>4, Zenon
    <3> QED
      BY <1>9, <2>2, <3>5, <3>6
  <2>5. Written(out', in, Len(out) + 1) /\ Len(out') = Len(out) + 1
    BY <1>4, <2>1, <2>3, <2>4, WrittenDigit
  <2>6. DigitCount(q, 2) = 4 * q + 3 /\ Width(q, 2) = 4 * q + 4
    BY DEF DigitCount, Width
  <2>7. Written(out', in, DigitCount(q, 2)) /\ Len(out') <= Width(q, 2)
    BY <2>1, <2>5, <2>6
  <2>8. Encoding(q, 2)'
    BY <1>3, <1>4, <1>6, <1>13, <2>7 DEF Encoding
  <2> QED
    BY <1>2, <1>3, <2>8 DEF CodecInv
<1> QED
  BY <1>4, <1>11, <1>12, <1>13

\* A sign of padding is written.
LEMMA PadKeeps ==
  ASSUME CodecInv, Pad
  PROVE  CodecInv'
<1>1. PICK q \in Nat, r \in 0..2 : Encoding(q, r)
  BY DEF CodecInv
<1>2. in \in Seq(Octets) /\ val \in Nat
  BY DEF CodecInv
<1>3. /\ padding /\ Len(out) % 4 # 0 /\ out' = Append(out, 64)
      /\ in' = in /\ i' = i /\ val' = val /\ valb' = valb /\ padding' = padding
  BY DEF Pad
<1>4. /\ r = 0 \/ r = 1 \/ r = 2
      /\ i = 3 * q + r + 1 /\ i <= Len(in) + 1 /\ valb = 2 * r - 6
      /\ i > 1 => val % 256 = in[i - 1]
      /\ i = Len(in) + 1 /\ Written(out, in, DigitCount(q, r)) /\ Len(out) <= Width(q, r)
  BY <1>1, <1>3 DEF Encoding
<1>5. Written(out', in, DigitCount(q, r)) /\ Len(out') = Len(out) + 1
  BY <1>3, <1>4, WrittenPad
<1>6. Len(out) \in Nat
  <2>1. out \in Seq(Int)
    BY <1>4 DEF Written
  <2> QED
    BY <2>1, LenProperties
<1>7. Len(out') <= Width(q, r)
  <2>1. PICK n, m : n = Len(out) /\ m = IF r = 0 THEN q ELSE q + 1
    OBVIOUS
  <2>2. Width(q, r) = 4 * m /\ m \in Nat
    BY <1>4, <2>1 DEF Width
  <2>3. n \in Nat /\ n <= 4 * m /\ n % 4 # 0
    BY <1>3, <1>4, <1>6, <2>1, <2>2
  <2>4. n + 1 <= 4 * m
    <3>1. (4 * m) % 4 = 0
      BY <2>2
    <3> QED
      BY <2>2, <2>3, <3>1
  <2> QED
    BY <1>5, <2>1, <2>2, <2>4
<1>8. Encoding(q, r)'
  BY <1>3, <1>4, <1>5, <1>7 DEF Encoding
<1> QED
  BY <1>2, <1>3, <1>8 DEF CodecInv

\* base64_encode keeps the invariant.
LEMMA CodecStep == CodecInv /\ [CodecNext]_codecVars => CodecInv'
<1> SUFFICES ASSUME CodecInv, [CodecNext]_codecVars
             PROVE  CodecInv'
  OBVIOUS
<1>1. CASE Encode
  <2>1. ~padding
    <3>1. PICK q \in Nat, r \in 0..2 : Encoding(q, r)
      BY DEF CodecInv
    <3>2. i <= Len(in) /\ in \in Seq(Octets)
      BY <1>1 DEF Encode, CodecInv
    <3>3. Len(in) \in Nat
      BY <3>2, LenProperties
    <3>4. padding => i = Len(in) + 1
      BY <3>1 DEF Encoding
    <3> QED
      BY <3>2, <3>3, <3>4
  <2> QED
    BY <1>1, <2>1, EncodeKeeps
<1>2. CASE Rest
  BY <1>2, RestKeeps
<1>3. CASE Pad
  BY <1>3, PadKeeps
<1>4. CASE UNCHANGED codecVars
  BY <1>4 DEF codecVars, CodecInv, Encoding
<1> QED
  BY <1>1, <1>2, <1>3, <1>4 DEF CodecNext

\* The digits and the padding are the base64 of the text.
LEMMA Base64Written ==
  ASSUME CodecInv, Encoded
  PROVE  Base64Exact
<1>1. PICK q \in Nat, r \in 0..2 : Encoding(q, r)
  BY DEF CodecInv
<1>2. padding /\ Len(out) % 4 = 0 /\ in \in Seq(Octets)
  BY DEF CodecInv, Encoded
<1>3. /\ r = 0 \/ r = 1 \/ r = 2
      /\ i = 3 * q + r + 1 /\ i = Len(in) + 1
      /\ Written(out, in, DigitCount(q, r)) /\ Len(out) <= Width(q, r)
  BY <1>1, <1>2 DEF Encoding
<1>4. PICK n, all, w : n = Len(in) /\ all = DigitCount(q, r) /\ w = Len(out)
  OBVIOUS
<1>5. n = 3 * q + r
  <2>1. Len(in) \in Nat
    BY <1>2, LenProperties
  <2> QED
    BY <1>3, <1>4, <2>1
<1>6. /\ out \in Seq(Int) /\ all \in Nat /\ all <= w
      /\ \A k \in 1..w : out[k] = IF k <= all THEN Digit(in, k) ELSE 64
      /\ w \in Nat
  <2>1. /\ out \in Seq(Int) /\ all \in Nat /\ all <= w
        /\ \A k \in 1..w : out[k] = IF k <= all THEN Digit(in, k) ELSE 64
    BY <1>3, <1>4 DEF Written
  <2> QED
    BY <1>4, <2>1, LenProperties
<1>7. /\ all = IF r = 0 THEN 4 * q ELSE 4 * q + r + 1
      /\ w <= IF r = 0 THEN 4 * q ELSE 4 * q + 4
  BY <1>3, <1>4 DEF DigitCount, Width
<1>8. w % 4 = 0
  BY <1>2, <1>4
<1>9. (8 * n + 5) \div 6 = all /\ (-all) % 4 = w - all
  <2>1. CASE r = 0
    <3>1. n = 3 * q /\ all = 4 * q /\ w = 4 * q
      BY <1>5, <1>6, <1>7, <2>1
    <3> QED
      BY <3>1
  <2>2. CASE r = 1
    <3>1. n = 3 * q + 1 /\ all = 4 * q + 2 /\ 4 * q + 2 <= w /\ w <= 4 * q + 4
      BY <1>5, <1>6, <1>7, <2>2
    <3>2. w = 4 * q + 4
      BY <1>6, <1>8, <3>1
    <3> QED
      BY <3>1, <3>2
  <2>3. CASE r = 2
    <3>1. n = 3 * q + 2 /\ all = 4 * q + 3 /\ 4 * q + 3 <= w /\ w <= 4 * q + 4
      BY <1>5, <1>6, <1>7, <2>3
    <3>2. w = 4 * q + 4
      BY <1>6, <1>8, <3>1
    <3> QED
      BY <3>1, <3>2
  <2> QED
    BY <1>3, <2>1, <2>2, <2>3
<1>10. PICK a, b : a = [k \in 1..all |-> Digit(in, k)] /\ b = [k \in 1..(w - all) |-> 64]
  OBVIOUS
<1>11. Base64(in) = a \o b
  BY <1>4, <1>9, <1>10, Zenon DEF Base64
<1>12. /\ a \in Seq(Int) /\ Len(a) = all /\ \A k \in 1..all : a[k] = Digit(in, k)
  <2>1. \A k \in 1..all : Digit(in, k) \in Int
    <3> SUFFICES ASSUME NEW k \in 1..all PROVE Digit(in, k) \in Int
      OBVIOUS
    <3>1. k \in 1..w /\ k <= all
      BY <1>6
    <3>2. out[k] \in Int
      BY <1>4, <1>6, <3>1, ElementOfSeq
    <3> QED
      BY <1>6, <3>1, <3>2
  <2>2. a \in [1..all -> Int]
    BY <1>10, <2>1
  <2>3. a \in Seq(Int)
    BY <1>6, <2>2, SeqDef
  <2> QED
    BY <1>6, <1>10, <2>2, <2>3, LenProperties
<1>13. /\ b \in Seq(Int) /\ Len(b) = w - all /\ \A k \in 1..(w - all) : b[k] = 64
  <2>1. PICK p : p = w - all
    OBVIOUS
  <2>2. p \in Nat
    BY <1>6, <2>1
  <2>3. b \in [1..p -> Int]
    BY <1>10, <2>1
  <2>4. b \in Seq(Int)
    BY <2>2, <2>3, SeqDef
  <2> QED
    BY <1>10, <2>1, <2>2, <2>3, <2>4, LenProperties
<1>14. PICK u : u = a \o b
  OBVIOUS
<1>15. u \in Seq(Int) /\ IsJoin(u, a, b)
  BY <1>12, <1>13, <1>14, JoinedSeqs
<1>16. Len(u) = w /\ \A k \in 1..w : out[k] = u[k]
  <2>1. Len(u) = w
    BY <1>6, <1>12, <1>13, <1>15 DEF IsJoin
  <2>2. ASSUME NEW k \in 1..w PROVE out[k] = u[k]
    <3>1. CASE k <= all
      <4>1. k \in 1..all
        BY <1>6, <3>1
      <4>2. u[k] = a[k]
        BY <1>12, <1>15, <4>1 DEF IsJoin
      <4> QED
        BY <1>6, <1>12, <3>1, <4>1, <4>2
    <3>2. CASE ~(k <= all)
      <4>1. PICK m : m = k - all
        OBVIOUS
      <4>2. m \in 1..(w - all) /\ all + m = k
        BY <1>6, <3>2, <4>1
      <4>3. u[all + m] = b[m]
        BY <1>12, <1>13, <1>15, <4>2 DEF IsJoin
      <4> QED
        BY <1>6, <1>13, <3>2, <4>2, <4>3
    <3> QED
      BY <3>1, <3>2
  <2> QED
    BY <2>1, <2>2
<1>17. out = u
  BY <1>4, <1>6, <1>15, <1>16, SeqEqual
<1> QED
  BY <1>11, <1>14, <1>17 DEF Base64Exact

\* CodecsExact: what base64_encode has returned is the base64 of its text, and the
\* encodings of URLs, queries, code points and paths are right for it
\* (httplib.h's base64_encode, encode_query_param, encode_url, decode_url,
\* parse_query_text, to_utf8, is_valid_path), for all texts, code points and paths.
THEOREM CodecsAlwaysExact == CodecSpec => []CodecsExact
<1>1. CodecInit => CodecInv
  BY CodecStarts
<1>2. CodecInv /\ [CodecNext]_codecVars => CodecInv'
  BY CodecStep
<1>3. CodecInv => CodecsExact
  <2> SUFFICES ASSUME CodecInv, Encoded
               PROVE  Base64Exact /\ UrlsRoundTrip /\ Utf8Exact /\ PathsStayInside
    BY DEF CodecsExact
  <2>1. Base64Exact
    BY Base64Written
  <2>2. UrlsRoundTrip
    <3>1. in \in Seq(Octets)
      BY DEF CodecInv
    <3> QED
      BY <3>1, UrlsRead
  <2> QED
    BY <2>1, <2>2, CodesWritten, PathsInside
<1> QED
  BY <1>1, <1>2, <1>3, PTL DEF CodecSpec
=============================================================================
