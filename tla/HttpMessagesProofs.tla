------------------------- MODULE HttpMessagesProofs -------------------------
(***************************************************************************)
(* Proofs about messages, for contents of any length.                      *)
(*                                                                         *)
(* The content on its way (module HttpBody), for buffers of any size and   *)
(* any way of cutting the stream: what is received is a beginning of what  *)
(* was provided, and a reader that reports success has all of it, unless   *)
(* the connection has ended in the line behind a chunk.                    *)
(*                                                                         *)
(* An exchange (modules HttpExchange and HttpRanges), for any requests and *)
(* ranges: where client and server agree on the end of a message, and      *)
(* which bytes a range selects.  Both properties name what they except.    *)
(***************************************************************************)
EXTENDS HttpBody, HttpExchange, SequenceLemmas

\* What a stream may carry.
Items == {Byte(i) : i \in Nat} \cup {Size(n) : n \in Nat} \cup {Crlf}

\* Of any three numbers one is the least.
LEMMA MinThree ==
  ASSUME NEW a \in Int, NEW b \in Int, NEW c \in Int
  PROVE  /\ Min({a, b, c}) \in {a, b, c}
         /\ Min({a, b, c}) <= a /\ Min({a, b, c}) <= b /\ Min({a, b, c}) <= c
<1>1. \E m \in {a, b, c} : \A x \in {a, b, c} : m <= x
  <2>1. CASE a <= b /\ a <= c
    BY <2>1
  <2>2. CASE b <= a /\ b <= c
    BY <2>2
  <2>3. CASE c <= a /\ c <= b
    BY <2>3
  <2> QED
    BY <2>1, <2>2, <2>3
<1> QED
  BY <1>1 DEF Min

\* Bytes, sizes and empty lines can be told from each other.
LEMMA ItemsDiffer ==
  /\ \A i, j \in Int : Byte(i) = Byte(j) => i = j
  /\ \A i, j \in Int : Size(i) = Size(j) => i = j
  /\ \A i, j \in Int : Byte(i) # Size(j)
  /\ \A i \in Int : Byte(i) # Crlf
  /\ \A i \in Nat : Size(i) # Crlf
  /\ \A i \in Int : Size(i).size = i
<1>1. \A i \in Int : DOMAIN Byte(i) = {"byte"} /\ DOMAIN Size(i) = {"size"}
  BY DEF Byte, Size
<1>2. \A i, j \in Int : Byte(i) # Size(j)
  <2>1. {"byte"} # {"size"}
    OBVIOUS
  <2> QED
    BY <1>1, <2>1
<1>3. \A i \in Int : Byte(i).byte = i /\ Size(i).size = i
  BY DEF Byte, Size
<1>4. Crlf = Size(-1)
  BY DEF Crlf, Size
<1>5. \A i \in Nat : Size(i) # Size(-1)
  BY <1>3
<1> QED
  BY <1>2, <1>3, <1>4, <1>5

\* num[k] is the number of bytes of the content before the item at k.  A chunk
\* is a size, as many bytes, the next of the content, and an empty line; the
\* size 0 and an empty line are the last.  (Bytes without a size before them are
\* the rest of a chunk.)
Numbers(s) == [1..(Len(s) + 1) -> Nat]

Laid(s, num, k) ==
    \/ \E i \in Nat : s[k] = Byte(i)
    \/ \E n \in Nat :
          /\ n > 0 /\ s[k] = Size(n) /\ k + n + 1 <= Len(s)
          /\ \A j \in 1..n : s[k + j] = Byte(num[k] + j)
          /\ s[k + n + 1] = Crlf /\ num[k + n + 1] = num[k] + n
    \/ s[k] = Size(0) /\ k + 1 = Len(s) /\ s[k + 1] = Crlf /\ num[k + 1] = num[k]
    \/ /\ s[k] = Crlf /\ num[k + 1] = num[k]
       /\ k < Len(s) => \E n \in Nat : s[k + 1] = Size(n)

LaidOut(s, num) == num \in Numbers(s) /\ \A k \in 1..Len(s) : Laid(s, num, k)

\* What is left of a stream when a part has been read.
LEMMA LaidDrop ==
  ASSUME NEW s \in Seq(Items), NEW num, LaidOut(s, num), NEW m \in 0..Len(s)
  PROVE  LaidOut(SubSeq(s, m + 1, Len(s)), [k \in 1..(Len(s) - m + 1) |-> num[k + m]])
<1> DEFINE t == SubSeq(s, m + 1, Len(s))
           nm == [k \in 1..(Len(s) - m + 1) |-> num[k + m]]
<1>1. Len(s) \in Nat /\ m \in Nat /\ m <= Len(s)
  BY LenProperties
<1>2. t \in Seq(Items) /\ Len(t) = Len(s) - m /\ \A k \in 1..(Len(s) - m) : t[k] = s[k + m]
  <2>1. \A i \in (m + 1)..Len(s) : s[i] \in Items
    BY <1>1, ElementOfSeq
  <2>2. /\ t \in Seq(Items)
        /\ Len(t) = IF m + 1 <= Len(s) THEN Len(s) - (m + 1) + 1 ELSE 0
        /\ \A i \in 1..(Len(s) - (m + 1) + 1) : t[i] = s[(m + 1) + i - 1]
    BY <1>1, <2>1, SubSeqProperties
  <2> HIDE DEF t
  <2> QED
    BY <1>1, <2>2
<1>3. \A k \in 1..(Len(s) - m + 1) : nm[k] = num[k + m] /\ num[k + m] \in Nat
  BY <1>1 DEF LaidOut, Numbers
<1>4. nm \in Numbers(t)
  <2>1. Len(t) + 1 = Len(s) - m + 1
    BY <1>1, <1>2
  <2> QED
    BY <1>3, <2>1 DEF Numbers
<1> HIDE DEF t, nm
<1>5. ASSUME NEW k \in 1..Len(t) PROVE Laid(t, nm, k)
  <2>1. /\ k + m \in 1..Len(s) /\ k \in 1..(Len(s) - m) /\ k \in 1..(Len(s) - m + 1)
        /\ k + 1 \in 1..(Len(s) - m + 1) /\ (k + 1) + m = (k + m) + 1
    BY <1>1, <1>2
  <2>2. Laid(s, num, k + m)
    BY <2>1 DEF LaidOut
  <2>3. t[k] = s[k + m] /\ nm[k] = num[k + m] /\ nm[k + 1] = num[(k + m) + 1]
    <3>1. t[k] = s[k + m]
      BY <1>2, <2>1
    <3>2. nm[k] = num[k + m]
      BY <1>3, <2>1
    <3>3. nm[k + 1] = num[(k + 1) + m]
      BY <1>3, <2>1
    <3> QED
      BY <2>1, <3>1, <3>2, <3>3
  <2>4. CASE \E i \in Nat : s[k + m] = Byte(i)
    BY <2>3, <2>4 DEF Laid
  <2>5. ASSUME NEW n \in Nat, n > 0, s[k + m] = Size(n), (k + m) + n + 1 <= Len(s),
               \A j \in 1..n : s[(k + m) + j] = Byte(num[k + m] + j),
               s[(k + m) + n + 1] = Crlf, num[(k + m) + n + 1] = num[k + m] + n
        PROVE  Laid(t, nm, k)
    <3>1. k + n + 1 <= Len(t) /\ k + n + 1 \in 1..(Len(s) - m)
      <4>1. /\ Len(t) = Len(s) - m /\ (k + m) + n + 1 <= Len(s)
            /\ k \in 1..(Len(s) - m)
        BY <1>2, <2>1, <2>5
      <4> QED
        BY <1>1, <4>1
    <3>2. t[k + n + 1] = Crlf /\ nm[k + n + 1] = nm[k] + n
      <4>1. (k + n + 1) + m = (k + m) + n + 1 /\ k + n + 1 \in 1..(Len(s) - m + 1)
        BY <1>1, <3>1
      <4> QED
        BY <1>2, <1>3, <2>3, <2>5, <3>1, <4>1
    <3>3. ASSUME NEW j \in 1..n PROVE t[k + j] = Byte(nm[k] + j)
      <4>1. k + j \in 1..(Len(s) - m) /\ (k + j) + m = (k + m) + j
        BY <1>1, <3>1
      <4> QED
        BY <1>2, <2>3, <2>5, <4>1
    <3> QED
      BY <2>3, <2>5, <3>1, <3>2, <3>3 DEF Laid
  <2>6. CASE /\ s[k + m] = Size(0) /\ (k + m) + 1 = Len(s) /\ s[(k + m) + 1] = Crlf
             /\ num[(k + m) + 1] = num[k + m]
    <3>1. k + 1 = Len(t) /\ k + 1 \in 1..(Len(s) - m)
      <4>1. Len(t) = Len(s) - m /\ (k + m) + 1 = Len(s) /\ k \in 1..(Len(s) - m)
        BY <1>2, <2>1, <2>6
      <4> QED
        BY <1>1, <4>1
    <3>2. t[k + 1] = Crlf
      BY <1>2, <2>1, <2>6, <3>1
    <3> QED
      BY <2>3, <2>6, <3>1, <3>2 DEF Laid
  <2>7. CASE /\ s[k + m] = Crlf /\ num[(k + m) + 1] = num[k + m]
             /\ k + m < Len(s) => \E n \in Nat : s[(k + m) + 1] = Size(n)
    <3>1. k < Len(t) => k + m < Len(s) /\ t[k + 1] = s[(k + m) + 1]
      <4> SUFFICES ASSUME k < Len(t) PROVE k + m < Len(s) /\ t[k + 1] = s[(k + m) + 1]
        OBVIOUS
      <4>1. k + 1 \in 1..(Len(s) - m) /\ k + m < Len(s)
        BY <1>1, <1>2
      <4> QED
        BY <1>2, <2>1, <4>1
    <3> QED
      BY <2>3, <2>7, <3>1 DEF Laid
  <2> QED
    BY <2>2, <2>4, <2>5, <2>6, <2>7 DEF Laid
<1>6. LaidOut(t, nm)
  BY <1>4, <1>5 DEF LaidOut
<1> QED
  BY <1>6 DEF t, nm

\* What a stream is when a chunk, or the end, has been written to it.
LEMMA LaidAppend ==
  ASSUME NEW s \in Seq(Items), NEW num, LaidOut(s, num),
         NEW t \in Seq(Items), NEW numt, LaidOut(t, numt),
         num[Len(s) + 1] = numt[1], Len(t) > 0, \E n \in Nat : t[1] = Size(n),
         \A k \in 1..Len(s) : s[k] # Size(0)
  PROVE  LaidOut(s \o t, [k \in 1..(Len(s) + Len(t) + 1) |->
                            IF k <= Len(s) THEN num[k] ELSE numt[k - Len(s)]])
<1> DEFINE u == s \o t
           nm == [k \in 1..(Len(s) + Len(t) + 1) |->
                    IF k <= Len(s) THEN num[k] ELSE numt[k - Len(s)]]
<1>1. Len(s) \in Nat /\ Len(t) \in Nat
  BY LenProperties
<1>2. /\ u \in Seq(Items) /\ Len(u) = Len(s) + Len(t)
      /\ \A k \in 1..(Len(s) + Len(t)) :
            u[k] = IF k <= Len(s) THEN s[k] ELSE t[k - Len(s)]
  BY ConcatProperties
<1>3. \A k \in 1..(Len(s) + Len(t) + 1) :
          /\ nm[k] = IF k <= Len(s) THEN num[k] ELSE numt[k - Len(s)]
          /\ nm[k] \in Nat
  <2> SUFFICES ASSUME NEW k \in 1..(Len(s) + Len(t) + 1)
               PROVE  (IF k <= Len(s) THEN num[k] ELSE numt[k - Len(s)]) \in Nat
    OBVIOUS
  <2>1. CASE k <= Len(s)
    <3>1. k \in 1..(Len(s) + 1)
      BY <1>1, <2>1
    <3> QED
      BY <2>1, <3>1 DEF LaidOut, Numbers
  <2>2. CASE ~(k <= Len(s))
    <3>1. k - Len(s) \in 1..(Len(t) + 1)
      BY <1>1, <2>2
    <3> QED
      BY <2>2, <3>1 DEF LaidOut, Numbers
  <2> QED
    BY <2>1, <2>2
<1>4. nm \in Numbers(u)
  <2>1. Len(u) + 1 = Len(s) + Len(t) + 1
    BY <1>1, <1>2
  <2> QED
    BY <1>3, <2>1 DEF Numbers
<1> HIDE DEF u, nm
<1>5. \A k \in 1..Len(s) : u[k] = s[k] /\ nm[k] = num[k]
  BY <1>1, <1>2, <1>3
<1>6. nm[Len(s) + 1] = num[Len(s) + 1]
  <2>1. /\ ~(Len(s) + 1 <= Len(s)) /\ (Len(s) + 1) - Len(s) = 1
        /\ Len(s) + 1 \in 1..(Len(s) + Len(t) + 1)
    BY <1>1
  <2> QED
    BY <1>3, <2>1
<1>7. /\ \A k \in 1..Len(t) : u[Len(s) + k] = t[k]
      /\ \A k \in 1..(Len(t) + 1) : nm[Len(s) + k] = numt[k]
  <2>1. ASSUME NEW k \in 1..(Len(t) + 1)
        PROVE  /\ ~(Len(s) + k <= Len(s)) /\ (Len(s) + k) - Len(s) = k
               /\ Len(s) + k \in 1..(Len(s) + Len(t) + 1)
               /\ k \in 1..Len(t) => Len(s) + k \in 1..(Len(s) + Len(t))
    BY <1>1
  <2>2. \A k \in 1..Len(t) : k \in 1..(Len(t) + 1)
    BY <1>1
  <2> QED
    BY <1>2, <1>3, <2>1, <2>2
<1>8. ASSUME NEW k \in 1..Len(s) PROVE Laid(u, nm, k)
  <2>1. Laid(s, num, k) /\ s[k] # Size(0) /\ u[k] = s[k] /\ nm[k] = num[k]
    BY <1>5 DEF LaidOut
  <2>2. nm[k + 1] = num[k + 1]
    <3>1. CASE k = Len(s)
      BY <1>6, <3>1
    <3>2. CASE k # Len(s)
      <4>1. k + 1 \in 1..Len(s)
        BY <1>1, <3>2
      <4> QED
        BY <1>5, <4>1
    <3> QED
      BY <3>1, <3>2
  <2>3. CASE \E i \in Nat : s[k] = Byte(i)
    BY <2>1, <2>3 DEF Laid
  <2>4. ASSUME NEW n \in Nat, n > 0, s[k] = Size(n), k + n + 1 <= Len(s),
               \A j \in 1..n : s[k + j] = Byte(num[k] + j),
               s[k + n + 1] = Crlf, num[k + n + 1] = num[k] + n
        PROVE  Laid(u, nm, k)
    <3>1. k + n + 1 \in 1..Len(s) /\ k + n + 1 <= Len(u)
      BY <1>1, <1>2, <2>4
    <3>2. u[k + n + 1] = Crlf /\ nm[k + n + 1] = nm[k] + n
      BY <1>5, <2>1, <2>4, <3>1
    <3>3. ASSUME NEW j \in 1..n PROVE u[k + j] = Byte(nm[k] + j)
      <4>1. k + j \in 1..Len(s)
        BY <1>1, <2>4
      <4> QED
        BY <1>5, <2>1, <2>4, <4>1
    <3> QED
      BY <2>1, <2>4, <3>1, <3>2, <3>3 DEF Laid
  <2>5. CASE /\ s[k] = Crlf /\ num[k + 1] = num[k]
             /\ k < Len(s) => \E n \in Nat : s[k + 1] = Size(n)
    <3>1. \E n \in Nat : u[k + 1] = Size(n)
      <4>1. CASE k = Len(s)
        <5>1. u[k + 1] = t[1]
          <6>1. 1 \in 1..Len(t)
            BY <1>1
          <6> QED
            BY <1>7, <4>1, <6>1
        <5> QED
          BY <5>1
      <4>2. CASE k # Len(s)
        <5>1. k < Len(s) /\ k + 1 \in 1..Len(s)
          BY <1>1, <4>2
        <5> QED
          BY <1>5, <2>5, <5>1
      <4> QED
        BY <4>1, <4>2
    <3> QED
      BY <2>1, <2>2, <2>5, <3>1 DEF Laid
  <2> QED
    BY <2>1, <2>3, <2>4, <2>5 DEF Laid
<1>9. ASSUME NEW k \in 1..Len(t) PROVE Laid(u, nm, Len(s) + k)
  <2>1. /\ Laid(t, numt, k) /\ u[Len(s) + k] = t[k] /\ nm[Len(s) + k] = numt[k]
        /\ nm[(Len(s) + k) + 1] = numt[k + 1]
    <3>1. /\ k \in 1..(Len(t) + 1) /\ k + 1 \in 1..(Len(t) + 1)
          /\ (Len(s) + k) + 1 = Len(s) + (k + 1)
      BY <1>1
    <3> QED
      BY <1>7, <3>1 DEF LaidOut
  <2>2. CASE \E i \in Nat : t[k] = Byte(i)
    BY <2>1, <2>2 DEF Laid
  <2>3. ASSUME NEW n \in Nat, n > 0, t[k] = Size(n), k + n + 1 <= Len(t),
               \A j \in 1..n : t[k + j] = Byte(numt[k] + j),
               t[k + n + 1] = Crlf, numt[k + n + 1] = numt[k] + n
        PROVE  Laid(u, nm, Len(s) + k)
    <3>1. /\ k + n + 1 \in 1..Len(t) /\ (Len(s) + k) + n + 1 <= Len(u)
          /\ k + n + 1 \in 1..(Len(t) + 1)
          /\ (Len(s) + k) + n + 1 = Len(s) + (k + n + 1)
      BY <1>1, <1>2, <2>3
    <3>2. /\ u[(Len(s) + k) + n + 1] = Crlf
          /\ nm[(Len(s) + k) + n + 1] = nm[Len(s) + k] + n
      BY <1>7, <2>1, <2>3, <3>1
    <3>3. ASSUME NEW j \in 1..n
          PROVE  u[(Len(s) + k) + j] = Byte(nm[Len(s) + k] + j)
      <4>1. k + j \in 1..Len(t) /\ (Len(s) + k) + j = Len(s) + (k + j)
        BY <1>1, <2>3
      <4> QED
        BY <1>7, <2>1, <2>3, <4>1
    <3> QED
      BY <2>1, <2>3, <3>1, <3>2, <3>3 DEF Laid
  <2>4. CASE t[k] = Size(0) /\ k + 1 = Len(t) /\ t[k + 1] = Crlf /\ numt[k + 1] = numt[k]
    <3>1. /\ k + 1 \in 1..Len(t) /\ (Len(s) + k) + 1 = Len(s) + (k + 1)
          /\ (Len(s) + k) + 1 = Len(u)
      <4>1. Len(u) = Len(s) + (k + 1) /\ k + 1 = Len(t)
        BY <1>2, <2>4
      <4>2. (Len(s) + k) + 1 = Len(s) + (k + 1)
        BY <1>1
      <4>3. k + 1 \in 1..Len(t)
        BY <1>1, <4>1
      <4> QED
        BY <4>1, <4>2, <4>3, Zenon
    <3> QED
      BY <1>7, <2>1, <2>4, <3>1 DEF Laid
  <2>5. CASE /\ t[k] = Crlf /\ numt[k + 1] = numt[k]
             /\ k < Len(t) => \E n \in Nat : t[k + 1] = Size(n)
    <3>1. Len(s) + k < Len(u) => k < Len(t) /\ u[(Len(s) + k) + 1] = t[k + 1]
      <4> SUFFICES ASSUME Len(s) + k < Len(u)
                   PROVE  k < Len(t) /\ u[(Len(s) + k) + 1] = t[k + 1]
        OBVIOUS
      <4>1. /\ k + 1 \in 1..Len(t) /\ k < Len(t)
            /\ (Len(s) + k) + 1 = Len(s) + (k + 1)
        BY <1>1, <1>2
      <4> QED
        BY <1>7, <4>1
    <3> QED
      BY <2>1, <2>5, <3>1 DEF Laid
  <2> QED
    BY <2>1, <2>2, <2>3, <2>4, <2>5 DEF Laid
<1>10. ASSUME NEW k \in 1..Len(u) PROVE Laid(u, nm, k)
  <2>1. CASE k <= Len(s)
    <3>1. k \in 1..Len(s)
      BY <1>1, <2>1
    <3> QED
      BY <1>8, <3>1
  <2>2. CASE ~(k <= Len(s))
    <3>1. PICK j : j = k - Len(s)
      OBVIOUS
    <3>2. j \in 1..Len(t) /\ Len(s) + j = k
      BY <1>1, <1>2, <2>2, <3>1
    <3> QED
      BY <1>9, <3>2
  <2> QED
    BY <2>1, <2>2
<1>11. LaidOut(u, nm)
  BY <1>4, <1>10 DEF LaidOut
<1> QED
  BY <1>11 DEF u, nm
-----------------------------------------------------------------------------
\* The state as it is for any framing: what is received is a beginning of the
\* content, and what is in the stream was provided.
BodyTypes ==
    /\ framing \in {"length", "chunked", "close"} /\ announced \in Nat
    /\ offset \in Nat /\ eof \in BOOLEAN /\ stream \in Seq(Items)
    /\ chunk_len \in Nat /\ r \in Nat
    /\ received \in Seq(Items) /\ Len(received) <= offset
    /\ \A k \in 1..Len(received) : received[k] = Byte(k)
    /\ \A k \in 1..Len(stream), i \in Nat : stream[k] = Byte(i) => i <= offset

\* A content in one piece: the stream has the bytes that follow.
PlainInv ==
    framing # "chunked" =>
        /\ reader \in {"data", "ok", "failed"}
        /\ \A k \in 1..Len(stream) : stream[k] = Byte(Len(received) + k)
        /\ Len(received) + Len(stream) <= offset
        /\ ~eof => Len(received) + Len(stream) = offset
        /\ framing = "length" =>
              /\ r = Len(received) /\ chunk_len = announced /\ offset <= announced
              /\ reader = "ok" => r = chunk_len

\* What the reader reads next, in a stream of chunks with these numbers.
ReaderAt(num) ==
    /\ reader \in {"size", "data", "separator", "terminator", "ok"}
    /\ reader # "data" => num[1] = Len(received)
    /\ reader = "size" => stream = <<>> \/ \E n \in Nat : stream[1] = Size(n)
    /\ reader = "data" =>
          /\ r <= chunk_len /\ (chunk_len - r) + 1 <= Len(stream)
          /\ \A j \in 1..(chunk_len - r) : stream[j] = Byte(Len(received) + j)
          /\ stream[(chunk_len - r) + 1] = Crlf
          /\ num[(chunk_len - r) + 1] = Len(received) + (chunk_len - r)
    /\ reader = "separator" => stream # <<>> /\ stream[1] = Crlf
    /\ reader = "terminator" => Len(stream) = 1 /\ stream[1] = Crlf
    /\ reader = "ok" => stream = <<>>

\* The numbers end with what was provided; if the last chunk is on its way, the
\* writer has ended.
WriterAt(num) ==
    /\ num[Len(stream) + 1] <= offset
    /\ ~eof => num[Len(stream) + 1] = offset
    /\ (\E k \in 1..Len(stream) : stream[k] = Size(0))
            \/ reader \in {"terminator", "ok"} =>
          writer = "done" /\ num[Len(stream) + 1] = offset

ChunkedInv ==
    framing = "chunked" /\ reader # "failed" /\ ~(reader = "ok" /\ BrokenOff) =>
        \E num : LaidOut(stream, num) /\ ReaderAt(num) /\ WriterAt(num)

BodyInv == BodyTypes /\ PlainInv /\ ChunkedInv

\* No more gets through than was written; and only a chunk of no bytes is the
\* last.
PassesInv ==
    /\ passes \in Nat /\ (eof => passes <= Len(stream))
    /\ framing = "chunked" /\ reader \in {"data", "separator"} => chunk_len # 0

\* A content whose provider has given nothing is nowhere.
LEMMA BodyInitInv == BodyInit => BodyInv
<1> SUFFICES ASSUME BodyInit PROVE BodyInv
  OBVIOUS
<1>1. <<>> \in Seq(Items) /\ Len(<<>>) = 0 /\ 0..MaxBody \subseteq Nat
  BY EmptySeq, BodyAssumption DEF BodyAssumption
<1>2. BodyTypes
  <2>1. chunk_len \in Nat /\ announced \in Nat
    BY <1>1 DEF BodyInit
  <2>2. stream = <<>> /\ received = <<>> /\ Len(stream) = 0 /\ Len(received) = 0
    BY <1>1 DEF BodyInit
  <2>3. /\ \A k \in 1..Len(received) : received[k] = Byte(k)
        /\ \A k \in 1..Len(stream), i \in Nat : stream[k] = Byte(i) => i <= offset
    BY <2>2
  <2>4. /\ framing \in {"length", "chunked", "close"} /\ offset = 0 /\ eof = FALSE
        /\ stream \in Seq(Items) /\ received \in Seq(Items) /\ r = 0
    BY <1>1 DEF BodyInit
  <2>5. offset \in Nat /\ r \in Nat /\ Len(received) <= offset
    <3>1. offset = 0 /\ r = 0 /\ Len(received) = 0
      BY <2>2, <2>4
    <3> QED
      BY <3>1
  <2>6. eof \in BOOLEAN
    BY <2>4
  <2> QED
    BY <2>1, <2>3, <2>4, <2>5, <2>6, Zenon DEF BodyTypes
<1>3. PlainInv
  BY <1>1 DEF BodyInit, PlainInv
<1>4. ChunkedInv
  <2>1. LaidOut(<<>>, [k \in 1..1 |-> 0])
    BY <1>1 DEF LaidOut, Numbers
  <2>2. framing = "chunked" => LaidOut(stream, [k \in 1..1 |-> 0])
            /\ ReaderAt([k \in 1..1 |-> 0]) /\ WriterAt([k \in 1..1 |-> 0])
    BY <1>1, <2>1 DEF BodyInit, ReaderAt, WriterAt
  <2> QED
    BY <2>2 DEF ChunkedInv
<1> QED
  BY <1>2, <1>3, <1>4 DEF BodyInv

\* The invariant says what the property does.
LEMMA BodyInvSays == BodyInv => ContentArrives
<1> SUFFICES ASSUME BodyInv PROVE ContentArrives
  OBVIOUS
<1>1. received \in Seq(Items) /\ Len(received) <= offset /\ offset \in Nat
      /\ Len(received) \in Nat /\ Len(stream) \in Nat /\ stream \in Seq(Items)
  BY LenProperties DEF BodyInv, BodyTypes
<1>2. received = [i \in DOMAIN received |-> Byte(i)]
  <2>1. DOMAIN received = 1..Len(received)
    BY <1>1, LenProperties
  <2>2. received = [i \in 1..Len(received) |-> received[i]]
    BY <1>1, LenProperties
  <2> QED
    BY <2>1, <2>2 DEF BodyInv, BodyTypes
<1>3. ASSUME reader = "ok", framing = "length"
      PROVE  Len(received) = offset /\ stream = <<>> /\ offset = announced
  <2>1. /\ r = Len(received) /\ r = chunk_len /\ chunk_len = announced
        /\ offset <= announced /\ Len(received) + Len(stream) <= offset
    BY <1>3 DEF BodyInv, PlainInv
  <2>2. Len(received) = offset /\ offset = announced /\ Len(stream) = 0
    BY <1>1, <2>1
  <2> QED
    BY <1>1, <2>2, EmptySeq
<1>4. ASSUME reader = "ok", framing = "chunked", ~BrokenOff
      PROVE  Len(received) = offset /\ stream = <<>> /\ writer = "done"
  <2>1. PICK num : LaidOut(stream, num) /\ ReaderAt(num) /\ WriterAt(num)
    BY <1>4 DEF BodyInv, ChunkedInv
  <2>2. stream = <<>> /\ num[1] = Len(received) /\ writer = "done"
        /\ num[Len(stream) + 1] = offset
    BY <1>4, <2>1 DEF ReaderAt, WriterAt
  <2>3. Len(stream) + 1 = 1
    BY <2>2, EmptySeq
  <2> QED
    BY <2>2, <2>3
<1>5. framing \in {"length", "chunked", "close"}
  BY DEF BodyInv, BodyTypes
<1> QED
  BY <1>1, <1>2, <1>3, <1>4, <1>5 DEF ContentArrives

\* What the provider gives next.
LEMMA DataIs ==
  ASSUME NEW n \in Nat, offset \in Nat
  PROVE  /\ Data(n) \in Seq(Items) /\ Len(Data(n)) = n
         /\ \A i \in 1..n : Data(n)[i] = Byte(offset + i)
<1>1. \A i \in 1..n : Byte(offset + i) \in Items
  <2> SUFFICES ASSUME NEW i \in 1..n PROVE Byte(offset + i) \in Items
    OBVIOUS
  <2>1. offset + i \in Nat
    OBVIOUS
  <2> QED
    BY <2>1 DEF Items
<1>2. Data(n) \in [1..n -> Items]
  BY <1>1 DEF Data
<1>3. Data(n) \in Seq(Items)
  BY <1>2, SeqDef
<1>4. DOMAIN Data(n) = 1..n
  BY DEF Data
<1>5. Len(Data(n)) = n
  <2>1. PICK d : d = Data(n)
    OBVIOUS
  <2>2. d \in Seq(Items) /\ DOMAIN d = 1..n
    BY <1>3, <1>4, <2>1
  <2>3. 1..n = 1..Len(d) /\ Len(d) \in Nat
    BY <2>2, LenProperties
  <2>4. Len(d) = n
    BY <2>3
  <2> QED
    BY <2>1, <2>4
<1> QED
  BY <1>3, <1>5 DEF Data

\* A chunk, and the end of the chunks, as they are written.
LEMMA NewChunk ==
  ASSUME NEW n \in Nat, n > 0, offset \in Nat
  PROVE  LET t == <<Size(n)>> \o Data(n) \o <<Crlf>>
             nm == [k \in 1..(n + 3) |-> IF k <= n + 1 THEN offset ELSE offset + n]
         IN /\ t \in Seq(Items) /\ Len(t) = n + 2 /\ t[1] = Size(n)
            /\ \A i \in 1..n : t[i + 1] = Byte(offset + i)
            /\ t[n + 2] = Crlf
            /\ LaidOut(t, nm)
<1> DEFINE h == <<Size(n)>>
           e == <<Crlf>>
           d == Data(n)
           t == (h \o d) \o e
           nm == [k \in 1..(n + 3) |-> IF k <= n + 1 THEN offset ELSE offset + n]
<1>1. /\ h \in Seq(Items) /\ Len(h) = 1 /\ h[1] = Size(n)
      /\ e \in Seq(Items) /\ Len(e) = 1 /\ e[1] = Crlf
  <2>1. Size(n) \in Items /\ Crlf \in Items
    BY DEF Items
  <2> QED
    BY <2>1
<1>2. d \in Seq(Items) /\ Len(d) = n /\ \A i \in 1..n : d[i] = Byte(offset + i)
  BY DataIs
<1> HIDE DEF h, e, d
<1>3. /\ h \o d \in Seq(Items) /\ Len(h \o d) = n + 1
      /\ \A k \in 1..(n + 1) : (h \o d)[k] = IF k <= 1 THEN h[k] ELSE d[k - 1]
  <2>1. /\ h \o d \in Seq(Items) /\ Len(h \o d) = Len(h) + Len(d)
        /\ \A k \in 1..(Len(h) + Len(d)) :
              (h \o d)[k] = IF k <= Len(h) THEN h[k] ELSE d[k - Len(h)]
    BY <1>1, <1>2, ConcatProperties
  <2>2. Len(h) + Len(d) = n + 1
    BY <1>1, <1>2
  <2> QED
    BY <1>1, <2>1, <2>2
<1>4. /\ t \in Seq(Items) /\ Len(t) = n + 2
      /\ \A k \in 1..(n + 2) : t[k] = IF k <= n + 1 THEN (h \o d)[k] ELSE e[k - (n + 1)]
  <2>1. PICK hd : hd = h \o d
    OBVIOUS
  <2>2. hd \in Seq(Items) /\ Len(hd) = n + 1
    BY <1>3, <2>1
  <2>3. /\ hd \o e \in Seq(Items) /\ Len(hd \o e) = Len(hd) + Len(e)
        /\ \A k \in 1..(Len(hd) + Len(e)) :
              (hd \o e)[k] = IF k <= Len(hd) THEN hd[k] ELSE e[k - Len(hd)]
    BY <1>1, <2>2, ConcatProperties
  <2>4. Len(hd) + Len(e) = n + 2
    BY <1>1, <2>2
  <2> QED
    BY <2>1, <2>2, <2>3, <2>4
<1> HIDE DEF t
<1>5. t[1] = Size(n)
  <2>1. 1 \in 1..(n + 2) /\ 1 \in 1..(n + 1) /\ 1 <= n + 1
    OBVIOUS
  <2>2. t[1] = (h \o d)[1]
    BY <1>4, <2>1
  <2>3. (h \o d)[1] = h[1]
    BY <1>3, <2>1
  <2> QED
    BY <1>1, <2>2, <2>3
<1>6. ASSUME NEW i \in 1..n PROVE t[i + 1] = Byte(offset + i)
  <2>1. PICK k : k = i + 1
    OBVIOUS
  <2>2. k \in 1..(n + 2) /\ k \in 1..(n + 1) /\ k <= n + 1 /\ ~(k <= 1) /\ k - 1 = i
    BY <2>1
  <2>3. t[k] = (h \o d)[k]
    BY <1>4, <2>2
  <2>4. (h \o d)[k] = d[i]
    BY <1>3, <2>2
  <2> QED
    BY <1>2, <2>1, <2>3, <2>4
<1>7. t[n + 2] = Crlf
  <2>1. n + 2 \in 1..(n + 2) /\ ~(n + 2 <= n + 1) /\ (n + 2) - (n + 1) = 1
    OBVIOUS
  <2> QED
    BY <1>1, <1>4, <2>1
<1>8. nm \in Numbers(t)
  <2>1. Len(t) + 1 = n + 3
    BY <1>4
  <2>2. offset + n \in Nat
    OBVIOUS
  <2> QED
    BY <2>1, <2>2 DEF Numbers
<1>9. ASSUME NEW k \in 1..Len(t) PROVE Laid(t, nm, k)
  <2>1. k \in 1..(n + 2)
    BY <1>4
  <2>2. CASE k = 1
    <3>1. /\ nm[1] = offset /\ nm[n + 2] = offset + n
          /\ 1 + n + 1 <= Len(t) /\ 1 + n + 1 = n + 2
      BY <1>4
    <3>2. \A j \in 1..n : 1 + j = j + 1
      OBVIOUS
    <3>3. \A j \in 1..n : t[1 + j] = Byte(nm[1] + j)
      BY <1>6, <3>1, <3>2
    <3> HIDE DEF nm
    <3> QED
      BY <1>5, <1>7, <2>2, <3>1, <3>3 DEF Laid
  <2>3. CASE k = n + 2
    <3>1. nm[n + 2] = offset + n /\ nm[(n + 2) + 1] = offset + n /\ ~(n + 2 < Len(t))
      BY <1>4
    <3> HIDE DEF nm
    <3> QED
      BY <1>7, <2>3, <3>1 DEF Laid
  <2>4. CASE k # 1 /\ k # n + 2
    <3>1. PICK i : i = k - 1
      OBVIOUS
    <3>2. i \in 1..n /\ k = i + 1 /\ offset + i \in Nat
      BY <2>1, <2>4, <3>1
    <3>3. t[k] = Byte(offset + i)
      BY <1>6, <3>2
    <3> QED
      BY <3>2, <3>3 DEF Laid
  <2> QED
    BY <2>2, <2>3, <2>4
<1> HIDE DEF nm
<1>10. LaidOut(t, nm)
  BY <1>8, <1>9 DEF LaidOut
<1> QED
  BY <1>4, <1>5, <1>6, <1>7, <1>10 DEF h, d, e, t, nm

\* The chunk of no bytes ends the content where the provider has.
LEMMA LastChunk ==
  ASSUME offset \in Nat
  PROVE  LET t == <<Size(0), Crlf>>
         IN /\ t \in Seq(Items) /\ Len(t) = 2 /\ t[1] = Size(0) /\ t[2] = Crlf
            /\ LaidOut(t, [k \in 1..3 |-> offset])
<1> DEFINE t == <<Size(0), Crlf>>
           nm == [k \in 1..3 |-> offset]
<1>1. t \in Seq(Items) /\ Len(t) = 2 /\ t[1] = Size(0) /\ t[2] = Crlf
  <2>1. Size(0) \in Items /\ Crlf \in Items
    BY DEF Items
  <2> QED
    BY <2>1
<1> HIDE DEF t
<1>2. nm \in Numbers(t)
  BY <1>1 DEF Numbers
<1>3. nm[1] = offset /\ nm[2] = offset /\ nm[3] = offset
  OBVIOUS
<1> HIDE DEF nm
<1>4. Laid(t, nm, 1) /\ Laid(t, nm, 2)
  BY <1>1, <1>3 DEF Laid
<1>5. LaidOut(t, nm)
  BY <1>1, <1>2, <1>4 DEF LaidOut
<1> QED
  BY <1>1, <1>5 DEF t, nm

\* A write that gets through: t goes to the end of the stream, whose bytes are
\* of what is provided.
LEMMA PutTypes ==
  ASSUME BodyTypes, NEW t \in Seq(Items), NEW m \in Nat, m >= offset,
         stream' \in {stream, stream \o t}, offset' = m,
         \A k \in 1..Len(t), i \in Nat : t[k] = Byte(i) => i <= m,
         UNCHANGED <<framing, announced, eof, chunk_len, r, received>>
  PROVE  BodyTypes'
<1>1. stream \in Seq(Items) /\ Len(stream) \in Nat /\ Len(t) \in Nat /\ offset \in Nat
  BY LenProperties DEF BodyTypes
<1>2. ASSUME NEW k \in 1..Len(stream), NEW i \in Nat, stream[k] = Byte(i) PROVE i <= m
  <2>1. i <= offset
    BY <1>2 DEF BodyTypes
  <2> QED
    BY <1>1, <2>1
<1>3. CASE stream' = stream
  BY <1>2, <1>3 DEF BodyTypes
<1>4. CASE stream' = stream \o t
  <2>1. /\ stream' \in Seq(Items) /\ Len(stream') = Len(stream) + Len(t)
        /\ \A k \in 1..(Len(stream) + Len(t)) :
              stream'[k] = IF k <= Len(stream) THEN stream[k] ELSE t[k - Len(stream)]
    BY <1>1, <1>4, ConcatProperties
  <2>2. ASSUME NEW k \in 1..Len(stream'), NEW i \in Nat, stream'[k] = Byte(i)
        PROVE  i <= m
    <3>1. CASE k <= Len(stream)
      <4>1. k \in 1..Len(stream) /\ stream[k] = Byte(i)
        BY <1>1, <2>1, <2>2, <3>1
      <4> QED
        BY <1>2, <4>1
    <3>2. CASE ~(k <= Len(stream))
      <4>1. PICK j : j = k - Len(stream)
        OBVIOUS
      <4>2. j \in 1..Len(t)
        BY <1>1, <2>1, <3>2, <4>1
      <4>3. t[j] = Byte(i)
        BY <2>1, <2>2, <3>2, <4>1
      <4> QED
        BY <4>2, <4>3
    <3> QED
      BY <3>1, <3>2
  <2>3. Len(received) <= m /\ Len(received) \in Nat
    <3>1. Len(received) <= offset /\ Len(received) \in Nat
      BY LenProperties DEF BodyTypes
    <3> QED
      BY <1>1, <3>1
  <2> QED
    BY <2>1, <2>2, <2>3 DEF BodyTypes
<1> QED
  BY <1>3, <1>4

\* data_sink.write where the content has a length, or none.
LEMMA ProvidePlain ==
  ASSUME BodyInv, NEW n \in Nat, framing # "chunked", offset' = offset + n,
         framing = "length" => n <= announced - offset,
         Puts(Data(n)), UNCHANGED writer, Writes
  PROVE  BodyInv'
<1>1. /\ framing' = framing /\ announced' = announced /\ eof' = eof /\ reader' = reader
      /\ chunk_len' = chunk_len /\ r' = r /\ received' = received
  BY DEF Writes
<1>2. /\ stream \in Seq(Items) /\ offset \in Nat /\ announced \in Nat
      /\ Len(stream) \in Nat /\ Len(received) \in Nat /\ eof \in BOOLEAN
  BY LenProperties DEF BodyInv, BodyTypes
<1>3. PICK d : d = Data(n)
  OBVIOUS
<1>4. d \in Seq(Items) /\ Len(d) = n /\ \A i \in 1..n : d[i] = Byte(offset + i)
  BY <1>2, <1>3, DataIs
<1>5. stream' = IF eof THEN stream ELSE stream \o d
  BY <1>3 DEF Puts
<1>6. BodyTypes'
  <2>1. ASSUME NEW k \in 1..Len(d), NEW i \in Nat, d[k] = Byte(i) PROVE i <= offset + n
    <3>1. k \in 1..n /\ Byte(offset + k) = Byte(i)
      BY <1>4, <2>1
    <3>2. i = offset + k
      <4>1. offset + k \in Int
        BY <1>2, <3>1
      <4> QED
        BY <3>1, <4>1, ItemsDiffer
    <3> QED
      BY <1>2, <3>1, <3>2
  <2>2. stream' \in {stream, stream \o d}
    BY <1>5
  <2>3. offset + n \in Nat /\ offset + n >= offset
    BY <1>2
  <2>4. BodyTypes
    BY DEF BodyInv
  <2> QED
    BY <1>1, <1>4, <2>1, <2>2, <2>3, <2>4, PutTypes
<1>7. PlainInv'
  <2>1. /\ reader' \in {"data", "ok", "failed"}
        /\ \A k \in 1..Len(stream) : stream[k] = Byte(Len(received) + k)
        /\ Len(received) + Len(stream) <= offset
        /\ ~eof => Len(received) + Len(stream) = offset
        /\ framing = "length" =>
              /\ r = Len(received) /\ chunk_len = announced /\ offset <= announced
              /\ reader = "ok" => r = chunk_len
    BY <1>1 DEF BodyInv, PlainInv
  <2>2. framing = "length" => offset' <= announced
    BY <1>2
  <2>3. CASE eof
    <3>1. stream' = stream /\ eof'
      BY <1>1, <1>5, <2>3
    <3>2. Len(received) + Len(stream) <= offset'
      BY <1>2, <2>1
    <3> QED
      BY <1>1, <2>1, <2>2, <3>1, <3>2 DEF PlainInv
  <2>4. CASE ~eof
    <3>1. /\ Len(stream') = Len(stream) + n
          /\ \A k \in 1..(Len(stream) + n) :
              stream'[k] = IF k <= Len(stream) THEN stream[k] ELSE d[k - Len(stream)]
      BY <1>2, <1>4, <1>5, <2>4, ConcatProperties
    <3>2. ASSUME NEW k \in 1..Len(stream') PROVE stream'[k] = Byte(Len(received) + k)
      <4>1. CASE k <= Len(stream)
        <5>1. k \in 1..Len(stream)
          BY <1>2, <3>1, <4>1
        <5> QED
          BY <2>1, <3>1, <4>1, <5>1
      <4>2. CASE ~(k <= Len(stream))
        <5>1. PICK j : j = k - Len(stream)
          OBVIOUS
        <5>2. j \in 1..n /\ offset + j = Len(received) + k
          <6>1. Len(received) + Len(stream) = offset
            BY <2>1, <2>4
          <6>2. k \in 1..(Len(stream) + n)
            BY <3>1
          <6> QED
            BY <1>2, <4>2, <5>1, <6>1, <6>2
        <5>3. stream'[k] = d[j]
          BY <3>1, <4>2, <5>1
        <5> QED
          BY <1>4, <5>2, <5>3
      <4> QED
        BY <4>1, <4>2
    <3>3. Len(received) + Len(stream') = offset'
      <4>1. Len(received) + Len(stream) = offset
        BY <2>1, <2>4
      <4>2. Len(stream') = Len(stream) + n /\ offset' = offset + n
        BY <1>2, <3>1
      <4> QED
        BY <1>2, <4>1, <4>2
    <3>4. Len(received) + Len(stream') <= offset'
      BY <1>2, <3>3
    <3> QED
      BY <1>1, <2>1, <2>2, <3>2, <3>3, <3>4 DEF PlainInv
  <2> QED
    BY <2>3, <2>4
<1>8. ChunkedInv'
  BY <1>1 DEF ChunkedInv
<1> QED
  BY <1>6, <1>7, <1>8 DEF BodyInv

\* data_sink.write and data_sink.done of a content in chunks.
LEMMA PutChunks ==
  ASSUME BodyInv, framing = "chunked", writer = "writing",
         NEW t \in Seq(Items), NEW numt, LaidOut(t, numt), Len(t) > 0,
         \E n \in Nat : t[1] = Size(n),
         numt[1] = offset, numt[Len(t) + 1] = offset',
         offset' \in Nat, offset' >= offset,
         (\E k \in 1..Len(t) : t[k] = Size(0)) => writer' = "done",
         stream' = IF eof THEN stream ELSE stream \o t,
         UNCHANGED <<framing, eof, passes, reader, chunk_len, r, received>>
  PROVE  ChunkedInv'
<1> SUFFICES ASSUME reader # "failed", ~(reader = "ok" /\ BrokenOff)
             PROVE  \E num : LaidOut(stream', num) /\ ReaderAt(num)' /\ WriterAt(num)'
  BY DEF ChunkedInv, BrokenOff
<1>1. PICK num : LaidOut(stream, num) /\ ReaderAt(num) /\ WriterAt(num)
  BY DEF BodyInv, ChunkedInv
<1>2. /\ stream \in Seq(Items) /\ offset \in Nat /\ Len(stream) \in Nat
      /\ Len(t) \in Nat /\ eof \in BOOLEAN /\ chunk_len \in Nat /\ r \in Nat
  BY LenProperties DEF BodyInv, BodyTypes
<1>3. /\ \A k \in 1..Len(stream) : stream[k] # Size(0)
      /\ reader \notin {"terminator", "ok"}
  BY <1>1 DEF WriterAt
<1>4. CASE eof
  <2>1. stream' = stream
    BY <1>4
  <2>2. ReaderAt(num)'
    BY <1>1, <2>1 DEF ReaderAt
  <2>3. num[Len(stream) + 1] \in Nat /\ num[Len(stream) + 1] <= offset
    <3>1. Len(stream) + 1 \in 1..(Len(stream) + 1)
      BY <1>2
    <3> QED
      BY <1>1, <3>1 DEF LaidOut, Numbers, WriterAt
  <2>4. num[Len(stream) + 1] <= offset'
    BY <1>2, <2>3
  <2>5. WriterAt(num)'
    BY <1>3, <1>4, <2>1, <2>4 DEF WriterAt
  <2> QED
    BY <1>1, <2>1, <2>2, <2>5
<1>5. CASE ~eof
  <2>0. PICK nm : nm = [k \in 1..(Len(stream) + Len(t) + 1) |->
                          IF k <= Len(stream) THEN num[k] ELSE numt[k - Len(stream)]]
    OBVIOUS
  <2>1. num[Len(stream) + 1] = offset
    BY <1>1, <1>5 DEF WriterAt
  <2>2. stream' = stream \o t
    BY <1>5
  <2>3. LaidOut(stream', nm)
    <3>1. LaidOut(stream, num) /\ num[Len(stream) + 1] = numt[1]
      BY <1>1, <2>1
    <3>2. LaidOut(stream \o t, [k \in 1..(Len(stream) + Len(t) + 1) |->
                          IF k <= Len(stream) THEN num[k] ELSE numt[k - Len(stream)]])
      BY <1>2, <1>3, <3>1, LaidAppend
    <3> QED
      BY <2>0, <2>2, <3>2, Zenon
  <2>4. /\ Len(stream') = Len(stream) + Len(t)
        /\ \A k \in 1..(Len(stream) + Len(t)) :
              stream'[k] = IF k <= Len(stream) THEN stream[k] ELSE t[k - Len(stream)]
    BY <1>2, <2>2, ConcatProperties
  <2>5. ASSUME NEW k \in 1..(Len(stream) + 1) PROVE nm[k] = num[k]
    <3>0. /\ k \in 1..(Len(stream) + Len(t) + 1)
          /\ nm[k] = IF k <= Len(stream) THEN num[k] ELSE numt[k - Len(stream)]
      BY <1>2, <2>0
    <3>1. CASE k <= Len(stream)
      BY <3>0, <3>1
    <3>2. CASE ~(k <= Len(stream))
      <4>1. k = Len(stream) + 1 /\ k - Len(stream) = 1
        BY <1>2, <3>2
      <4> QED
        BY <2>1, <3>0, <3>2, <4>1
    <3> QED
      BY <3>1, <3>2
  <2>6. nm[Len(stream) + Len(t) + 1] = numt[Len(t) + 1]
    <3>1. PICK k : k = Len(stream) + Len(t) + 1
      OBVIOUS
    <3>2. /\ k \in 1..(Len(stream) + Len(t) + 1) /\ ~(k <= Len(stream))
          /\ k - Len(stream) = Len(t) + 1
      BY <1>2, <3>1
    <3>3. nm[k] = numt[k - Len(stream)]
      BY <2>0, <3>2
    <3> QED
      BY <3>1, <3>2, <3>3
  <2>7. /\ \A k \in 1..Len(stream) : stream'[k] = stream[k]
        /\ \A k \in 1..Len(t) : stream'[Len(stream) + k] = t[k]
    <3>1. ASSUME NEW k \in 1..Len(t)
          PROVE  /\ Len(stream) + k \in 1..(Len(stream) + Len(t))
                 /\ ~(Len(stream) + k <= Len(stream))
                 /\ (Len(stream) + k) - Len(stream) = k
      BY <1>2
    <3>2. ASSUME NEW k \in 1..Len(stream)
          PROVE  k \in 1..(Len(stream) + Len(t)) /\ k <= Len(stream)
      BY <1>2
    <3> QED
      BY <2>4, <3>1, <3>2
  <2>8. ReaderAt(nm)'
    <3>1. reader # "data" => nm[1] = Len(received)
      <4>1. 1 \in 1..(Len(stream) + 1)
        BY <1>2
      <4> QED
        BY <1>1, <2>5, <4>1 DEF ReaderAt
    <3>2. reader = "size" => \E n \in Nat : stream'[1] = Size(n)
      <4>1. CASE Len(stream) = 0
        <5>1. 1 \in 1..Len(t) /\ Len(stream) + 1 = 1
          BY <1>2, <4>1
        <5> QED
          BY <2>7, <5>1
      <4>2. CASE Len(stream) # 0
        <5>1. 1 \in 1..Len(stream) /\ stream # <<>>
          BY <1>2, <4>2, EmptySeq
        <5> QED
          BY <1>1, <2>7, <5>1 DEF ReaderAt
      <4> QED
        BY <4>1, <4>2
    <3>3. reader = "data" =>
            /\ r <= chunk_len /\ (chunk_len - r) + 1 <= Len(stream')
            /\ \A j \in 1..(chunk_len - r) : stream'[j] = Byte(Len(received) + j)
            /\ stream'[(chunk_len - r) + 1] = Crlf
            /\ nm[(chunk_len - r) + 1] = Len(received) + (chunk_len - r)
      <4> SUFFICES ASSUME reader = "data"
                   PROVE  /\ r <= chunk_len /\ (chunk_len - r) + 1 <= Len(stream')
                          /\ \A j \in 1..(chunk_len - r) :
                                stream'[j] = Byte(Len(received) + j)
                          /\ stream'[(chunk_len - r) + 1] = Crlf
                          /\ nm[(chunk_len - r) + 1] = Len(received) + (chunk_len - r)
        OBVIOUS
      <4>1. PICK left : left = chunk_len - r
        OBVIOUS
      <4>2. /\ r <= chunk_len /\ left + 1 <= Len(stream)
            /\ \A j \in 1..left : stream[j] = Byte(Len(received) + j)
            /\ stream[left + 1] = Crlf /\ num[left + 1] = Len(received) + left
        BY <1>1, <4>1 DEF ReaderAt
      <4>3. /\ left \in Nat /\ left + 1 \in 1..Len(stream)
            /\ left + 1 \in 1..(Len(stream) + 1) /\ left + 1 <= Len(stream')
            /\ \A j \in 1..left : j \in 1..Len(stream)
        BY <1>2, <2>4, <4>1, <4>2
      <4>4. /\ \A j \in 1..left : stream'[j] = Byte(Len(received) + j)
            /\ stream'[left + 1] = Crlf /\ nm[left + 1] = Len(received) + left
        BY <2>5, <2>7, <4>2, <4>3
      <4> QED
        BY <4>1, <4>2, <4>3, <4>4
    <3>4. reader = "separator" => stream' # <<>> /\ stream'[1] = Crlf
      <4> SUFFICES ASSUME reader = "separator"
                   PROVE  stream' # <<>> /\ stream'[1] = Crlf
        OBVIOUS
      <4>1. stream # <<>> /\ stream[1] = Crlf
        BY <1>1 DEF ReaderAt
      <4>2. 1 \in 1..Len(stream) /\ Len(stream') # 0
        BY <1>2, <2>4, <4>1, EmptySeq
      <4> QED
        BY <2>7, <4>1, <4>2, EmptySeq
    <3>5. reader \in {"size", "data", "separator"}
      BY <1>1, <1>3 DEF ReaderAt
    <3> QED
      BY <3>1, <3>2, <3>3, <3>4, <3>5 DEF ReaderAt
  <2>9. WriterAt(nm)'
    <3>1. nm[Len(stream') + 1] = offset'
      BY <2>4, <2>6
    <3>2. ASSUME NEW k \in 1..Len(stream'), stream'[k] = Size(0) PROVE writer' = "done"
      <4>1. CASE k <= Len(stream)
        <5>1. k \in 1..Len(stream)
          BY <1>2, <2>4, <4>1
        <5> QED
          BY <1>3, <2>7, <3>2, <5>1
      <4>2. CASE ~(k <= Len(stream))
        <5>1. PICK j : j = k - Len(stream)
          OBVIOUS
        <5>2. j \in 1..Len(t) /\ Len(stream) + j = k
          BY <1>2, <2>4, <4>2, <5>1
        <5>3. t[j] = Size(0)
          BY <2>7, <3>2, <5>2
        <5> QED
          BY <5>2, <5>3
      <4> QED
        BY <4>1, <4>2
    <3>3. nm[Len(stream') + 1] <= offset'
      BY <3>1
    <3> QED
      BY <1>3, <3>1, <3>2, <3>3 DEF WriterAt
  <2> QED
    BY <2>3, <2>8, <2>9
<1> QED
  BY <1>2, <1>4, <1>5

\* data_sink.write keeps the invariant.
LEMMA ProvideInv ==
  ASSUME BodyInv, Provide
  PROVE  BodyInv'
<1>1. PICK n \in 0..(MaxBody - offset) :
        /\ framing = "length" => n <= announced - offset
        /\ offset' = offset + n
        /\ \/ framing # "chunked" /\ Puts(Data(n)) /\ UNCHANGED writer
           \/ /\ framing = "chunked" /\ n > 0
              /\ Puts(<<Size(n)>> \o Data(n) \o <<Crlf>>) /\ UNCHANGED writer
           \/ framing = "chunked" /\ n = 0 /\ writer' = "ended" /\ UNCHANGED stream
  BY DEF Provide
<1>2. /\ offset \in Nat /\ n \in Nat /\ offset + n \in Nat /\ offset + n >= offset
      /\ BodyTypes /\ writer = "writing"
      /\ UNCHANGED <<framing, announced, eof, passes, reader, chunk_len, r, received>>
  <2>1. offset \in Nat /\ BodyTypes /\ n \in Nat
    BY DEF BodyInv, BodyTypes
  <2>2. offset + n \in Nat /\ offset + n >= offset
    BY <2>1
  <2> QED
    BY <2>1, <2>2 DEF Provide, Writes
<1>3. CASE framing # "chunked"
  <2>1. Puts(Data(n)) /\ UNCHANGED writer
    BY <1>1, <1>3 DEF Puts
  <2>2. Writes
    BY DEF Provide
  <2> QED
    BY <1>1, <1>2, <1>3, <2>1, <2>2, ProvidePlain
<1>4. CASE framing = "chunked" /\ n > 0
  <2>1. PICK t : t = <<Size(n)>> \o Data(n) \o <<Crlf>>
    OBVIOUS
  <2>2. PICK nm : nm = [k \in 1..(n + 3) |-> IF k <= n + 1 THEN offset ELSE offset + n]
    OBVIOUS
  <2>3. /\ t \in Seq(Items) /\ Len(t) = n + 2 /\ t[1] = Size(n)
        /\ \A i \in 1..n : t[i + 1] = Byte(offset + i)
        /\ t[n + 2] = Crlf /\ LaidOut(t, nm)
    BY <1>2, <1>4, <2>1, <2>2, NewChunk
  <2>4. stream' = (IF eof THEN stream ELSE stream \o t) /\ writer' = writer
    BY <1>1, <1>4, <2>1 DEF Puts
  <2>5. ASSUME NEW k \in 1..Len(t)
        PROVE  \/ t[k] = Size(n)
               \/ \E i \in 1..n : t[k] = Byte(offset + i)
               \/ t[k] = Crlf
    <3>1. CASE k = 1
      BY <2>3, <3>1
    <3>2. CASE k = n + 2
      BY <2>3, <3>2
    <3>3. CASE k # 1 /\ k # n + 2
      <4>1. PICK i : i = k - 1
        OBVIOUS
      <4>2. i \in 1..n /\ i + 1 = k
        BY <1>2, <2>3, <3>3, <4>1
      <4> QED
        BY <2>3, <4>2
    <3> QED
      BY <3>1, <3>2, <3>3
  <2>6. ASSUME NEW k \in 1..Len(t), NEW i \in Nat, t[k] = Byte(i)
        PROVE  i <= offset + n
    <3>1. t[k] # Size(n) /\ t[k] # Crlf
      BY <1>2, <2>6, ItemsDiffer
    <3>2. PICK j \in 1..n : t[k] = Byte(offset + j)
      BY <2>5, <3>1
    <3>3. i = offset + j
      <4>1. PICK m : m = offset + j
        OBVIOUS
      <4>2. m \in Int /\ Byte(i) = Byte(m)
        BY <1>2, <2>6, <3>2, <4>1
      <4>3. i = m
        BY <4>2, ItemsDiffer
      <4> QED
        BY <4>1, <4>3
    <3> QED
      BY <1>2, <3>3
  <2>7. ASSUME NEW k \in 1..Len(t) PROVE t[k] # Size(0)
    <3>1. Size(n) # Size(0) /\ Crlf # Size(0)
      BY <1>2, <1>4, ItemsDiffer
    <3>2. \A i \in 1..n : Byte(offset + i) # Size(0)
      <4>1. \A i \in 1..n : offset + i \in Int
        BY <1>2
      <4> QED
        BY <4>1, ItemsDiffer
    <3> QED
      BY <2>5, <3>1, <3>2
  <2>8. BodyTypes'
    <3>1. stream' \in {stream, stream \o t}
      BY <2>4
    <3> QED
      BY <1>1, <1>2, <2>3, <2>6, <3>1, PutTypes
  <2>9. ChunkedInv'
    <3>1. nm[1] = offset /\ nm[Len(t) + 1] = offset'
      <4>1. /\ 1 \in 1..(n + 3) /\ 1 <= n + 1
            /\ Len(t) + 1 = n + 3 /\ n + 3 \in 1..(n + 3) /\ ~(n + 3 <= n + 1)
        BY <1>2, <2>3
      <4> QED
        BY <1>1, <2>2, <4>1
    <3>2. Len(t) > 0 /\ \E m \in Nat : t[1] = Size(m)
      BY <1>2, <2>3
    <3>3. offset' \in Nat /\ offset' >= offset
      BY <1>1, <1>2
    <3> QED
      BY <1>2, <1>4, <2>3, <2>4, <2>7, <3>1, <3>2, <3>3, PutChunks
  <2>10. PlainInv'
    BY <1>2, <1>4 DEF PlainInv
  <2> QED
    BY <2>8, <2>9, <2>10 DEF BodyInv
<1>5. CASE framing = "chunked" /\ ~(n > 0)
  <2>1. n = 0 /\ writer' = "ended" /\ UNCHANGED stream
    BY <1>1, <1>2, <1>5
  <2>2. offset' = offset
    BY <1>1, <1>2, <2>1
  <2>3. BodyTypes'
    BY <1>2, <2>1, <2>2 DEF BodyTypes
  <2>4. ChunkedInv'
    <3> SUFFICES ASSUME reader # "failed", ~(reader = "ok" /\ BrokenOff)
                 PROVE  \E num : LaidOut(stream', num) /\ ReaderAt(num)' /\ WriterAt(num)'
      BY <1>2 DEF ChunkedInv, BrokenOff
    <3>1. PICK num : LaidOut(stream, num) /\ ReaderAt(num) /\ WriterAt(num)
      BY <1>5 DEF BodyInv, ChunkedInv
    <3>2. ReaderAt(num)'
      BY <1>2, <2>1, <3>1 DEF ReaderAt
    <3>3. WriterAt(num)'
      BY <1>2, <2>1, <2>2, <3>1 DEF WriterAt
    <3> QED
      BY <2>1, <3>1, <3>2, <3>3
  <2>5. PlainInv'
    BY <1>2, <1>5 DEF PlainInv
  <2> QED
    BY <2>3, <2>4, <2>5 DEF BodyInv
<1> QED
  BY <1>3, <1>4, <1>5

\* Only how the writer has ended, or that the connection has, is new: no last
\* chunk was in the stream while it was writing.
LEMMA WriterEnds ==
  ASSUME BodyInv, \/ writer = "writing" /\ UNCHANGED eof
                  \/ UNCHANGED writer /\ eof' = TRUE,
         BrokenOff => BrokenOff',
         UNCHANGED <<framing, announced, offset, stream, reader, chunk_len, r, received>>
  PROVE  BodyInv'
<1>1. BodyTypes'
  BY DEF BodyInv, BodyTypes
<1>2. PlainInv'
  BY DEF BodyInv, PlainInv
<1>3. ChunkedInv'
  <2> SUFFICES ASSUME framing = "chunked", reader # "failed",
                      ~(reader = "ok" /\ BrokenOff)
               PROVE  \E num : LaidOut(stream', num) /\ ReaderAt(num)' /\ WriterAt(num)'
    BY DEF ChunkedInv
  <2>1. PICK num : LaidOut(stream, num) /\ ReaderAt(num) /\ WriterAt(num)
    BY DEF BodyInv, ChunkedInv
  <2>2. ReaderAt(num)'
    BY <2>1 DEF ReaderAt
  <2>3. WriterAt(num)'
    BY <2>1 DEF WriterAt
  <2> QED
    BY <2>1, <2>2, <2>3
<1> QED
  BY <1>1, <1>2, <1>3 DEF BodyInv

\* data_sink.done keeps it.
LEMMA ProviderDoneInv ==
  ASSUME BodyInv, ProviderDone
  PROVE  BodyInv'
<1>1. /\ writer = "writing" /\ writer' = "done" /\ offset' = offset
      /\ UNCHANGED <<framing, announced, eof, passes, reader, chunk_len, r, received>>
  BY DEF ProviderDone, Writes
<1>2. CASE framing # "chunked"
  <2>1. UNCHANGED stream
    BY <1>2 DEF ProviderDone
  <2>2. BrokenOff => BrokenOff'
    BY <1>1 DEF BrokenOff
  <2> QED
    BY <1>1, <2>1, <2>2, WriterEnds
<1>3. CASE framing = "chunked"
  <2>1. PICK t, nm : t = <<Size(0), Crlf>> /\ nm = [k \in 1..3 |-> offset]
    OBVIOUS
  <2>2. offset \in Nat /\ BodyTypes
    BY DEF BodyInv, BodyTypes
  <2>3. /\ t \in Seq(Items) /\ Len(t) = 2 /\ t[1] = Size(0) /\ t[2] = Crlf
        /\ LaidOut(t, nm)
    BY <2>1, <2>2, LastChunk
  <2>4. stream' = IF eof THEN stream ELSE stream \o t
    BY <1>3, <2>1 DEF ProviderDone, Puts
  <2>5. ASSUME NEW k \in 1..Len(t), NEW i \in Nat, t[k] = Byte(i) PROVE i <= offset
    <3>1. k = 1 \/ k = 2
      BY <2>3
    <3> QED
      BY <2>3, <2>5, <3>1, ItemsDiffer
  <2>6. BodyTypes'
    <3>1. stream' \in {stream, stream \o t} /\ offset >= offset
      BY <2>2, <2>4
    <3> QED
      BY <1>1, <2>2, <2>3, <2>5, <3>1, PutTypes
  <2>7. ChunkedInv'
    <3>1. nm[1] = offset /\ nm[Len(t) + 1] = offset' /\ offset' \in Nat /\ offset' >= offset
      BY <1>1, <2>1, <2>2, <2>3
    <3>2. Len(t) > 0 /\ \E m \in Nat : t[1] = Size(m)
      BY <2>3
    <3> QED
      BY <1>1, <1>3, <2>3, <2>4, <3>1, <3>2, PutChunks
  <2>8. PlainInv'
    BY <1>1, <1>3 DEF PlainInv
  <2> QED
    BY <2>6, <2>7, <2>8 DEF BodyInv
<1> QED
  BY <1>2, <1>3
-----------------------------------------------------------------------------
\* A part of the stream has been read.
LEMMA DropFacts ==
  ASSUME NEW s \in Seq(Items), NEW m \in 0..Len(s)
  PROVE  LET t == SubSeq(s, m + 1, Len(s))
         IN /\ t \in Seq(Items) /\ Len(t) = Len(s) - m
            /\ \A k \in 1..(Len(s) - m) : t[k] = s[k + m]
<1> DEFINE t == SubSeq(s, m + 1, Len(s))
<1>1. Len(s) \in Nat /\ m \in Nat /\ m <= Len(s)
  BY LenProperties
<1>2. \A i \in (m + 1)..Len(s) : s[i] \in Items
  BY <1>1, ElementOfSeq
<1>3. /\ t \in Seq(Items)
      /\ Len(t) = IF m + 1 <= Len(s) THEN Len(s) - (m + 1) + 1 ELSE 0
      /\ \A i \in 1..(Len(s) - (m + 1) + 1) : t[i] = s[(m + 1) + i - 1]
  BY <1>1, <1>2, SubSeqProperties
<1> HIDE DEF t
<1>4. /\ t \in Seq(Items) /\ Len(t) = Len(s) - m
      /\ \A k \in 1..(Len(s) - m) : t[k] = s[k + m]
  BY <1>1, <1>3
<1> QED
  BY <1>4 DEF t

\* What is behind the first item of a stream.
LEMMA TailFacts ==
  ASSUME NEW s \in Seq(Items), s # <<>>
  PROVE  /\ Tail(s) = SubSeq(s, 1 + 1, Len(s)) /\ 1 \in 0..Len(s)
         /\ Head(s) = s[1] /\ Len(s) \in Nat /\ Len(s) >= 1
<1>1. Len(s) \in Nat /\ Len(s) >= 1
  BY EmptySeq, LenProperties
<1>2. Tail(s) = SubSeq(s, 2, Len(s))
  BY TailIsSubSeq
<1>3. Head(s) = s[1]
  OBVIOUS
<1>4. 1 + 1 = 2
  OBVIOUS
<1> QED
  BY <1>1, <1>2, <1>3, <1>4

\* Reading takes nothing into the stream.
LEMMA DropTypes ==
  ASSUME BodyTypes, NEW m \in 0..Len(stream),
         stream' = SubSeq(stream, m + 1, Len(stream)),
         chunk_len' \in Nat, r' \in Nat,
         UNCHANGED <<framing, announced, eof, offset, received>>
  PROVE  BodyTypes'
<1>1. /\ stream \in Seq(Items) /\ m \in Nat /\ Len(stream) \in Nat
      /\ stream' \in Seq(Items) /\ Len(stream') = Len(stream) - m
      /\ \A k \in 1..(Len(stream) - m) : stream'[k] = stream[k + m]
  BY DropFacts, LenProperties DEF BodyTypes
<1>2. ASSUME NEW k \in 1..Len(stream'), NEW i \in Nat, stream'[k] = Byte(i)
      PROVE  i <= offset
  <2>1. k \in 1..(Len(stream) - m) /\ k + m \in 1..Len(stream)
    BY <1>1
  <2>2. stream[k + m] = Byte(i)
    BY <1>1, <1>2, <2>1
  <2> QED
    BY <2>1, <2>2 DEF BodyTypes
<1> QED
  BY <1>1, <1>2 DEF BodyTypes

\* The numbers that are left still end with what was provided.
LEMMA DropWriter ==
  ASSUME BodyTypes, NEW num, LaidOut(stream, num), WriterAt(num),
         NEW m \in 0..Len(stream), stream' = SubSeq(stream, m + 1, Len(stream)),
         NEW nm, nm = [k \in 1..(Len(stream) - m + 1) |-> num[k + m]],
         reader' \in {"terminator", "ok"} =>
            \/ \E k \in 1..Len(stream) : stream[k] = Size(0)
            \/ reader \in {"terminator", "ok"},
         UNCHANGED <<writer, eof, offset>>
  PROVE  LaidOut(stream', nm) /\ WriterAt(nm)'
<1>1. /\ stream \in Seq(Items) /\ m \in Nat /\ m <= Len(stream) /\ Len(stream) \in Nat
      /\ stream' \in Seq(Items) /\ Len(stream') = Len(stream) - m
      /\ \A k \in 1..(Len(stream) - m) : stream'[k] = stream[k + m]
  BY DropFacts, LenProperties DEF BodyTypes
<1>2. LaidOut(stream', nm)
  <2>1. LaidOut(SubSeq(stream, m + 1, Len(stream)),
                [k \in 1..(Len(stream) - m + 1) |-> num[k + m]])
    BY <1>1, LaidDrop
  <2> QED
    BY <2>1
<1>3. nm[Len(stream') + 1] = num[Len(stream) + 1]
  <2>1. PICK k : k = Len(stream') + 1
    OBVIOUS
  <2>2. k \in 1..(Len(stream) - m + 1) /\ k + m = Len(stream) + 1
    BY <1>1, <2>1
  <2>3. nm[k] = num[k + m]
    BY <2>2
  <2> QED
    BY <2>1, <2>2, <2>3
<1>4. ASSUME NEW k \in 1..Len(stream'), stream'[k] = Size(0)
      PROVE  \E j \in 1..Len(stream) : stream[j] = Size(0)
  <2>1. k \in 1..(Len(stream) - m) /\ k + m \in 1..Len(stream)
    BY <1>1
  <2> QED
    BY <1>1, <1>4, <2>1
<1>5. WriterAt(nm)'
  BY <1>3, <1>4 DEF WriterAt
<1> QED
  BY <1>2, <1>5

\* read_content_chunked reads a size.
LEMMA ReadSizeInv ==
  ASSUME BodyInv, ReadSize
  PROVE  BodyInv'
<1>1. /\ reader = "size" /\ stream # <<>>
      /\ chunk_len' = Head(stream).size /\ r' = 0 /\ stream' = Tail(stream)
      /\ reader' = IF Head(stream).size = 0 THEN "terminator" ELSE "data"
      /\ UNCHANGED <<framing, announced, writer, offset, eof, received>>
  BY DEF ReadSize, Reads
<1>2. framing = "chunked" /\ BodyTypes /\ stream \in Seq(Items)
  BY <1>1 DEF BodyInv, PlainInv, BodyTypes
<1>3. /\ stream' = SubSeq(stream, 1 + 1, Len(stream)) /\ 1 \in 0..Len(stream)
      /\ Head(stream) = stream[1] /\ Len(stream) \in Nat /\ Len(stream) >= 1
  BY <1>1, <1>2, TailFacts
<1>4. PICK num : LaidOut(stream, num) /\ ReaderAt(num) /\ WriterAt(num)
  BY <1>1, <1>2 DEF BodyInv, ChunkedInv
<1>5. PICK n \in Nat : stream[1] = Size(n)
  BY <1>1, <1>4 DEF ReaderAt
<1>6. Head(stream).size = n
  <2>1. Size(n).size = n
    BY ItemsDiffer
  <2> QED
    BY <1>3, <1>5, <2>1
<1>7. 1 \in 1..Len(stream) /\ Laid(stream, num, 1) /\ num[1] = Len(received)
  <2>1. 1 \in 1..Len(stream)
    BY <1>3
  <2> QED
    BY <1>1, <1>4, <2>1 DEF LaidOut, ReaderAt
<1>8. BodyTypes'
  <2>1. chunk_len' \in Nat /\ r' \in Nat
    BY <1>1, <1>6
  <2> QED
    BY <1>1, <1>2, <1>3, <2>1, DropTypes
<1>9. PlainInv'
  BY <1>1, <1>2 DEF PlainInv
<1>10. PICK nm : nm = [k \in 1..(Len(stream) - 1 + 1) |-> num[k + 1]]
  OBVIOUS
<1>11. LaidOut(stream', nm) /\ WriterAt(nm)'
  <2>1. reader' \in {"terminator", "ok"} => \E k \in 1..Len(stream) : stream[k] = Size(0)
    BY <1>1, <1>5, <1>6, <1>7
  <2>2. LaidOut(stream, num) /\ WriterAt(num)
    BY <1>4
  <2> QED
    BY <1>1, <1>2, <1>3, <1>10, <2>1, <2>2, DropWriter
<1>12. /\ Len(stream') = Len(stream) - 1
       /\ \A k \in 1..(Len(stream) - 1) : stream'[k] = stream[k + 1]
  BY <1>2, <1>3, DropFacts
<1>13. \A k \in 1..Len(stream) : nm[k] = num[k + 1]
  <2>1. Len(stream) - 1 + 1 = Len(stream)
    BY <1>3
  <2> QED
    BY <1>10, <2>1
<1>14. ReaderAt(nm)'
  <2>1. CASE n > 0
    <3>1. /\ 1 + n + 1 <= Len(stream)
          /\ \A j \in 1..n : stream[1 + j] = Byte(num[1] + j)
          /\ stream[1 + n + 1] = Crlf /\ num[1 + n + 1] = num[1] + n
      <4>1. /\ \A i \in Nat : stream[1] # Byte(i)
            /\ stream[1] # Size(0) /\ stream[1] # Crlf
            /\ \A m \in Nat : stream[1] = Size(m) => m = n
        BY <1>5, <2>1, ItemsDiffer
      <4> QED
        BY <1>7, <4>1 DEF Laid
    <3>2. /\ reader' = "data" /\ chunk_len' = n /\ r' = 0 /\ n - 0 = n
          /\ received' = received
      BY <1>1, <1>6, <2>1
    <3>3. n + 1 <= Len(stream')
      BY <1>3, <1>12, <3>1
    <3>4. ASSUME NEW j \in 1..n PROVE stream'[j] = Byte(Len(received) + j)
      <4>1. j \in 1..(Len(stream) - 1) /\ j + 1 = 1 + j
        BY <1>3, <3>1
      <4> QED
        BY <1>7, <1>12, <3>1, <4>1
    <3>5. stream'[n + 1] = Crlf /\ nm[n + 1] = Len(received) + n
      <4>1. PICK k : k = n + 1
        OBVIOUS
      <4>2. k \in 1..(Len(stream) - 1) /\ k \in 1..Len(stream) /\ k + 1 = 1 + n + 1
        BY <1>3, <3>1, <4>1
      <4>3. stream'[k] = stream[k + 1] /\ nm[k] = num[k + 1]
        BY <1>12, <1>13, <4>2
      <4> QED
        BY <1>7, <3>1, <4>1, <4>2, <4>3
    <3>6. 0 <= n
      OBVIOUS
    <3> QED
      BY <3>2, <3>3, <3>4, <3>5, <3>6 DEF ReaderAt
  <2>2. CASE n = 0
    <3>1. 1 + 1 = Len(stream) /\ stream[1 + 1] = Crlf /\ num[1 + 1] = num[1]
      <4>1. /\ \A i \in Nat : stream[1] # Byte(i)
            /\ stream[1] # Crlf
            /\ \A m \in Nat : m > 0 => stream[1] # Size(m)
        BY <1>5, <2>2, ItemsDiffer
      <4> QED
        BY <1>7, <4>1 DEF Laid
    <3>2. reader' = "terminator" /\ received' = received
      BY <1>1, <1>6, <2>2
    <3>3. Len(stream') = 1 /\ stream'[1] = Crlf /\ nm[1] = Len(received)
      <4>1. 1 \in 1..(Len(stream) - 1) /\ Len(stream) - 1 = 1
        BY <3>1
      <4> QED
        BY <1>7, <1>12, <1>13, <3>1, <4>1
    <3> QED
      BY <3>2, <3>3 DEF ReaderAt
  <2> QED
    BY <2>1, <2>2
<1>15. ChunkedInv'
  BY <1>11, <1>14 DEF ChunkedInv
<1> QED
  BY <1>8, <1>9, <1>15 DEF BodyInv
\* What a reader gets from one read: the beginning of the stream, which follows
\* what it has received.
LEMMA ReadGets ==
  ASSUME BodyTypes, NEW n \in 0..Len(stream),
         stream' = SubSeq(stream, n + 1, Len(stream)),
         received' = received \o SubSeq(stream, 1, n),
         \A j \in 1..n : stream[j] = Byte(Len(received) + j)
  PROVE  /\ received' \in Seq(Items) /\ Len(received') = Len(received) + n
         /\ Len(received') <= offset
         /\ \A k \in 1..Len(received') : received'[k] = Byte(k)
         /\ stream' \in Seq(Items) /\ Len(stream') = Len(stream) - n
         /\ \A k \in 1..(Len(stream) - n) : stream'[k] = stream[k + n]
<1>1. /\ stream \in Seq(Items) /\ received \in Seq(Items) /\ n \in Nat
      /\ Len(stream) \in Nat /\ Len(received) \in Nat /\ offset \in Nat
      /\ Len(received) <= offset /\ n <= Len(stream)
  BY LenProperties DEF BodyTypes
<1>2. /\ stream' \in Seq(Items) /\ Len(stream') = Len(stream) - n
      /\ \A k \in 1..(Len(stream) - n) : stream'[k] = stream[k + n]
  BY <1>1, DropFacts
<1>3. PICK p : p = SubSeq(stream, 1, n)
  OBVIOUS
<1>4. p \in Seq(Items) /\ Len(p) = n /\ \A j \in 1..n : p[j] = stream[j]
  <2>1. \A i \in 1..n : stream[i] \in Items
    BY <1>1, ElementOfSeq
  <2>2. /\ p \in Seq(Items)
        /\ Len(p) = IF 1 <= n THEN n - 1 + 1 ELSE 0
        /\ \A i \in 1..(n - 1 + 1) : p[i] = stream[1 + i - 1]
    BY <1>1, <1>3, <2>1, SubSeqProperties
  <2> QED
    BY <1>1, <2>2
<1>5. /\ received' \in Seq(Items) /\ Len(received') = Len(received) + n
      /\ \A k \in 1..(Len(received) + n) :
            received'[k] = IF k <= Len(received) THEN received[k] ELSE p[k - Len(received)]
  BY <1>1, <1>3, <1>4, ConcatProperties
<1>6. ASSUME NEW k \in 1..Len(received') PROVE received'[k] = Byte(k)
  <2>1. CASE k <= Len(received)
    <3>1. k \in 1..Len(received) /\ k \in 1..(Len(received) + n)
      BY <1>1, <1>5, <2>1
    <3>2. received[k] = Byte(k)
      BY <3>1 DEF BodyTypes
    <3> QED
      BY <1>5, <2>1, <3>1, <3>2
  <2>2. CASE ~(k <= Len(received))
    <3>1. PICK j : j = k - Len(received)
      OBVIOUS
    <3>2. j \in 1..n /\ Len(received) + j = k /\ k \in 1..(Len(received) + n)
      BY <1>1, <1>5, <2>2, <3>1
    <3>3. received'[k] = p[j] /\ p[j] = stream[j]
      BY <1>4, <1>5, <2>2, <3>1, <3>2
    <3> QED
      BY <3>2, <3>3
  <2> QED
    BY <2>1, <2>2
<1>7. Len(received') <= offset
  <2>1. CASE n = 0
    BY <1>1, <1>5, <2>1
  <2>2. CASE n # 0
    <3>1. PICK m : m = Len(received) + n
      OBVIOUS
    <3>2. n \in 1..n /\ n \in 1..Len(stream) /\ m \in Nat
      BY <1>1, <2>2, <3>1
    <3>3. stream[n] = Byte(m)
      BY <3>1, <3>2
    <3>4. m <= offset
      BY <3>2, <3>3 DEF BodyTypes
    <3> QED
      BY <1>5, <3>1, <3>4
  <2> QED
    BY <2>1, <2>2
<1> QED
  BY <1>2, <1>5, <1>6, <1>7

\* strm.read: what is read follows what was received, and no more of it is read
\* than the content or the chunk has left.
LEMMA ReadDataInv ==
  ASSUME BodyInv, PassesInv, ReadData
  PROVE  BodyInv'
<1>1. PICK left : left = IF framing = "close" THEN RECV_BUFSIZ ELSE chunk_len - r
  OBVIOUS
<1>2. PICK n \in 1..Min({Readable, RECV_BUFSIZ, left}) :
        /\ received' = received \o SubSeq(stream, 1, n)
        /\ stream' = SubSeq(stream, n + 1, Len(stream)) /\ r' = r + n
  BY <1>1 DEF ReadData
<1>3. /\ reader = "data" /\ stream # <<>>
      /\ UNCHANGED <<framing, announced, writer, offset, eof, reader, chunk_len>>
  BY DEF ReadData, Reads
<1>4. /\ BodyTypes /\ stream \in Seq(Items) /\ received \in Seq(Items)
      /\ Len(stream) \in Nat /\ Len(received) \in Nat /\ offset \in Nat
      /\ chunk_len \in Nat /\ r \in Nat
      /\ framing \in {"length", "chunked", "close"}
  BY LenProperties DEF BodyInv, BodyTypes
<1>5. /\ n \in Nat /\ n > 0 /\ n <= Len(stream) /\ n <= left
      /\ n \in 0..Len(stream) /\ left \in Int
  <2>1. /\ left \in Int /\ RECV_BUFSIZ \in Int /\ Len(stream) \in Int
        /\ Readable \in Int /\ Readable <= Len(stream)
    BY <1>1, <1>4, BodyAssumption DEF BodyAssumption, PassesInv, Readable
  <2>2. PICK m : m = Min({Readable, RECV_BUFSIZ, left})
    OBVIOUS
  <2>3. m \in {Readable, RECV_BUFSIZ, left} /\ m <= Len(stream) /\ m <= left
    <3>1. m \in {Readable, RECV_BUFSIZ, left} /\ m <= Readable /\ m <= left
      BY <2>1, <2>2, MinThree
    <3> QED
      BY <2>1, <3>1
  <2>4. n \in 1..m /\ m \in Int
    BY <2>1, <2>2, <2>3
  <2> QED
    BY <1>4, <2>1, <2>3, <2>4
<1>6. \A j \in 1..n : stream[j] = Byte(Len(received) + j)
  <2>1. CASE framing # "chunked"
    <3>1. \A k \in 1..Len(stream) : stream[k] = Byte(Len(received) + k)
      BY <2>1 DEF BodyInv, PlainInv
    <3>2. \A j \in 1..n : j \in 1..Len(stream)
      BY <1>4, <1>5
    <3> QED
      BY <3>1, <3>2
  <2>2. CASE framing = "chunked"
    <3>1. \A j \in 1..(chunk_len - r) : stream[j] = Byte(Len(received) + j)
      BY <1>3, <2>2 DEF BodyInv, ChunkedInv, ReaderAt
    <3>2. \A j \in 1..n : j \in 1..(chunk_len - r)
      BY <1>1, <1>4, <1>5, <2>2
    <3> QED
      BY <3>1, <3>2
  <2> QED
    BY <2>1, <2>2
<1>7. /\ received' \in Seq(Items) /\ Len(received') = Len(received) + n
      /\ Len(received') <= offset
      /\ \A k \in 1..Len(received') : received'[k] = Byte(k)
      /\ stream' \in Seq(Items) /\ Len(stream') = Len(stream) - n
      /\ \A k \in 1..(Len(stream) - n) : stream'[k] = stream[k + n]
  BY <1>2, <1>4, <1>5, <1>6, ReadGets
<1>8. BodyTypes'
  <2>1. ASSUME NEW k \in 1..Len(stream'), NEW i \in Nat, stream'[k] = Byte(i)
        PROVE  i <= offset
    <3>1. k \in 1..(Len(stream) - n) /\ k + n \in 1..Len(stream)
      BY <1>4, <1>5, <1>7
    <3>2. stream[k + n] = Byte(i)
      BY <1>7, <2>1, <3>1
    <3> QED
      BY <1>4, <3>1, <3>2 DEF BodyTypes
  <2>2. r' \in Nat
    BY <1>2, <1>4, <1>5
  <2>3. announced \in Nat /\ eof \in BOOLEAN
    BY <1>4 DEF BodyTypes
  <2> QED
    BY <1>3, <1>4, <1>7, <2>1, <2>2, <2>3 DEF BodyTypes
<1>9. PlainInv'
  <2> SUFFICES ASSUME framing # "chunked" PROVE PlainInv'
    BY <1>3 DEF PlainInv
  <2>1. PlainInv
    BY DEF BodyInv
  <2>2. ASSUME NEW k \in 1..Len(stream') PROVE stream'[k] = Byte(Len(received') + k)
    <3>1. PICK j : j = k + n
      OBVIOUS
    <3>2. /\ k \in 1..(Len(stream) - n) /\ j \in 1..Len(stream)
          /\ Len(received) + j = Len(received') + k
      BY <1>4, <1>5, <1>7, <3>1
    <3>3. stream'[k] = stream[j] /\ stream[j] = Byte(Len(received) + j)
      BY <1>7, <2>1, <3>1, <3>2 DEF PlainInv
    <3> QED
      BY <3>2, <3>3
  <2>3. Len(received') + Len(stream') = Len(received) + Len(stream)
    BY <1>4, <1>5, <1>7
  <2>4. framing = "length" => r' = Len(received')
    BY <1>2, <1>7, <2>1 DEF PlainInv
  <2> QED
    BY <1>3, <2>1, <2>2, <2>3, <2>4 DEF PlainInv
<1>10. ChunkedInv'
  <2> SUFFICES ASSUME framing = "chunked"
               PROVE  \E num : LaidOut(stream', num) /\ ReaderAt(num)' /\ WriterAt(num)'
    BY <1>3 DEF ChunkedInv
  <2>1. PICK num : LaidOut(stream, num) /\ ReaderAt(num) /\ WriterAt(num)
    BY <1>3 DEF BodyInv, ChunkedInv
  <2>2. PICK nm : nm = [k \in 1..(Len(stream) - n + 1) |-> num[k + n]]
    OBVIOUS
  <2>3. LaidOut(stream', nm) /\ WriterAt(nm)'
    <3>1. /\ ~(reader' \in {"terminator", "ok"})
          /\ LaidOut(stream, num) /\ WriterAt(num)
      BY <1>3, <2>1
    <3> QED
      BY <1>2, <1>3, <1>4, <1>5, <2>2, <3>1, DropWriter
  <2>4. PICK rest : rest = left - n
    OBVIOUS
  <2>5. /\ left = chunk_len - r /\ chunk_len' - r' = rest /\ rest + n = left
        /\ rest \in Nat /\ r' <= chunk_len'
    BY <1>1, <1>2, <1>3, <1>4, <1>5, <2>4
  <2>6. /\ left + 1 <= Len(stream) /\ stream[left + 1] = Crlf
        /\ \A j \in 1..left : stream[j] = Byte(Len(received) + j)
        /\ num[left + 1] = Len(received) + left
    BY <1>3, <2>1, <2>5 DEF ReaderAt
  <2>7. rest + 1 <= Len(stream')
    <3>1. Len(stream') = Len(stream) - n
      BY <1>7
    <3>2. Len(stream) \in Nat /\ n \in Nat
      BY <1>4, <1>5
    <3>3. rest \in Nat /\ rest + n = left /\ left + 1 <= Len(stream)
      BY <2>5, <2>6
    <3> QED
      BY <3>1, <3>2, <3>3
  <2>8. ASSUME NEW j \in 1..rest PROVE stream'[j] = Byte(Len(received') + j)
    <3>1. PICK i : i = j + n
      OBVIOUS
    <3>2. /\ j \in 1..(Len(stream) - n) /\ i \in 1..left
          /\ Len(received) + i = Len(received') + j
      BY <1>4, <1>5, <1>7, <2>5, <2>6, <3>1
    <3>3. stream'[j] = stream[i] /\ stream[i] = Byte(Len(received) + i)
      BY <1>7, <2>6, <3>1, <3>2
    <3> QED
      BY <3>2, <3>3
  <2>9. stream'[rest + 1] = Crlf /\ nm[rest + 1] = Len(received') + rest
    <3>1. PICK k : k = rest + 1
      OBVIOUS
    <3>2. /\ k \in 1..(Len(stream) - n) /\ k \in 1..(Len(stream) - n + 1)
          /\ k + n = left + 1
      BY <1>4, <1>5, <2>5, <2>6, <3>1
    <3>3. stream'[k] = stream[left + 1]
      BY <1>7, <3>2
    <3>4. nm[k] = num[left + 1]
      BY <2>2, <3>2
    <3>5. Len(received) + left = Len(received') + rest
      <4>1. Len(received') = Len(received) + n
        BY <1>7
      <4>2. rest + n = left /\ rest \in Nat /\ n \in Nat /\ Len(received) \in Nat
        BY <1>4, <1>5, <2>5
      <4> QED
        BY <4>1, <4>2
    <3> QED
      BY <2>6, <3>1, <3>3, <3>4, <3>5
  <2>10. ReaderAt(nm)'
    BY <1>3, <2>5, <2>7, <2>8, <2>9 DEF ReaderAt
  <2> QED
    BY <2>3, <2>10
<1> QED
  BY <1>8, <1>9, <1>10 DEF BodyInv

\* The content, or the chunk, has been read.
LEMMA DataReadInv ==
  ASSUME BodyInv, DataRead
  PROVE  BodyInv'
<1>1. /\ reader = "data" /\ framing # "close" /\ r = chunk_len
      /\ reader' = IF framing = "length" THEN "ok" ELSE "separator"
      /\ UNCHANGED <<framing, announced, writer, offset, eof, stream, chunk_len, r, received>>
  BY DEF DataRead, Reads
<1>2. BodyTypes'
  BY <1>1 DEF BodyInv, BodyTypes
<1>3. PlainInv'
  BY <1>1 DEF BodyInv, BodyTypes, PlainInv
<1>4. ChunkedInv'
  <2> SUFFICES ASSUME framing = "chunked"
               PROVE  \E num : LaidOut(stream', num) /\ ReaderAt(num)' /\ WriterAt(num)'
    BY <1>1 DEF ChunkedInv
  <2>1. PICK num : LaidOut(stream, num) /\ ReaderAt(num) /\ WriterAt(num)
    BY <1>1 DEF BodyInv, ChunkedInv
  <2>2. reader' = "separator"
    BY <1>1
  <2>3. chunk_len - r = 0 /\ 0 + 1 = 1
    BY <1>1 DEF BodyInv, BodyTypes
  <2>4. stream[1] = Crlf /\ num[1] = Len(received) /\ 1 <= Len(stream)
    <3>1. /\ 0 + 1 <= Len(stream) /\ stream[0 + 1] = Crlf
          /\ num[0 + 1] = Len(received) + 0
      BY <1>1, <2>1, <2>3 DEF ReaderAt
    <3>2. Len(received) \in Nat
      BY LenProperties DEF BodyInv, BodyTypes
    <3> QED
      BY <2>3, <3>1, <3>2
  <2>5. ReaderAt(num)'
    <3>1. stream # <<>>
      BY <2>4, EmptySeq
    <3> QED
      BY <1>1, <2>2, <2>4, <3>1 DEF ReaderAt
  <2>6. WriterAt(num)'
    BY <1>1, <2>1, <2>2 DEF WriterAt
  <2> QED
    BY <1>1, <2>1, <2>5, <2>6
<1> QED
  BY <1>2, <1>3, <1>4 DEF BodyInv

\* The empty line: behind it is a size, or nothing.
LEMMA ReadCrlfInv ==
  ASSUME BodyInv, ReadCrlf
  PROVE  BodyInv'
<1>1. /\ reader \in {"separator", "terminator"} /\ stream # <<>>
      /\ stream' = Tail(stream)
      /\ reader' = IF reader = "separator" THEN "size" ELSE "ok"
      /\ UNCHANGED <<framing, announced, writer, offset, eof, chunk_len, r, received>>
  BY DEF ReadCrlf, Reads
<1>2. /\ framing = "chunked" /\ BodyTypes /\ stream \in Seq(Items)
      /\ chunk_len' \in Nat /\ r' \in Nat
  BY <1>1 DEF BodyInv, PlainInv, BodyTypes
<1>3. /\ stream' = SubSeq(stream, 1 + 1, Len(stream)) /\ 1 \in 0..Len(stream)
      /\ Len(stream) \in Nat /\ Len(stream) >= 1
  BY <1>1, <1>2, TailFacts
<1>4. PICK num : LaidOut(stream, num) /\ ReaderAt(num) /\ WriterAt(num)
  BY <1>1, <1>2 DEF BodyInv, ChunkedInv
<1>5. 1 \in 1..Len(stream) /\ Laid(stream, num, 1) /\ num[1] = Len(received)
  <2>1. 1 \in 1..Len(stream)
    BY <1>3
  <2> QED
    BY <1>1, <1>4, <2>1 DEF LaidOut, ReaderAt
<1>6. stream[1] = Crlf
  BY <1>1, <1>4 DEF ReaderAt
<1>7. num[1 + 1] = num[1] /\ (1 < Len(stream) => \E n \in Nat : stream[1 + 1] = Size(n))
  <2>1. /\ \A i \in Nat : stream[1] # Byte(i)
        /\ \A i \in Nat : stream[1] # Size(i)
    BY <1>6, ItemsDiffer
  <2> QED
    BY <1>5, <2>1 DEF Laid
<1>8. BodyTypes'
  BY <1>1, <1>2, <1>3, DropTypes
<1>9. PlainInv'
  BY <1>1, <1>2 DEF PlainInv
<1>10. PICK nm : nm = [k \in 1..(Len(stream) - 1 + 1) |-> num[k + 1]]
  OBVIOUS
<1>11. LaidOut(stream', nm) /\ WriterAt(nm)'
  <2>1. reader' \in {"terminator", "ok"} => reader \in {"terminator", "ok"}
    BY <1>1
  <2>2. LaidOut(stream, num) /\ WriterAt(num)
    BY <1>4
  <2> QED
    BY <1>1, <1>2, <1>3, <1>10, <2>1, <2>2, DropWriter
<1>12. /\ stream' \in Seq(Items) /\ Len(stream') = Len(stream) - 1
       /\ \A k \in 1..(Len(stream) - 1) : stream'[k] = stream[k + 1]
  BY <1>2, <1>3, DropFacts
<1>13. nm[1] = Len(received)
  <2>1. 1 \in 1..(Len(stream) - 1 + 1)
    BY <1>3
  <2>2. nm[1] = num[1 + 1]
    BY <1>10, <2>1
  <2> QED
    BY <1>5, <1>7, <2>2
<1>14. ReaderAt(nm)'
  <2>1. CASE reader = "separator"
    <3>1. reader' = "size" /\ received' = received
      BY <1>1, <2>1
    <3>2. stream' = <<>> \/ \E n \in Nat : stream'[1] = Size(n)
      <4>1. CASE Len(stream) = 1
        <5>1. Len(stream') = 0
          BY <1>12, <4>1
        <5> QED
          BY <1>12, <5>1, EmptySeq
      <4>2. CASE Len(stream) # 1
        <5>1. 1 < Len(stream) /\ 1 \in 1..(Len(stream) - 1)
          <6>1. PICK l : l = Len(stream)
            OBVIOUS
          <6>2. l \in Nat /\ l >= 1 /\ l # 1
            BY <1>3, <4>2, <6>1
          <6>3. 1 < l /\ 1 \in 1..(l - 1)
            BY <6>2
          <6> QED
            BY <6>1, <6>3
        <5> QED
          BY <1>7, <1>12, <5>1
      <4> QED
        BY <4>1, <4>2
    <3> QED
      BY <1>13, <3>1, <3>2 DEF ReaderAt
  <2>2. CASE reader = "terminator"
    <3>1. reader' = "ok" /\ received' = received
      BY <1>1, <2>2
    <3>2. stream' = <<>>
      <4>1. Len(stream) = 1
        BY <1>4, <2>2 DEF ReaderAt
      <4>2. Len(stream') = 0
        BY <1>12, <4>1
      <4> QED
        BY <1>12, <4>2, EmptySeq
    <3> QED
      BY <1>13, <3>1, <3>2 DEF ReaderAt
  <2> QED
    BY <1>1, <2>1, <2>2
<1>15. ChunkedInv'
  BY <1>11, <1>14 DEF ChunkedInv
<1> QED
  BY <1>8, <1>9, <1>15 DEF BodyInv

\* A reader that gives up has failed, but for a content that the end of the
\* connection ends.
LEMMA ReadEndsInv ==
  ASSUME BodyInv, ReadEnds
  PROVE  BodyInv'
<1>1. /\ reader' = "failed" \/ (framing = "close" /\ reader' = "ok")
      /\ UNCHANGED <<framing, announced, writer, offset, eof, stream, chunk_len, r, received>>
  <2>1. reader' = "failed" \/ reader' = IF framing = "close" THEN "ok" ELSE "failed"
    BY DEF ReadEnds
  <2>2. UNCHANGED <<framing, announced, writer, offset, eof, stream, chunk_len, r, received>>
    BY DEF ReadEnds, Reads
  <2> QED
    BY <2>1, <2>2
<1>2. BodyTypes'
  BY <1>1 DEF BodyInv, BodyTypes
<1>3. PlainInv'
  BY <1>1 DEF BodyInv, PlainInv
<1>4. ChunkedInv'
  BY <1>1 DEF ChunkedInv
<1> QED
  BY <1>2, <1>3, <1>4 DEF BodyInv

\* A reader that takes the CR of a line for the line has a content BrokenOff.
LEMMA ReadCrInv ==
  ASSUME BodyInv, PassesInv, ReadCr
  PROVE  BodyInv'
<1>1. /\ reader = "separator" /\ reader' = "ok" /\ eof /\ passes = 0
      /\ UNCHANGED <<framing, announced, writer, offset, eof, stream, passes,
                     chunk_len, r, received>>
  BY DEF ReadCr, Reads
<1>2. framing = "chunked"
  BY <1>1 DEF BodyInv, PlainInv
<1>3. chunk_len # 0
  BY <1>1, <1>2 DEF PassesInv
<1>4. BodyTypes'
  BY <1>1 DEF BodyInv, BodyTypes
<1>5. PlainInv'
  BY <1>1, <1>2 DEF PlainInv
<1>6. BrokenOff'
  BY <1>1, <1>2, <1>3 DEF BrokenOff
<1>7. ChunkedInv'
  BY <1>1, <1>6 DEF ChunkedInv
<1> QED
  BY <1>4, <1>5, <1>7 DEF BodyInv

\* Reading takes from what gets through, and nothing is written behind it.
LEMMA PassesStep ==
  ASSUME BodyInv, PassesInv, [BodyNext]_bodyVars
  PROVE  passes' \in Nat /\ (eof' => passes' <= Len(stream'))
<1>1. stream \in Seq(Items) /\ Len(stream) \in Nat /\ eof \in BOOLEAN
  BY LenProperties DEF BodyInv, BodyTypes
<1>2. ASSUME NEW n \in Nat, n <= Len(stream), n <= Readable,
             stream' = SubSeq(stream, n + 1, Len(stream)), Had(n), UNCHANGED eof
      PROVE  passes' \in Nat /\ (eof' => passes' <= Len(stream'))
  <2>1. Len(stream') = Len(stream) - n
    BY <1>1, <1>2, DropFacts
  <2> QED
    BY <1>1, <1>2, <2>1 DEF PassesInv, Had, Readable
<1>3. ASSUME stream # <<>>, Readable > 0, stream' = Tail(stream), Had(1), UNCHANGED eof
      PROVE  passes' \in Nat /\ (eof' => passes' <= Len(stream'))
  <2>1. /\ stream' = SubSeq(stream, 1 + 1, Len(stream)) /\ 1 <= Len(stream)
        /\ Readable \in Int
    BY <1>1, <1>3, TailFacts DEF Readable, PassesInv
  <2>2. 1 <= Readable
    BY <1>3, <2>1
  <2> QED
    BY <1>2, <1>3, <2>1, <2>2
<1>4. ASSUME UNCHANGED <<passes, eof>>, eof => UNCHANGED stream
      PROVE  passes' \in Nat /\ (eof' => passes' <= Len(stream'))
  BY <1>1, <1>4 DEF PassesInv
<1>5. CASE Provide
  BY <1>4, <1>5 DEF Provide, Puts, Writes
<1>6. CASE WrittenAll
  BY <1>4, <1>6 DEF WrittenAll, Writes
<1>7. CASE ProviderDone
  BY <1>4, <1>7 DEF ProviderDone, Puts, Writes
<1>8. CASE WriterStops
  BY <1>4, <1>8 DEF WriterStops, Writes
<1>9. CASE Disconnect
  BY <1>1, <1>9 DEF Disconnect, PassesInv
<1>10. CASE ReadSize
  BY <1>3, <1>10 DEF ReadSize, Reads
<1>11. CASE ReadData
  <2>1. PICK left : left = IF framing = "close" THEN RECV_BUFSIZ ELSE chunk_len - r
    OBVIOUS
  <2>2. PICK n \in 1..Min({Readable, RECV_BUFSIZ, left}) :
          stream' = SubSeq(stream, n + 1, Len(stream)) /\ Had(n)
    BY <1>11, <2>1 DEF ReadData
  <2>3. /\ left \in Int /\ RECV_BUFSIZ \in Int
        /\ Readable \in Int /\ Readable <= Len(stream)
    BY <1>1, <2>1, BodyAssumption
       DEF BodyAssumption, BodyInv, BodyTypes, PassesInv, Readable
  <2>4. PICK m : m = Min({Readable, RECV_BUFSIZ, left})
    OBVIOUS
  <2>5. m \in {Readable, RECV_BUFSIZ, left} /\ m <= Readable
    BY <2>3, <2>4, MinThree
  <2>6. n \in Nat /\ n <= Readable /\ n <= Len(stream)
    <3>1. n \in 1..m /\ m \in Int
      BY <2>2, <2>3, <2>4, <2>5
    <3> QED
      BY <1>1, <2>3, <2>5, <3>1
  <2>7. UNCHANGED eof
    BY <1>11 DEF ReadData, Reads
  <2> QED
    BY <1>2, <2>2, <2>6, <2>7
<1>12. CASE DataRead
  BY <1>4, <1>12 DEF DataRead, Reads
<1>13. CASE ReadCrlf
  BY <1>3, <1>13 DEF ReadCrlf, Reads
<1>14. CASE ReadCr
  BY <1>4, <1>14 DEF ReadCr, Reads
<1>15. CASE ReadEnds
  BY <1>4, <1>15 DEF ReadEnds, Reads
<1>16. CASE UNCHANGED bodyVars
  BY <1>4, <1>16 DEF bodyVars
<1> QED
  BY <1>5, <1>6, <1>7, <1>8, <1>9, <1>10, <1>11, <1>12, <1>13, <1>14, <1>15, <1>16
  DEF BodyNext

\* Only of a size that is not 0 does a reader read data.
LEMMA ChunkStep ==
  ASSUME PassesInv, [BodyNext]_bodyVars
  PROVE  (framing = "chunked" /\ reader \in {"data", "separator"} => chunk_len # 0)'
<1>1. ASSUME UNCHANGED framing, UNCHANGED chunk_len,
             reader' \in {reader, "size", "ok", "failed"}
      PROVE  (framing = "chunked" /\ reader \in {"data", "separator"} => chunk_len # 0)'
  BY <1>1 DEF PassesInv
<1>2. CASE ReadSize
  BY <1>2 DEF ReadSize, Reads
<1>3. CASE ReadData
  BY <1>1, <1>3 DEF ReadData, Reads
<1>4. CASE DataRead
  BY <1>4 DEF DataRead, Reads, PassesInv
<1>5. CASE ReadCrlf \/ ReadCr \/ ReadEnds
  BY <1>1, <1>5 DEF ReadCrlf, ReadCr, ReadEnds, Reads
<1>6. CASE Provide \/ WrittenAll \/ ProviderDone \/ WriterStops
  BY <1>1, <1>6 DEF Provide, WrittenAll, ProviderDone, WriterStops, Writes
<1>7. CASE Disconnect \/ UNCHANGED bodyVars
  BY <1>1, <1>7 DEF Disconnect, bodyVars
<1> QED
  BY <1>2, <1>3, <1>4, <1>5, <1>6, <1>7 DEF BodyNext

\* Every step keeps the invariant.
LEMMA BodyStep == BodyInv /\ PassesInv /\ [BodyNext]_bodyVars => BodyInv'
<1> SUFFICES ASSUME BodyInv, PassesInv, [BodyNext]_bodyVars PROVE BodyInv'
  OBVIOUS
<1>1. CASE Provide
  BY <1>1, ProvideInv
<1>2. CASE WrittenAll
  BY <1>2, WriterEnds DEF WrittenAll, Writes, BrokenOff
<1>3. CASE ProviderDone
  BY <1>3, ProviderDoneInv
<1>4. CASE WriterStops
  BY <1>4, WriterEnds DEF WriterStops, Writes, BrokenOff
<1>5. CASE Disconnect
  BY <1>5, WriterEnds DEF Disconnect, BrokenOff
<1>6. CASE ReadSize
  BY <1>6, ReadSizeInv
<1>7. CASE ReadData
  BY <1>7, ReadDataInv
<1>8. CASE DataRead
  BY <1>8, DataReadInv
<1>9. CASE ReadCrlf
  BY <1>9, ReadCrlfInv
<1>10. CASE ReadEnds
  BY <1>10, ReadEndsInv
<1>11. CASE UNCHANGED bodyVars
  <2>1. /\ BodyTypes' /\ PlainInv'
    BY <1>11 DEF BodyInv, BodyTypes, PlainInv, bodyVars
  <2>2. ChunkedInv'
    BY <1>11 DEF BodyInv, ChunkedInv, ReaderAt, WriterAt, BrokenOff, bodyVars
  <2> QED
    BY <2>1, <2>2 DEF BodyInv
<1>12. CASE ReadCr
  BY <1>12, ReadCrInv
<1> QED
  BY <1>1, <1>2, <1>3, <1>4, <1>5, <1>6, <1>7, <1>8, <1>9, <1>10, <1>11, <1>12
  DEF BodyNext

\* Whatever is written, and wherever the stream is cut, what is in it can be told
\* apart and follows what was received, until a reader has failed or takes a
\* content that was BrokenOff for a whole one (write_content,
\* write_content_chunked, read_content_with_length, read_content_chunked of
\* httplib.h).
THEOREM BodyInvariance == BodySpec => [](BodyInv /\ PassesInv)
<1>1. BodyInit => BodyInv /\ PassesInv
  BY BodyInitInv DEF BodyInit, PassesInv
<1>2. BodyInv /\ PassesInv /\ [BodyNext]_bodyVars => (BodyInv /\ PassesInv)'
  BY BodyStep, PassesStep, ChunkStep DEF PassesInv
<1> QED
  BY <1>1, <1>2, PTL DEF BodySpec

\* What is received is a beginning of what was provided; and a reader of a content
\* with a length, or in chunks, that reports success has all of it and leaves
\* nothing in the stream for the next message, for contents and buffers of any
\* size, unless the connection has ended in the line behind a chunk, whose CR the
\* reader takes for the end (read_content and write_content of httplib.h).
THEOREM ContentArrivesWhole == BodySpec => []ContentArrives
<1>1. BodyInv => ContentArrives
  BY BodyInvSays
<1> QED
  BY <1>1, BodyInvariance, PTL
-----------------------------------------------------------------------------
\* A number of this many values is itself, and one less than 0 the greatest.
LEMMA Modulo ==
  ASSUME NEW m \in Nat, m > 0
  PROVE  /\ \A i \in 0..(m - 1) : i % m = i
         /\ (-1) % m = m - 1 /\ m % m = 0
<1>1. ASSUME NEW i \in 0..(m - 1) PROVE i % m = i
  BY <1>1
<1>2. (-1) % m = m - 1
  OBVIOUS
<1>3. m % m = 0
  OBVIOUS
<1> QED
  BY <1>1, <1>2, <1>3

\* The greater of two.
LEMMA MaxTwo ==
  ASSUME NEW a \in Int, NEW b \in Int
  PROVE  Max({a, b}) = IF a >= b THEN a ELSE b
BY DEF Max

\* The lengths that an ssize_t has.
Small == 0..(Half - 1)

\* The sizes that are counted with are not too small.
LEMMA Sizes ==
  /\ SizeModulus \in Nat /\ SizeModulus >= 2
  /\ Half \in Nat /\ SizeModulus = 2 * Half /\ ssize_t = (-Half)..(Half - 1)
  /\ \A i \in Small : i \in Nat /\ 2 * i + 2 <= SizeModulus
  /\ MaxContent \in Small
<1>1. /\ SizeModulus \in Nat \ {0} /\ SizeModulus % 2 = 0
      /\ MaxContent \in Nat /\ MaxContent \in ssize_t
  BY RangeAssumption, ExchangeAssumption DEF RangeAssumption, ExchangeAssumption
<1>2. Half \in Nat /\ SizeModulus = 2 * Half
  BY <1>1 DEF Half
<1>3. SizeModulus - 1 - Half = Half - 1
  BY <1>2
<1>4. ssize_t = (-Half)..(Half - 1)
  BY <1>3 DEF ssize_t
<1> HIDE DEF Half
<1>5. MaxContent \in Small
  BY <1>1, <1>2, <1>4 DEF Small
<1>6. ASSUME NEW i \in Small PROVE i \in Nat /\ 2 * i + 2 <= SizeModulus
  BY <1>2, <1>6 DEF Small
<1> QED
  BY <1>1, <1>2, <1>4, <1>5, <1>6

\* What an ssize_t can say is not changed by the conversion to it, nor a length by
\* that to a size_t.
LEMMA Converts ==
  /\ \A i \in ssize_t : to_ssize_t(i) = i
  /\ \A i \in Small : i \in ssize_t /\ size_t(i) = i
<1>1. /\ SizeModulus \in Nat /\ SizeModulus > 0 /\ Half \in Nat /\ SizeModulus = 2 * Half
      /\ ssize_t = (-Half)..(Half - 1)
  BY Sizes
<1>2. ASSUME NEW i \in ssize_t PROVE to_ssize_t(i) = i
  <2>1. PICK j : j = i + Half
    OBVIOUS
  <2>2. i \in Int /\ j \in 0..(SizeModulus - 1)
    BY <1>1, <2>1
  <2>3. j % SizeModulus = j
    BY <1>1, <2>2, Modulo
  <2> QED
    BY <1>1, <2>1, <2>2, <2>3 DEF to_ssize_t
<1>3. ASSUME NEW i \in Small PROVE i \in ssize_t /\ size_t(i) = i
  <2>1. i \in ssize_t /\ i \in 0..(SizeModulus - 1)
    BY <1>1 DEF Small
  <2> QED
    BY <1>1, <2>1, Modulo DEF size_t
<1> QED
  BY <1>2, <1>3

\* The length of a range, computed in size_t from the last byte.
LEMMA RangeCount ==
  ASSUME NEW d \in Int, d >= -1, d + 2 <= SizeModulus
  PROVE  size_t(size_t(d) + 1) = d + 1
<1>1. SizeModulus \in Nat /\ SizeModulus >= 2
  BY Sizes
<1>2. CASE d = -1
  <2>1. size_t(d) = SizeModulus - 1
    BY <1>1, <1>2, Modulo DEF size_t
  <2>2. size_t(d) + 1 = SizeModulus
    BY <1>1, <2>1
  <2>3. SizeModulus % SizeModulus = 0
    BY <1>1, Modulo
  <2> QED
    BY <1>2, <2>2, <2>3 DEF size_t
<1>3. CASE d # -1
  <2>1. d \in 0..(SizeModulus - 1) /\ d + 1 \in 0..(SizeModulus - 1)
    BY <1>1, <1>3
  <2>2. size_t(d) = d
    BY <1>1, <2>1, Modulo DEF size_t
  <2>3. size_t(d + 1) = d + 1
    BY <1>1, <2>1, Modulo DEF size_t
  <2> QED
    BY <2>2, <2>3
<1> QED
  BY <1>2, <1>3

\* A range as it is parsed.
RangeType == [first : Small \cup {-1}, last : Small \cup {-1}]

\* One of a header.
GivenType == [first : Nat \cup {-1}, last : Nat \cup {-1}]

\* It does not end before it begins.
InOrder(g) == ~(g.first # -1 /\ g.last # -1 /\ g.first > g.last)

\* A range whose numbers fit is parsed as it is given.
LEMMA RangeParsed ==
  ASSUME NEW g \in GivenType, Fits(g)
  PROVE  parsed(g) = g /\ g \in RangeType /\ (is_range(g) => InOrder(g))
<1>1. PICK f, l : f = g.first /\ l = g.last
  OBVIOUS
<1>2. g = [first |-> f, last |-> l]
  BY <1>1 DEF GivenType
<1>3. ASSUME NEW i \in Nat \cup {-1}, i \in ssize_t
      PROVE  converted(i) = i /\ i \in Small \cup {-1}
  <2>1. converted(i) = i
    BY <1>3, Converts DEF converted
  <2>2. i \in Small \cup {-1}
    BY <1>3, Sizes DEF Small
  <2> QED
    BY <2>1, <2>2
<1>4. /\ converted(f) = f /\ f \in Small \cup {-1}
      /\ converted(l) = l /\ l \in Small \cup {-1}
  BY <1>1, <1>3 DEF Fits, GivenType
<1>5. parsed(g) = g
  BY <1>1, <1>2, <1>4 DEF parsed
<1>6. g \in RangeType
  BY <1>2, <1>4 DEF RangeType
<1>7. is_range(g) => InOrder(g)
  BY <1>5 DEF is_range, InOrder
<1> QED
  BY <1>5, <1>6, <1>7

\* So are the ranges of a header.
LEMMA RangesParsed ==
  ASSUME NEW ranges \in Seq(GivenType), \A i \in DOMAIN ranges : Fits(ranges[i]),
         parse_range_header(ranges)
  PROVE  /\ parsed_ranges(ranges) = ranges /\ ranges \in Seq(RangeType)
         /\ \A i \in DOMAIN ranges : InOrder(ranges[i])
<1>1. PICK n : n = Len(ranges)
  OBVIOUS
<1>2. n \in Nat /\ DOMAIN ranges = 1..n /\ ranges = [i \in 1..n |-> ranges[i]]
  BY <1>1, LenProperties
<1>3. ASSUME NEW i \in 1..n
      PROVE  parsed(ranges[i]) = ranges[i] /\ ranges[i] \in RangeType /\ InOrder(ranges[i])
  <2>1. ranges[i] \in GivenType
    BY <1>1, <1>2, ElementOfSeq
  <2>2. Fits(ranges[i]) /\ is_range(ranges[i])
    BY <1>2 DEF parse_range_header
  <2> QED
    BY <2>1, <2>2, RangeParsed
<1>4. parsed_ranges(ranges) = [i \in 1..n |-> ranges[i]]
  BY <1>2, <1>3, Zenon DEF parsed_ranges
<1>5. ranges \in [1..n -> RangeType]
  BY <1>2, <1>3, Zenon
<1>6. ranges \in Seq(RangeType)
  BY <1>2, <1>5, SeqDef
<1> QED
  BY <1>2, <1>3, <1>4, <1>6, Zenon

\* Where a range begins that is not all of n bytes.
LEMMA RangeBegins ==
  ASSUME NEW g \in RangeType, NEW n \in Small, ~(g.first = -1 /\ g.last = -1)
  PROVE  LET b == range_begin(g, n)
         IN /\ b \in Small /\ size_t(b) = b
            /\ b = IF g.first = -1 THEN (IF 0 >= n - g.last THEN 0 ELSE n - g.last)
                   ELSE g.first
<1>1. PICK f, l, b : f = g.first /\ l = g.last /\ b = range_begin(g, n)
  OBVIOUS
<1>2. f \in Small \cup {-1} /\ l \in Small \cup {-1}
  BY <1>1 DEF RangeType
<1>3. Half \in Nat /\ ssize_t = (-Half)..(Half - 1)
  BY Sizes
<1>4. b \in Small /\ b = IF f = -1 THEN (IF 0 >= n - l THEN 0 ELSE n - l) ELSE f
  <2>1. CASE f = -1
    <3>1. PICK d : d = n - l
      OBVIOUS
    <3>2. l \in Small
      BY <1>1, <1>2, <2>1
    <3>3. d \in Int /\ d \in ssize_t /\ d <= n
      BY <1>3, <3>1, <3>2 DEF Small
    <3>4. b = Max({0, d})
      BY <1>1, <2>1, <3>1, <3>3, Converts DEF range_begin
    <3>5. b = IF 0 >= d THEN 0 ELSE d
      BY <3>3, <3>4, MaxTwo
    <3>6. b \in Small
      BY <1>3, <3>3, <3>5 DEF Small
    <3> QED
      BY <2>1, <3>1, <3>5, <3>6
  <2>2. CASE f # -1
    BY <1>1, <1>2, <2>2 DEF range_begin
  <2> QED
    BY <2>1, <2>2
<1> QED
  BY <1>1, <1>4, Converts

\* A range of n bytes that does not begin behind them unless it has an end.
LEMMA RangeFits ==
  ASSUME NEW g \in RangeType, InOrder(g), NEW n \in Small,
         ~(g.last = -1 /\ g.first > n)
  PROVE  LET o == get_range_offset_and_length(g, n)
         IN o.offset \in Nat /\ o.length \in Nat /\ o.offset + o.length < SizeModulus
<1>1. PICK f, l : f = g.first /\ l = g.last
  OBVIOUS
<1>2. PICK o : o = get_range_offset_and_length(g, n)
  OBVIOUS
<1>3. /\ SizeModulus \in Nat /\ SizeModulus >= 2 /\ n \in Nat /\ 2 * n + 2 <= SizeModulus
      /\ f \in Small \cup {-1} /\ l \in Small \cup {-1}
      /\ f # -1 => f \in Nat /\ 2 * f + 2 <= SizeModulus
      /\ l # -1 => l \in Nat /\ 2 * l + 2 <= SizeModulus
  BY <1>1, Sizes DEF RangeType
<1>4. ~(f # -1 /\ l # -1 /\ f > l) /\ ~(l = -1 /\ f > n)
  BY <1>1 DEF InOrder
<1>5. CASE f = -1 /\ l = -1
  <2>1. o = [offset |-> 0, length |-> n]
    BY <1>1, <1>2, <1>5 DEF get_range_offset_and_length
  <2> QED
    BY <1>2, <1>3, <2>1
<1>6. CASE ~(f = -1 /\ l = -1)
  <2>1. PICK b, e : /\ b = range_begin(g, n) /\ size_t(b) = b
                    /\ b = IF f = -1 THEN (IF 0 >= n - l THEN 0 ELSE n - l) ELSE f
                    /\ e = IF f = -1 \/ l = -1 THEN n - 1 ELSE l
    BY <1>1, <1>6, RangeBegins
  <2>2. o = [offset |-> b, length |-> size_t(size_t(e - b) + 1)]
    BY <1>1, <1>2, <1>6, <2>1 DEF get_range_offset_and_length, range_end
  <2>3. b \in Nat /\ e \in Int /\ e - b >= -1 /\ e + 2 <= SizeModulus
    <3>1. CASE f = -1
      <4>1. b = (IF 0 >= n - l THEN 0 ELSE n - l) /\ l \in Nat
        BY <1>3, <1>6, <2>1, <3>1
      <4>2. e = n - 1
        BY <2>1, <3>1
      <4> QED
        BY <1>3, <4>1, <4>2
    <3>2. CASE f # -1 /\ l = -1
      <4>1. b = f /\ e = n - 1 /\ f <= n
        BY <1>3, <1>4, <2>1, <3>2
      <4> QED
        BY <1>3, <3>2, <4>1
    <3>3. CASE f # -1 /\ l # -1
      <4>1. b = f /\ e = l /\ f <= l
        BY <1>3, <1>4, <2>1, <3>3
      <4> QED
        BY <1>3, <3>3, <4>1
    <3> QED
      BY <3>1, <3>2, <3>3
  <2>4. PICK d : d = e - b
    OBVIOUS
  <2>5. d \in Int /\ d >= -1 /\ d + 2 <= SizeModulus
    BY <1>3, <2>3, <2>4
  <2>6. size_t(size_t(d) + 1) = d + 1
    BY <2>5, RangeCount
  <2>7. o.offset = b /\ o.length = d + 1
    BY <2>2, <2>4, <2>6
  <2>8. d + 1 \in Nat /\ b + (d + 1) < SizeModulus
    BY <1>3, <2>3, <2>4, <2>5
  <2> QED
    BY <1>2, <2>3, <2>7, <2>8
<1> QED
  BY <1>5, <1>6

\* A provider is asked for as many bytes as the range has.
LEMMA ProviderGives ==
  ASSUME NEW begin \in Nat, NEW length \in Nat, begin + length < SizeModulus
  PROVE  /\ write_content(begin, length) \in Seq(Nat)
         /\ Len(write_content(begin, length)) = length
<1>1. SizeModulus \in Nat /\ SizeModulus > 0
  BY Sizes
<1>2. PICK s : s = begin + length
  OBVIOUS
<1>3. s \in 0..(SizeModulus - 1)
  BY <1>1, <1>2
<1>4. size_t(s) = s
  BY <1>1, <1>3, Modulo DEF size_t
<1>5. s - begin = length
  BY <1>2
<1>6. write_content(begin, length) = [i \in 1..length |-> begin + i]
  BY <1>2, <1>4, <1>5 DEF write_content
<1>7. PICK w : w = [i \in 1..length |-> begin + i]
  OBVIOUS
<1>8. w \in [1..length -> Nat]
  BY <1>7
<1>9. w \in Seq(Nat) /\ DOMAIN w = 1..length
  BY <1>8, SeqDef
<1>10. Len(w) = length
  BY <1>9, LenProperties
<1> QED
  BY <1>6, <1>7, <1>9, <1>10
-----------------------------------------------------------------------------
Counted(h, ranges) ==
    h = [s \in SUBSET DOMAIN ranges |->
            IF s = {} THEN EndText
            ELSE h[s \ {Max(s)}] + PartText
                     + get_range_offset_and_length(ranges[Max(s)], 0).length]

\* The first numbers, with and without the last.
LEMMA UpTo ==
  ASSUME NEW n \in Nat, NEW i \in 1..n
  PROVE  /\ 1..i \in SUBSET (1..n) /\ 1..i \in SUBSET (0..n) /\ 1..i # {}
         /\ i \in 1..i /\ (1..i) \ {i} = 1..(i - 1)
         /\ i \in 0..n /\ i - 1 \in 0..n
<1>1. (1..i) \ {i} = 1..(i - 1)
  OBVIOUS
<1> QED
  BY <1>1

\* It is counted part by part.
LEMMA PartsCounted ==
  ASSUME NEW ranges, NEW n \in Nat, DOMAIN ranges = 1..n,
         \A i \in 1..n : get_range_offset_and_length(ranges[i], 0).length \in Nat
  PROVE  \E acc : /\ acc[0] = EndText /\ PartsTotal(ranges) = acc[n]
                  /\ \A i \in 1..n :
                        acc[i] = acc[i - 1] + PartText
                                     + get_range_offset_and_length(ranges[i], 0).length
<1> DEFINE L(i) == get_range_offset_and_length(ranges[i], 0).length
           step == [i \in 1..n |-> [a \in Nat |-> a + PartText + L(i)]]
<1>1. PartText \in Nat /\ EndText \in Nat
  BY RangeAssumption DEF RangeAssumption
<1>2. ASSUME NEW i \in 1..n
      PROVE  /\ step[i] \in [Nat -> Nat]
             /\ \A a \in Nat : step[i][a] = a + PartText + L(i)
  <2>1. L(i) \in Nat
    OBVIOUS
  <2> HIDE DEF L
  <2> QED
    BY <1>1, <2>1
<1> HIDE DEF step
<1>3. HasFold(Nat, step, EndText, n)
  BY <1>1, <1>2, FoldExists
<1>4. PICK h : IsFold(h, step, EndText, n) /\ h \in [SUBSET (1..n) -> Nat]
  BY <1>3 DEF HasFold
<1>5. ASSUME NEW s \in SUBSET (1..n), s # {}
      PROVE  Max(s) \in 1..n /\ s \ {Max(s)} \in SUBSET (1..n)
  <2>1. s \in SUBSET (0..n)
    OBVIOUS
  <2>2. Max(s) \in s
    BY <1>5, <2>1, MaxNat
  <2> QED
    BY <2>2
<1>6. Counted(h, ranges)
  <2>1. ASSUME NEW s \in SUBSET (1..n)
        PROVE  h[s] = IF s = {} THEN EndText
                      ELSE h[s \ {Max(s)}] + PartText + L(Max(s))
    <3>1. h[s] = IF s = {} THEN EndText ELSE step[Max(s)][h[s \ {Max(s)}]]
      BY <1>4 DEF IsFold
    <3>2. s # {} => step[Max(s)][h[s \ {Max(s)}]] = h[s \ {Max(s)}] + PartText + L(Max(s))
      <4> SUFFICES ASSUME s # {}
                   PROVE step[Max(s)][h[s \ {Max(s)}]]
                         = h[s \ {Max(s)}] + PartText + L(Max(s))
        OBVIOUS
      <4>1. PICK m, a : m = Max(s) /\ a = h[s \ {Max(s)}]
        OBVIOUS
      <4>2. m \in 1..n /\ a \in Nat
        BY <1>4, <1>5, <4>1
      <4>3. step[m][a] = a + PartText + L(m)
        BY <1>2, <4>2
      <4> QED
        BY <4>1, <4>3
    <3> QED
      BY <3>1, <3>2
  <2>2. h = [s \in SUBSET (1..n) |-> h[s]]
    BY <1>4
  <2>3. h = [s \in SUBSET (1..n) |-> IF s = {} THEN EndText
                      ELSE h[s \ {Max(s)}] + PartText + L(Max(s))]
    <3> HIDE DEF L
    <3> QED
      BY <2>1, <2>2, Zenon
  <2> QED
    BY <2>3, Zenon DEF Counted
<1>7. PICK c : c = CHOOSE f : Counted(f, ranges)
  OBVIOUS
<1>8. Counted(c, ranges)
  BY <1>6, <1>7
<1>9. PartsTotal(ranges) = c[1..n]
  BY <1>7 DEF PartsTotal, FoldLeft, MapThenFoldSet, Counted
<1>10. ASSUME NEW s \in SUBSET (1..n)
       PROVE  c[s] = IF s = {} THEN EndText ELSE c[s \ {Max(s)}] + PartText + L(Max(s))
  BY <1>8, Zenon DEF Counted
<1>11. PICK acc : acc = [k \in 0..n |-> c[1..k]]
  OBVIOUS
<1>12. acc[0] = EndText
  <2>1. 1..0 = {} /\ 0 \in 0..n
    OBVIOUS
  <2>2. acc[0] = c[{}]
    BY <1>11, <2>1
  <2> QED
    BY <1>10, <2>2
<1>13. ASSUME NEW i \in 1..n PROVE acc[i] = acc[i - 1] + PartText + L(i)
  <2>1. PICK s, j : s = 1..i /\ j = i - 1
    OBVIOUS
  <2>2. /\ s \in SUBSET (1..n) /\ s # {} /\ i \in s /\ s \ {i} = 1..j /\ i \in 0..n
        /\ j \in 0..n /\ s \in SUBSET (0..n)
    BY <2>1, UpTo
  <2>3. Max(s) \in s /\ i <= Max(s)
    BY <2>2, MaxNat
  <2>4. Max(s) = i
    BY <2>1, <2>3
  <2>5. c[s] = c[s \ {i}] + PartText + L(i)
    BY <1>10, <2>2, <2>4
  <2>6. acc[i] = c[s] /\ acc[j] = c[1..j]
    BY <1>11, <2>1, <2>2
  <2>7. acc[i] = acc[j] + PartText + L(i)
    BY <2>2, <2>5, <2>6
  <2> QED
    BY <2>1, <2>7
<1>14. PartsTotal(ranges) = acc[n]
  BY <1>9, <1>11
<1> QED
  BY <1>12, <1>13, <1>14
\* The text around a part has as many bytes as it is counted with.
LEMMA TextIs ==
  ASSUME NEW n \in Nat
  PROVE  Text(n) \in Seq(Nat) /\ Len(Text(n)) = n
<1>1. PICK t : t = Text(n)
  OBVIOUS
<1>2. t \in [1..n -> Nat]
  BY <1>1 DEF Text
<1>3. t \in Seq(Nat) /\ DOMAIN t = 1..n
  BY <1>2, SeqDef
<1>4. Len(t) = n
  BY <1>3, LenProperties
<1> QED
  BY <1>1, <1>3, <1>4

\* The parts, one behind the other, each behind its text.
Joined(h, parts) ==
    h = [s \in SUBSET DOMAIN parts |->
            IF s = {} THEN <<>>
            ELSE h[s \ {Max(s)}] \o Text(PartText) \o parts[Max(s)]]

\* They are written part by part.
LEMMA PartsWritten ==
  ASSUME NEW parts, NEW n \in Nat, DOMAIN parts = 1..n,
         \A i \in 1..n : parts[i] \in Seq(Nat)
  PROVE  \E acc : /\ acc[0] = <<>>
                  /\ process_multipart_ranges_data(parts) = acc[n] \o Text(EndText)
                  /\ \A i \in 0..n : acc[i] \in Seq(Nat)
                  /\ \A i \in 1..n :
                        /\ acc[i] = acc[i - 1] \o Text(PartText) \o parts[i]
                        /\ Len(acc[i]) = Len(acc[i - 1]) + PartText + Len(parts[i])
<1> DEFINE step == [i \in 1..n |-> [a \in Seq(Nat) |-> a \o Text(PartText) \o parts[i]]]
<1>1. PartText \in Nat /\ Text(PartText) \in Seq(Nat) /\ Len(Text(PartText)) = PartText
  BY RangeAssumption, TextIs DEF RangeAssumption
<1>2. ASSUME NEW a \in Seq(Nat), NEW i \in 1..n
      PROVE  /\ a \o Text(PartText) \o parts[i] \in Seq(Nat)
             /\ Len(a \o Text(PartText) \o parts[i]) = Len(a) + PartText + Len(parts[i])
  <2>1. PICK b : b = a \o Text(PartText)
    OBVIOUS
  <2>2. b \in Seq(Nat) /\ Len(b) = Len(a) + PartText
    BY <1>1, <2>1, ConcatProperties
  <2>3. parts[i] \in Seq(Nat)
    OBVIOUS
  <2>4. b \o parts[i] \in Seq(Nat) /\ Len(b \o parts[i]) = Len(b) + Len(parts[i])
    BY <2>2, <2>3, ConcatProperties
  <2> QED
    BY <2>1, <2>2, <2>4
<1>3. ASSUME NEW i \in 1..n
      PROVE  /\ step[i] \in [Seq(Nat) -> Seq(Nat)]
             /\ \A a \in Seq(Nat) : step[i][a] = a \o Text(PartText) \o parts[i]
  BY <1>2
<1> HIDE DEF step
<1>4. <<>> \in Seq(Nat)
  BY EmptySeq
<1>5. HasFold(Seq(Nat), step, <<>>, n)
  BY <1>3, <1>4, FoldExists
<1>6. PICK h : IsFold(h, step, <<>>, n) /\ h \in [SUBSET (1..n) -> Seq(Nat)]
  BY <1>5 DEF HasFold
<1>7. ASSUME NEW s \in SUBSET (1..n), s # {}
      PROVE  Max(s) \in 1..n /\ s \ {Max(s)} \in SUBSET (1..n)
  <2>1. s \in SUBSET (0..n)
    OBVIOUS
  <2>2. Max(s) \in s
    BY <1>7, <2>1, MaxNat
  <2> QED
    BY <2>2
<1>8. Joined(h, parts)
  <2>1. ASSUME NEW s \in SUBSET (1..n)
        PROVE  h[s] = IF s = {} THEN <<>>
                      ELSE h[s \ {Max(s)}] \o Text(PartText) \o parts[Max(s)]
    <3>1. h[s] = IF s = {} THEN <<>> ELSE step[Max(s)][h[s \ {Max(s)}]]
      BY <1>6 DEF IsFold
    <3>2. s # {} => step[Max(s)][h[s \ {Max(s)}]]
                    = h[s \ {Max(s)}] \o Text(PartText) \o parts[Max(s)]
      <4> SUFFICES ASSUME s # {}
                   PROVE step[Max(s)][h[s \ {Max(s)}]]
                         = h[s \ {Max(s)}] \o Text(PartText) \o parts[Max(s)]
        OBVIOUS
      <4>1. PICK m, a : m = Max(s) /\ a = h[s \ {Max(s)}]
        OBVIOUS
      <4>2. m \in 1..n /\ a \in Seq(Nat)
        BY <1>6, <1>7, <4>1
      <4>3. step[m][a] = a \o Text(PartText) \o parts[m]
        BY <1>3, <4>2
      <4> QED
        BY <4>1, <4>3, Zenon
    <3> QED
      BY <3>1, <3>2, Zenon
  <2>2. h = [s \in SUBSET (1..n) |-> h[s]]
    BY <1>6
  <2>3. h = [s \in SUBSET (1..n) |-> IF s = {} THEN <<>>
                      ELSE h[s \ {Max(s)}] \o Text(PartText) \o parts[Max(s)]]
    BY <2>1, <2>2, Zenon
  <2> QED
    BY <2>3, Zenon DEF Joined
<1>9. PICK c : c = CHOOSE f : Joined(f, parts)
  OBVIOUS
<1>10. Joined(c, parts)
  BY <1>8, <1>9
<1>11. process_multipart_ranges_data(parts) = c[1..n] \o Text(EndText)
  BY <1>9 DEF process_multipart_ranges_data, FoldLeft, MapThenFoldSet, Joined
<1>12. ASSUME NEW s \in SUBSET (1..n)
       PROVE  c[s] = IF s = {} THEN <<>>
                     ELSE c[s \ {Max(s)}] \o Text(PartText) \o parts[Max(s)]
  BY <1>10, Zenon DEF Joined
<1>13. PICK acc : acc = [k \in 0..n |-> c[1..k]]
  OBVIOUS
<1>14. acc[0] = <<>>
  <2>1. 1..0 = {} /\ 0 \in 0..n
    OBVIOUS
  <2>2. acc[0] = c[{}]
    BY <1>13, <2>1
  <2>3. c[{}] = <<>>
    <3>1. {} \in SUBSET (1..n)
      OBVIOUS
    <3> QED
      BY <1>12, <3>1, Zenon
  <2> QED
    BY <2>2, <2>3
<1>15. ASSUME NEW i \in 1..n PROVE acc[i] = acc[i - 1] \o Text(PartText) \o parts[i]
  <2>1. PICK s, j : s = 1..i /\ j = i - 1
    OBVIOUS
  <2>2. /\ s \in SUBSET (1..n) /\ s # {} /\ i \in s /\ s \ {i} = 1..j /\ i \in 0..n
        /\ j \in 0..n /\ s \in SUBSET (0..n)
    BY <2>1, UpTo
  <2>3. Max(s) \in s /\ i <= Max(s)
    BY <2>2, MaxNat
  <2>4. Max(s) = i
    BY <2>1, <2>3
  <2>5. c[s] = c[s \ {i}] \o Text(PartText) \o parts[i]
    BY <1>12, <2>2, <2>4, Zenon
  <2>6. acc[i] = c[s] /\ acc[j] = c[1..j]
    BY <1>13, <2>1, <2>2
  <2>7. acc[i] = acc[j] \o Text(PartText) \o parts[i]
    BY <2>2, <2>5, <2>6, Zenon
  <2> QED
    BY <2>1, <2>7
<1> DEFINE S == {k \in Nat : k <= n => acc[k] \in Seq(Nat)}
<1>16. 0 \in S
  BY <1>4, <1>14
<1>17. ASSUME NEW k \in Nat, k \in S PROVE k + 1 \in S
  <2> SUFFICES ASSUME k + 1 <= n PROVE acc[k + 1] \in Seq(Nat)
    OBVIOUS
  <2>1. PICK i : i = k + 1
    OBVIOUS
  <2>2. i \in 1..n /\ i - 1 = k /\ acc[k] \in Seq(Nat)
    BY <1>17, <2>1
  <2>3. acc[i] = acc[k] \o Text(PartText) \o parts[i]
    BY <1>15, <2>2
  <2> QED
    BY <1>2, <2>1, <2>2, <2>3
<1> HIDE DEF S
<1>18. Nat \subseteq S
  BY <1>16, <1>17, NatSetInduction
<1>19. \A i \in 0..n : acc[i] \in Seq(Nat)
  BY <1>18 DEF S
<1>20. ASSUME NEW i \in 1..n
       PROVE  Len(acc[i]) = Len(acc[i - 1]) + PartText + Len(parts[i])
  <2>1. i - 1 \in 0..n
    OBVIOUS
  <2> QED
    BY <1>2, <1>15, <1>19, <2>1
<1>21. acc[n] = c[1..n]
  BY <1>13
<1> QED
  BY <1>11, <1>14, <1>15, <1>19, <1>20, <1>21

\* As many bytes are written as were announced, when they can be counted.
LEMMA PartsAnnounced ==
  ASSUME NEW ranges \in Seq(RangeType), \A i \in DOMAIN ranges : InOrder(ranges[i]),
         NotPast(ranges, 0), ~(PartsTotal(ranges) >= SizeModulus)
  PROVE  /\ write_multipart_ranges_data(ranges) \in Seq(Nat)
         /\ Len(write_multipart_ranges_data(ranges))
                = get_multipart_ranges_data_length(ranges)
<1>1. PICK n : n = Len(ranges)
  OBVIOUS
<1>2. n \in Nat /\ DOMAIN ranges = 1..n /\ \A i \in 1..n : ranges[i] \in RangeType
  BY <1>1, LenProperties, ElementOfSeq
<1>3. 0 \in Small
  BY Sizes DEF Small
<1> DEFINE o(i) == get_range_offset_and_length(ranges[i], 0)
           parts == [i \in DOMAIN ranges |-> write_content(o(i).offset, o(i).length)]
<1>4. ASSUME NEW i \in 1..n
      PROVE  /\ o(i).length \in Nat
             /\ parts[i] \in Seq(Nat) /\ Len(parts[i]) = o(i).length
  <2>1. PICK g, b : g = ranges[i] /\ b = o(i)
    OBVIOUS
  <2>2. g \in RangeType /\ InOrder(g) /\ ~(g.last = -1 /\ g.first > 0)
    BY <1>2, <2>1 DEF NotPast
  <2>3. b.offset \in Nat /\ b.length \in Nat /\ b.offset + b.length < SizeModulus
    BY <1>3, <2>1, <2>2, RangeFits
  <2>4. parts[i] = write_content(b.offset, b.length)
    BY <1>2, <2>1
  <2> HIDE DEF parts, o
  <2> QED
    BY <2>1, <2>3, <2>4, ProviderGives
<1>5. DOMAIN parts = 1..n
  BY <1>2
<1>6. write_multipart_ranges_data(ranges) = process_multipart_ranges_data(parts)
  BY DEF write_multipart_ranges_data
<1>7. get_multipart_ranges_data_length(ranges) = size_t(PartsTotal(ranges))
  BY DEF get_multipart_ranges_data_length, PartsTotal
<1> HIDE DEF parts
<1>8. PICK sum : /\ sum[0] = EndText /\ PartsTotal(ranges) = sum[n]
                 /\ \A i \in 1..n : sum[i] = sum[i - 1] + PartText + o(i).length
  BY <1>2, <1>4, PartsCounted
<1>9. PICK acc : /\ acc[0] = <<>>
                 /\ process_multipart_ranges_data(parts) = acc[n] \o Text(EndText)
                 /\ \A i \in 0..n : acc[i] \in Seq(Nat)
                 /\ \A i \in 1..n :
                       /\ acc[i] = acc[i - 1] \o Text(PartText) \o parts[i]
                       /\ Len(acc[i]) = Len(acc[i - 1]) + PartText + Len(parts[i])
  BY <1>2, <1>4, <1>5, PartsWritten
<1>10. PartText \in Nat /\ EndText \in Nat
  BY RangeAssumption DEF RangeAssumption
<1> HIDE DEF o
<1> DEFINE S == {k \in Nat : k <= n => sum[k] = Len(acc[k]) + EndText}
<1>11. 0 \in S
  <2>1. Len(acc[0]) = 0
    BY <1>9, EmptySeq
  <2> QED
    BY <1>8, <1>10, <2>1
<1>12. ASSUME NEW k \in Nat, k \in S PROVE k + 1 \in S
  <2> SUFFICES ASSUME k + 1 <= n PROVE sum[k + 1] = Len(acc[k + 1]) + EndText
    OBVIOUS
  <2>1. PICK i : i = k + 1
    OBVIOUS
  <2>2. i \in 1..n /\ i - 1 = k /\ k \in 0..n /\ k <= n
    BY <1>2, <2>1
  <2>3. sum[k] = Len(acc[k]) + EndText
    BY <1>12, <2>2
  <2>4. sum[i] = sum[k] + PartText + o(i).length
    BY <1>8, <2>2
  <2>5. Len(acc[i]) = Len(acc[k]) + PartText + o(i).length
    BY <1>4, <1>9, <2>2
  <2>6. Len(acc[k]) \in Nat /\ o(i).length \in Nat
    BY <1>4, <1>9, <2>2, LenProperties
  <2>7. sum[i] = Len(acc[i]) + EndText
    BY <1>10, <2>3, <2>4, <2>5, <2>6
  <2> QED
    BY <2>1, <2>7
<1> HIDE DEF S
<1>13. n \in S
  BY <1>2, <1>11, <1>12, NatSetInduction
<1>14. PartsTotal(ranges) = Len(acc[n]) + EndText
  BY <1>2, <1>8, <1>13 DEF S
<1>15. PICK a, e : a = acc[n] /\ e = Text(EndText)
  OBVIOUS
<1>16. a \in Seq(Nat) /\ e \in Seq(Nat) /\ Len(e) = EndText /\ Len(a) \in Nat
  <2>1. n \in 0..n
    BY <1>2
  <2> QED
    BY <1>9, <1>10, <1>15, <2>1, TextIs, LenProperties
<1>17. a \o e \in Seq(Nat) /\ Len(a \o e) = Len(a) + EndText
  BY <1>16, ConcatProperties
<1>18. size_t(PartsTotal(ranges)) = PartsTotal(ranges)
  <2>1. PICK p : p = PartsTotal(ranges)
    OBVIOUS
  <2>2. p \in 0..(SizeModulus - 1) /\ SizeModulus \in Nat /\ SizeModulus > 0
    BY <1>10, <1>14, <1>15, <1>16, <2>1, Sizes
  <2>3. p % SizeModulus = p
    BY <2>2, Modulo
  <2> QED
    BY <2>1, <2>3 DEF size_t
<1> QED
  BY <1>6, <1>7, <1>9, <1>14, <1>15, <1>17, <1>18
-----------------------------------------------------------------------------
\* The statuses of what the server answers by itself, and of what is left by a
\* handler that throws.
OwnStatus == {"error", "too large", "refused", "not found"}
ThrownStatus == {"thrown", "thrown early"}

\* A response as the program behind the server makes it.
ResType ==
    [status : {"unset"} \cup OwnStatus \cup ThrownStatus, body : Seq(Nat),
     provider : {"none", "length", "chunked", "unknown"}, content_length_ : Nat,
     length : Int, chunked : BOOLEAN]

Made(x) ==
    /\ x \in ResType /\ x.length = NoLength /\ x.chunked = FALSE
    /\ x.provider = "length" => x.content_length_ \in 1..MaxContent
    /\ x.provider # "length" => x.content_length_ = 0

\* Its provider's content can be announced: the ranges are in order, do not begin
\* behind it and can be counted.
Announced(ranges, x) ==
    x.provider = "length" =>
        /\ ranges \in Seq(RangeType) /\ \A i \in DOMAIN ranges : InOrder(ranges[i])
        /\ NotPast(ranges, IF Len(ranges) = 1 THEN x.content_length_ ELSE 0)
        /\ Len(ranges) > 1 => ~(PartsTotal(ranges) >= SizeModulus)

\* What is sent of it, when it is not for HEAD.
Sent(ranges, y) ==
    CASE y.body # <<>> -> y.body
      [] y.body = <<>> /\ y.provider # "none" -> provided(ranges, y)
      [] OTHER -> <<>>

\* It is announced as it is sent.
EndIsTold(y, content) == y.length = Len(content) \/ (y.length = NoLength /\ y.chunked)

\* A provider's content.
LEMMA ProviderFrames ==
  ASSUME NEW ranges, NEW x, Made(x), Announced(ranges, x), x.body = <<>>,
         x.provider = "length"
  PROVE  EndIsTold(with_length(apply_ranges(ranges, x)),
                   Sent(ranges, with_length(apply_ranges(ranges, x))))
<1>1. PICK m : m = x.content_length_
  OBVIOUS
<1>2. /\ m \in Small /\ m \in Nat /\ m > 0 /\ 2 * m + 2 <= SizeModulus
      /\ SizeModulus \in Nat
  <2>1. m \in 1..MaxContent /\ MaxContent \in Small /\ Half \in Nat
    BY <1>1, Sizes DEF Made
  <2>2. m \in Small /\ m > 0
    BY <2>1 DEF Small
  <2> QED
    BY <2>2, Sizes
<1>3. /\ ranges \in Seq(RangeType) /\ \A i \in DOMAIN ranges : InOrder(ranges[i])
      /\ NotPast(ranges, IF Len(ranges) = 1 THEN m ELSE 0)
      /\ Len(ranges) > 1 => ~(PartsTotal(ranges) >= SizeModulus)
  BY <1>1 DEF Announced
<1>4. Len(ranges) \in Nat /\ DOMAIN ranges = 1..Len(ranges)
  BY <1>3, LenProperties
<1>5. PICK l : l = CASE Len(ranges) = 0 -> m
                     [] Len(ranges) = 1 -> get_range_offset_and_length(ranges[1], m).length
                     [] OTHER -> get_multipart_ranges_data_length(ranges)
  OBVIOUS
<1>6. PICK y : y = [x EXCEPT !.length = l]
  OBVIOUS
<1>7. apply_ranges(ranges, x) = y
  BY <1>1, <1>2, <1>5, <1>6 DEF apply_ranges
<1>8. /\ y.provider = "length" /\ y.body = <<>> /\ y.length = l
      /\ y.content_length_ = m
  BY <1>1, <1>6 DEF Made, ResType
<1>9. with_length(y) = y
  BY <1>8 DEF with_length
<1>10. Sent(ranges, y) = provided(ranges, y)
  BY <1>8 DEF Sent
<1>11. CASE Len(ranges) = 0
  <2>1. l = m /\ provided(ranges, y) = write_content(0, m)
    BY <1>5, <1>8, <1>11 DEF provided
  <2>2. Len(write_content(0, m)) = m
    <3>1. 0 + m < SizeModulus /\ 0 \in Nat
      BY <1>2
    <3> QED
      BY <1>2, <3>1, ProviderGives
  <2> QED
    BY <1>7, <1>8, <1>9, <1>10, <2>1, <2>2 DEF EndIsTold
<1>12. CASE Len(ranges) = 1
  <2>1. PICK g, o : g = ranges[1] /\ o = get_range_offset_and_length(g, m)
    OBVIOUS
  <2>2. l = o.length /\ provided(ranges, y) = write_content(o.offset, o.length)
    BY <1>5, <1>8, <1>12, <2>1 DEF provided
  <2>3. g \in RangeType /\ InOrder(g) /\ ~(g.last = -1 /\ g.first > m)
    <3>1. 1 \in DOMAIN ranges /\ 1 \in 1..Len(ranges)
      BY <1>4, <1>12
    <3>2. g \in RangeType
      BY <1>3, <2>1, <3>1, ElementOfSeq
    <3> QED
      BY <1>3, <1>12, <2>1, <3>1, <3>2 DEF NotPast
  <2>4. o.offset \in Nat /\ o.length \in Nat /\ o.offset + o.length < SizeModulus
    BY <1>2, <2>1, <2>3, RangeFits
  <2>5. Len(write_content(o.offset, o.length)) = o.length
    BY <2>4, ProviderGives
  <2> QED
    BY <1>7, <1>8, <1>9, <1>10, <2>2, <2>5 DEF EndIsTold
<1>13. CASE Len(ranges) # 0 /\ Len(ranges) # 1
  <2>1. /\ l = get_multipart_ranges_data_length(ranges)
        /\ provided(ranges, y) = write_multipart_ranges_data(ranges)
    BY <1>5, <1>8, <1>13 DEF provided
  <2>2. NotPast(ranges, 0) /\ ~(PartsTotal(ranges) >= SizeModulus)
    BY <1>3, <1>4, <1>13
  <2>3. Len(write_multipart_ranges_data(ranges)) = get_multipart_ranges_data_length(ranges)
    BY <1>3, <2>2, PartsAnnounced
  <2> QED
    BY <1>7, <1>8, <1>9, <1>10, <2>1, <2>3 DEF EndIsTold
<1> QED
  BY <1>11, <1>12, <1>13

\* Any response but one whose provider has neither a length nor chunks.
LEMMA ResponseFrames ==
  ASSUME NEW ranges, NEW x, Made(x), Announced(ranges, x),
         x.provider # "none" => x.body = <<>>, x.provider # "unknown"
  PROVE  EndIsTold(with_length(apply_ranges(ranges, x)),
                   Sent(ranges, with_length(apply_ranges(ranges, x))))
<1>1. PICK y : y = apply_ranges(ranges, x)
  OBVIOUS
<1>2. CASE x.body # <<>>
  <2>1. PICK b : y = [x EXCEPT !.body = b, !.length = Len(b)]
    BY <1>1, <1>2 DEF apply_ranges
  <2>2. y.body = b /\ y.length = Len(b) /\ y.provider = "none"
    BY <1>2, <2>1 DEF Made, ResType
  <2>3. Len(<<>>) = 0 /\ 0 # NoLength
    BY EmptySeq DEF NoLength
  <2>4. with_length(y) = y
    BY <2>2, <2>3 DEF with_length
  <2>5. Sent(ranges, y) = b
    BY <2>2 DEF Sent
  <2> QED
    BY <1>1, <2>2, <2>4, <2>5 DEF EndIsTold
<1>3. CASE x.body = <<>> /\ x.provider = "length"
  BY <1>3, ProviderFrames
<1>4. CASE x.body = <<>> /\ x.provider # "length"
  <2>1. x.content_length_ = 0 /\ x.length = NoLength /\ x.provider \in {"none", "chunked"}
    BY <1>4 DEF Made, ResType
  <2>2. y = [x EXCEPT !.chunked = (x.provider = "chunked")]
    BY <1>1, <1>4, <2>1 DEF apply_ranges
  <2>3. /\ y.length = NoLength /\ y.body = <<>> /\ y.provider = x.provider
        /\ y.chunked = (x.provider = "chunked") /\ DOMAIN y = DOMAIN x
    BY <1>4, <2>1, <2>2 DEF Made, ResType
  <2>4. CASE x.provider = "chunked"
    <3>1. with_length(y) = y /\ y.chunked
      BY <2>3, <2>4 DEF with_length
    <3> QED
      BY <1>1, <2>3, <3>1 DEF EndIsTold
  <2>5. CASE x.provider = "none"
    <3>1. PICK z : z = [y EXCEPT !.length = 0]
      OBVIOUS
    <3>2. with_length(y) = z
      BY <2>3, <2>5, <3>1 DEF with_length
    <3>3. z.length = 0 /\ z.body = <<>> /\ z.provider = "none"
      BY <2>2, <2>3, <2>5, <3>1 DEF Made, ResType
    <3>4. Sent(ranges, z) = <<>> /\ Len(<<>>) = 0
      BY <3>3, EmptySeq DEF Sent
    <3> QED
      BY <1>1, <3>2, <3>3, <3>4 DEF EndIsTold
  <2> QED
    BY <2>1, <2>4, <2>5
<1> QED
  BY <1>2, <1>3, <1>4
\* Ranges and headers change neither the status of a response nor its provider.
Keeps(y, x) ==
    /\ y.status = x.status /\ y.provider = x.provider
    /\ y.content_length_ = x.content_length_
    /\ x.body = <<>> => y.body = <<>>

\* They do.
LEMMA RangesKeep ==
  ASSUME NEW ranges, NEW x, Made(x)
  PROVE  /\ Keeps(with_length(apply_ranges(ranges, x)), x)
         /\ Keeps(with_length(x), x)
<1>1. PICK D : D = DOMAIN x /\ {"status", "body", "provider", "content_length_",
                                "length", "chunked"} = D
  BY DEF Made, ResType
<1>2. ASSUME NEW y, Keeps(y, x), DOMAIN y = D PROVE Keeps(with_length(y), x)
  <2>1. CASE with_length(y) = y
    BY <1>2, <2>1
  <2>2. CASE with_length(y) = [y EXCEPT !.length = 0]
    <3>1. PICK z : z = [y EXCEPT !.length = 0]
      OBVIOUS
    <3>2. /\ z.status = y.status /\ z.provider = y.provider
          /\ z.content_length_ = y.content_length_ /\ z.body = y.body
      BY <1>1, <1>2, <3>1
    <3> QED
      BY <1>2, <2>2, <3>1, <3>2 DEF Keeps
  <2> QED
    BY <2>1, <2>2 DEF with_length
<1>3. Keeps(x, x)
  BY DEF Keeps
<1>4. Keeps(apply_ranges(ranges, x), x) /\ DOMAIN apply_ranges(ranges, x) = D
  <2>1. PICK y : y = apply_ranges(ranges, x)
    OBVIOUS
  <2>2. CASE x.body # <<>>
    <3>1. PICK b : y = [x EXCEPT !.body = b, !.length = Len(b)]
      BY <2>1, <2>2 DEF apply_ranges
    <3>2. /\ y.status = x.status /\ y.provider = x.provider
          /\ y.content_length_ = x.content_length_ /\ DOMAIN y = D
      BY <1>1, <3>1
    <3> QED
      BY <2>1, <2>2, <3>2 DEF Keeps
  <2>3. CASE x.body = <<>> /\ x.content_length_ > 0
    <3>1. PICK l : y = [x EXCEPT !.length = l]
      BY <2>1, <2>3 DEF apply_ranges
    <3>2. /\ y.status = x.status /\ y.provider = x.provider
          /\ y.content_length_ = x.content_length_ /\ DOMAIN y = D /\ y.body = x.body
      BY <1>1, <3>1
    <3> QED
      BY <2>1, <3>2 DEF Keeps
  <2>4. CASE x.body = <<>> /\ ~(x.content_length_ > 0)
    <3>1. PICK c : y = [x EXCEPT !.chunked = c]
      BY <2>1, <2>4 DEF apply_ranges
    <3>2. /\ y.status = x.status /\ y.provider = x.provider
          /\ y.content_length_ = x.content_length_ /\ DOMAIN y = D /\ y.body = x.body
      BY <1>1, <3>1
    <3> QED
      BY <2>1, <3>2 DEF Keeps
  <2> QED
    BY <2>2, <2>3, <2>4
<1> QED
  BY <1>1, <1>2, <1>3, <1>4
-----------------------------------------------------------------------------
\* The content of the request is to be read before it is answered.
ToRead ==
    /\ expect_content(req) /\ (req.method = "DELETE" => req.framing = "length")
    /\ req.framing # "garbled"

\* The response as it was written says where it ends.
WireInv ==
    at = "written" /\ ~wire.close
    /\ ~(\/ wire.truncated \/ res.status \in ThrownStatus \/ res.provider = "unknown"
         \/ Miscounted) =>
        \/ req.method = "HEAD" /\ wire.content = <<>>
        \/ wire.length = Len(wire.content)
        \/ wire.length = NoLength /\ wire.chunked

\* Until it is written it is as the program made it: nothing of it is there
\* before it is routed, a provider's content is in no body, and only to a request
\* whose ranges have been read.
ReadyInv ==
    /\ at # "written" => Made(res)
    /\ at \in {"line", "route", "answer"} => routed = "no" /\ res = Empty
    /\ at = "line" => req \in Requests
    /\ at \in {"route", "answer"} \/ (at = "write" /\ res.provider # "none") =>
            req \in Requests /\ parse_range_header(req.ranges)
    /\ at = "write" =>
            /\ res.provider # "none" => res.body = <<>>
            /\ res.status \in OwnStatus => res.provider = "none"
            /\ routed = "no" /\ res.status \notin ThrownStatus =>
                  res.body = <<>> /\ res.provider = "none"

ReadInv ==
    /\ at = "answer" /\ ToRead => unread = "nothing"
    /\ ContentExpected => unread = "nothing"

ExchangeInv ==
    /\ at \in {"line", "route", "answer", "write", "written"}
    /\ routed \in {"no", "early", "reader", "handler"}
    /\ ReadyInv /\ ReadInv /\ WireInv

\* A response that nobody has touched is one that can be written, also as an error.
LEMMA EmptyMade ==
  /\ Made(Empty) /\ Empty.provider = "none" /\ Empty.body = <<>> /\ Empty.status = "unset"
  /\ \A st \in OwnStatus :
        LET x == [Empty EXCEPT !.status = st]
        IN Made(x) /\ x.provider = "none" /\ x.body = <<>> /\ x.status = st
<1>1. <<>> \in Seq(Nat) /\ NoLength \in Int
  BY EmptySeq DEF NoLength
<1>2. /\ Empty \in ResType /\ Empty.length = NoLength /\ Empty.chunked = FALSE
      /\ Empty.provider = "none" /\ Empty.content_length_ = 0
      /\ Empty.body = <<>> /\ Empty.status = "unset"
  BY <1>1 DEF Empty, ResType
<1>3. ASSUME NEW st \in OwnStatus, NEW x, x = [Empty EXCEPT !.status = st]
      PROVE  Made(x) /\ x.provider = "none" /\ x.body = <<>> /\ x.status = st
  <2>1. /\ x \in ResType /\ x.length = NoLength /\ x.chunked = FALSE
        /\ x.provider = "none" /\ x.content_length_ = 0
        /\ x.body = <<>> /\ x.status = st
    BY <1>2, <1>3 DEF ResType
  <2> QED
    BY <2>1 DEF Made
<1> QED
  BY <1>2, <1>3 DEF Made

\* So is one with a body.
LEMMA BytesMade ==
  ASSUME NEW n \in 0..MaxContent
  PROVE  /\ Bytes(n) \in Seq(Nat)
         /\ LET x == [Empty EXCEPT !.body = Bytes(n)]
            IN Made(x) /\ x.provider = "none" /\ x.status = "unset"
<1>1. MaxContent \in Nat
  BY Sizes
<1>2. PICK b : b = Bytes(n)
  OBVIOUS
<1>3. b \in [1..n -> Nat]
  BY <1>2 DEF Bytes
<1>4. b \in Seq(Nat)
  BY <1>1, <1>3, SeqDef
<1>5. PICK x : x = [Empty EXCEPT !.body = b]
  OBVIOUS
<1>6. Empty \in ResType
  BY EmptyMade DEF Made
<1>7. /\ x \in ResType /\ x.length = Empty.length /\ x.chunked = Empty.chunked
      /\ x.provider = Empty.provider /\ x.content_length_ = Empty.content_length_
      /\ x.status = Empty.status
  BY <1>4, <1>5, <1>6 DEF ResType
<1> QED
  BY <1>2, <1>4, <1>5, <1>7, EmptyMade DEF Made

\* So is a handler's, also when it throws after it has set it.
LEMMA AnswersMade ==
  ASSUME NEW a \in Answers
  PROVE  /\ Made(a) /\ a.status = "unset" /\ (a.provider # "none" => a.body = <<>>)
         /\ \A st \in ThrownStatus :
               LET x == [a EXCEPT !.status = st]
               IN Made(x) /\ x.status = st /\ x.provider = a.provider /\ x.body = a.body
<1>1. Made(a) /\ a.status = "unset" /\ (a.provider # "none" => a.body = <<>>)
  <2>1. CASE a = Empty
    BY <2>1, EmptyMade
  <2>2. ASSUME NEW n \in 1..MaxContent, a = [Empty EXCEPT !.body = Bytes(n)]
        PROVE  Made(a) /\ a.status = "unset" /\ (a.provider # "none" => a.body = <<>>)
    <3>1. n \in 0..MaxContent
      BY Sizes
    <3> QED
      BY <2>2, <3>1, BytesMade
  <2>3. ASSUME NEW n \in 1..MaxContent,
               a = [Empty EXCEPT !.provider = "length", !.content_length_ = n]
        PROVE  Made(a) /\ a.status = "unset" /\ (a.provider # "none" => a.body = <<>>)
    <3>1. Empty \in ResType /\ n \in Nat
      <4>1. MaxContent \in Nat
        BY Sizes
      <4>2. n \in Nat
        BY <4>1
      <4> QED
        BY <4>2, EmptyMade DEF Made
    <3>2. /\ a \in ResType /\ a.length = Empty.length /\ a.chunked = Empty.chunked
          /\ a.provider = "length" /\ a.content_length_ = n
          /\ a.status = Empty.status /\ a.body = Empty.body
      BY <2>3, <3>1 DEF ResType
    <3> QED
      BY <3>2, EmptyMade DEF Made
  <2>4. ASSUME NEW p \in {"chunked", "unknown"}, a = [Empty EXCEPT !.provider = p]
        PROVE  Made(a) /\ a.status = "unset" /\ (a.provider # "none" => a.body = <<>>)
    <3>1. Empty \in ResType
      BY EmptyMade DEF Made
    <3>2. /\ a \in ResType /\ a.length = Empty.length /\ a.chunked = Empty.chunked
          /\ a.provider = p /\ a.content_length_ = Empty.content_length_
          /\ a.status = Empty.status /\ a.body = Empty.body
      BY <2>4, <3>1 DEF ResType
    <3> QED
      BY <3>2, EmptyMade DEF Made
  <2> QED
    BY <2>1, <2>2, <2>3, <2>4 DEF Answers
<1>2. ASSUME NEW st \in ThrownStatus, NEW x, x = [a EXCEPT !.status = st]
      PROVE  Made(x) /\ x.status = st /\ x.provider = a.provider /\ x.body = a.body
  <2>1. /\ x \in ResType /\ x.length = a.length /\ x.chunked = a.chunked
        /\ x.provider = a.provider /\ x.content_length_ = a.content_length_
        /\ x.status = st /\ x.body = a.body
    BY <1>1, <1>2 DEF Made, ResType
  <2> QED
    BY <1>1, <2>1 DEF Made
<1> QED
  BY <1>1, <1>2

-----------------------------------------------------------------------------
\* A request has arrived.
LEMMA ExchangeInvInit == ExchangeInit => ExchangeInv
<1> SUFFICES ASSUME ExchangeInit PROVE ExchangeInv
  OBVIOUS
<1>1. at = "line" /\ req \in Requests /\ res = Empty /\ routed = "no"
  BY DEF ExchangeInit
<1>2. ReadyInv
  BY <1>1, EmptyMade DEF ReadyInv
<1>3. ReadInv
  BY <1>1, EmptyMade DEF ReadInv, ContentExpected
<1>4. WireInv
  BY <1>1 DEF WireInv
<1> QED
  BY <1>1, <1>2, <1>3, <1>4 DEF ExchangeInv

\* What is answered without a handler has no content.
LEMMA Refused ==
  ASSUME ExchangeInv, at \in {"line", "route", "answer"},
         NEW st \in OwnStatus, Responds(st), routed' = routed,
         st \in {"too large", "not found"} /\ ToRead' => unread' = "nothing"
  PROVE  ExchangeInv'
<1>1. res = Empty /\ routed = "no"
  BY DEF ExchangeInv, ReadyInv
<1>2. at' = "write" /\ res' = [Empty EXCEPT !.status = st] /\ routed' = "no"
  BY <1>1 DEF Responds
<1>3. Made(res') /\ res'.provider = "none" /\ res'.body = <<>> /\ res'.status = st
  BY <1>2, EmptyMade
<1>4. ReadyInv'
  BY <1>2, <1>3 DEF ReadyInv
<1>5. ReadInv'
  BY <1>2, <1>3 DEF ReadInv, ContentExpected, ToRead, OwnStatus
<1>6. WireInv'
  BY <1>2 DEF WireInv
<1> QED
  BY <1>2, <1>4, <1>5, <1>6 DEF ExchangeInv

\* The steps before a request is routed.
LEMMA HeadKeepsInv ==
  ASSUME ExchangeInv, LongLine \/ BadLine \/ BadRange \/ Headers
  PROVE  ExchangeInv'
<1>1. CASE LongLine
  <2>1. at = "line" /\ Responds("error") /\ routed' = routed
    BY <1>1 DEF LongLine
  <2> QED
    BY <2>1, Refused DEF OwnStatus
<1>2. CASE BadLine
  <2>1. at = "line" /\ Responds("error") /\ routed' = routed
    BY <1>2 DEF BadLine
  <2> QED
    BY <2>1, Refused DEF OwnStatus
<1>3. CASE BadRange
  <2>1. at = "line" /\ Responds("error") /\ routed' = routed
    BY <1>3 DEF BadRange
  <2> QED
    BY <2>1, Refused DEF OwnStatus
<1>4. CASE Headers
  <2>1. at = "line" /\ routed' = routed /\ parse_range_header(req.ranges) /\ req' = req
    BY <1>4 DEF Headers
  <2>2. CASE Responds("error")
    BY <2>1, <2>2, Refused DEF OwnStatus
  <2>3. CASE at' = "route" /\ res' = res
    <3>1. req \in Requests /\ res = Empty /\ routed = "no"
      BY <2>1 DEF ExchangeInv, ReadyInv
    <3>2. ReadyInv'
      BY <2>1, <2>3, <3>1, EmptyMade DEF ReadyInv
    <3>3. ReadInv'
      BY <2>1, <2>3, <3>1, EmptyMade DEF ReadInv, ContentExpected
    <3>4. WireInv'
      BY <2>3 DEF WireInv
    <3> QED
      BY <2>1, <2>3, <3>1, <3>2, <3>3, <3>4 DEF ExchangeInv
  <2> QED
    BY <1>4, <2>2, <2>3 DEF Headers
<1> QED
  BY <1>1, <1>2, <1>3, <1>4

\* A handler answers, or throws, wherever it is asked.
LEMMA HandledKeepsInv ==
  ASSUME ExchangeInv, at \in {"route", "answer"}, req' = req,
         NEW by, NEW thrown, Handled(by, thrown),
         \/ by \in {"early", "reader"} /\ thrown = "thrown early"
         \/ by = "handler" /\ thrown = "thrown" /\ (ToRead => unread' = "nothing")
  PROVE  ExchangeInv'
<1>1. /\ at' = "write" /\ routed = "no"
      /\ req \in Requests /\ parse_range_header(req.ranges)
  BY DEF ExchangeInv, ReadyInv, Handled
<1>2. ASSUME Made(res'), res'.provider # "none" => res'.body = <<>>,
             \/ res'.status = "unset" /\ routed' = by
             \/ res'.status = thrown /\ routed' = "no"
      PROVE  ExchangeInv'
  <2>1. thrown \in ThrownStatus /\ by \in {"early", "reader", "handler"}
    BY DEF ThrownStatus
  <2>2. ReadyInv'
    BY <1>1, <1>2, <2>1 DEF ReadyInv, OwnStatus, ThrownStatus
  <2>3. ContentExpected' => by = "handler" /\ ToRead
    BY <1>2 DEF ContentExpected, ToRead, expect_content
  <2>4. ReadInv'
    BY <1>1, <2>3 DEF ReadInv
  <2>5. WireInv'
    BY <1>1 DEF WireInv
  <2> QED
    BY <1>1, <1>2, <2>1, <2>2, <2>4, <2>5 DEF ExchangeInv
<1>3. CASE routed' = by /\ res' \in Answers
  <2>1. Made(res') /\ res'.status = "unset" /\ (res'.provider # "none" => res'.body = <<>>)
    BY <1>3, AnswersMade
  <2> QED
    BY <1>2, <1>3, <2>1
<1>4. ASSUME NEW a \in Answers, res' = [a EXCEPT !.status = thrown], routed' = routed
      PROVE  ExchangeInv'
  <2>1. thrown \in ThrownStatus
    BY DEF ThrownStatus
  <2>2. /\ Made(res') /\ res'.status = thrown
        /\ (res'.provider # "none" => res'.body = <<>>)
    BY <1>4, <2>1, AnswersMade
  <2> QED
    BY <1>1, <1>2, <1>4, <2>2
<1> QED
  BY <1>3, <1>4 DEF Handled

\* The content is read, skipped, refused or not there.
LEMMA RouteKeepsInv ==
  ASSUME ExchangeInv, RouteContent \/ RouteOther
  PROVE  ExchangeInv'
<1>1. /\ at = "route" /\ req' = req /\ routed' = routed
      /\ res = Empty /\ routed = "no"
      /\ req \in Requests /\ parse_range_header(req.ranges)
  BY DEF ExchangeInv, ReadyInv, RouteContent, RouteOther
<1>2. CASE Responds("error") \/ Responds("refused")
  BY <1>1, <1>2, Refused DEF OwnStatus
<1>3. CASE Responds("too large") /\ unread' = "nothing"
  BY <1>1, <1>3, Refused DEF OwnStatus
<1>4. CASE at' = "answer" /\ res' = res /\ (ToRead => unread' = "nothing")
  <2>1. ReadyInv'
    BY <1>1, <1>4, EmptyMade DEF ReadyInv
  <2>2. ToRead' = ToRead
    BY <1>1 DEF ToRead, expect_content
  <2>3. ReadInv'
    BY <1>1, <1>4, <2>2, EmptyMade DEF ReadInv, ContentExpected
  <2>4. WireInv'
    BY <1>4 DEF WireInv
  <2> QED
    BY <1>1, <1>4, <2>1, <2>3, <2>4 DEF ExchangeInv
<1> QED
  BY <1>2, <1>3, <1>4 DEF RouteContent, RouteOther, ToRead

\* A handler is asked, or there is none.
LEMMA AnswerKeepsInv ==
  ASSUME ExchangeInv, Answer
  PROVE  ExchangeInv'
<1>1. /\ at = "answer" /\ req' = req /\ unread' = unread
      /\ ToRead => unread = "nothing"
  BY DEF ExchangeInv, ReadInv, Answer
<1>2. ToRead' = ToRead
  BY <1>1 DEF ToRead, expect_content
<1>3. CASE Handled("handler", "thrown")
  BY <1>1, <1>3, HandledKeepsInv
<1>4. CASE Responds("not found") /\ routed' = routed
  BY <1>1, <1>2, <1>4, Refused DEF OwnStatus
<1> QED
  BY <1>3, <1>4 DEF Answer

\* What is written says where it ends.
LEMMA WrittenFrames ==
  ASSUME ExchangeInv, WriteResponse,
         res'.status \notin ThrownStatus, res'.provider # "unknown", ~Miscounted'
  PROVE  EndIsTold(res', Sent(parsed_ranges(req.ranges), res'))
<1> DEFINE ranges == parsed_ranges(req.ranges)
<1>1. PICK x : \/ x = res /\ routed # "no" /\ res' = with_length(apply_ranges(ranges, x))
               \/ x = res /\ routed = "no" /\ res' = with_length(x)
               \/ /\ res.status # "unset"
                  /\ \E n \in 0..MaxContent : x = [res EXCEPT !.body = Bytes(n)]
                  /\ res' = with_length(apply_ranges(ranges, x))
  BY DEF WriteResponse
<1>2. at = "write" /\ Made(res) /\ req' = req
  BY DEF WriteResponse, ExchangeInv, ReadyInv
<1>3. /\ res.provider # "none" => res.body = <<>>
      /\ res.provider # "none" => req \in Requests /\ parse_range_header(req.ranges)
      /\ res.status \in OwnStatus => res.provider = "none"
      /\ routed = "no" /\ res.status \notin ThrownStatus =>
            res.body = <<>> /\ res.provider = "none"
  BY <1>2 DEF ExchangeInv, ReadyInv
<1>4. /\ Made(x) /\ x.status = res.status /\ x.provider = res.provider
      /\ x = res \/ res.status # "unset"
  <2>1. CASE x = res
    BY <1>2, <2>1
  <2>2. ASSUME NEW n \in 0..MaxContent, x = [res EXCEPT !.body = Bytes(n)],
               res.status # "unset"
        PROVE  Made(x) /\ x.status = res.status /\ x.provider = res.provider
    <3>1. Bytes(n) \in Seq(Nat)
      BY BytesMade
    <3>2. /\ x \in ResType /\ x.length = res.length /\ x.chunked = res.chunked
          /\ x.provider = res.provider /\ x.content_length_ = res.content_length_
          /\ x.status = res.status
      BY <1>2, <2>2, <3>1 DEF Made, ResType
    <3> QED
      BY <1>2, <3>2 DEF Made
  <2> QED
    BY <1>1, <2>1, <2>2
<1>5. Keeps(res', x)
  BY <1>1, <1>4, RangesKeep
<1>6. /\ x.status \notin ThrownStatus /\ x.provider # "unknown"
      /\ x.provider # "none" => x.body = <<>>
  <2>1. res.status \in {"unset"} \cup OwnStatus \cup ThrownStatus
    BY <1>2 DEF Made, ResType
  <2> QED
    BY <1>3, <1>4, <1>5, <2>1 DEF Keeps
<1>7. Announced(ranges, x)
  <2> SUFFICES ASSUME x.provider = "length"
               PROVE  /\ ranges = req.ranges /\ ranges \in Seq(RangeType)
                      /\ \A i \in DOMAIN req.ranges : InOrder(req.ranges[i])
                      /\ NotPast(req.ranges,
                                 IF Len(req.ranges) = 1 THEN x.content_length_ ELSE 0)
                      /\ Len(req.ranges) > 1 => ~(PartsTotal(req.ranges) >= SizeModulus)
    <3> HIDE DEF ranges
    <3> QED
      BY DEF Announced
  <2>1. req \in Requests /\ parse_range_header(req.ranges)
    BY <1>3, <1>4
  <2>2. req.ranges \in Seq(GivenType)
    BY <2>1, ExchangeAssumption DEF ExchangeAssumption, RequestType, GivenType
  <2>4. /\ res'.provider = "length" /\ res'.body = <<>>
        /\ res'.content_length_ = x.content_length_
        /\ ~Narrowed' /\ ~OpenPast' /\ ~Uncounted'
    BY <1>5, <1>6 DEF Keeps, Miscounted
  <2>3. /\ ranges = req.ranges /\ ranges \in Seq(RangeType)
        /\ \A i \in DOMAIN req.ranges : InOrder(req.ranges[i])
    <3>1. \A i \in DOMAIN req.ranges : Fits(req.ranges[i])
      BY <1>2, <2>4 DEF Narrowed
    <3> QED
      BY <2>1, <2>2, <3>1, RangesParsed
  <2>5. NotPast(req.ranges, IF Len(req.ranges) = 1 THEN x.content_length_ ELSE 0)
    BY <1>2, <2>4 DEF OpenPast
  <2>6. Len(req.ranges) > 1 => ~(PartsTotal(req.ranges) >= SizeModulus)
    BY <1>2, <2>4 DEF Uncounted
  <2> QED
    BY <2>3, <2>5, <2>6
<1>8. CASE res' = with_length(apply_ranges(ranges, x))
  BY <1>4, <1>6, <1>7, <1>8, ResponseFrames
<1>9. CASE routed = "no" /\ x = res /\ res' = with_length(x)
  <2>1. x.body = <<>> /\ x.provider = "none" /\ x.length = NoLength
    BY <1>2, <1>3, <1>6, <1>9 DEF Made
  <2>2. res' = [x EXCEPT !.length = 0]
    BY <1>9, <2>1 DEF with_length
  <2>3. res'.length = 0 /\ res'.body = <<>> /\ res'.provider = "none"
    BY <1>4, <2>1, <2>2 DEF Made, ResType
  <2>4. Sent(ranges, res') = <<>> /\ Len(<<>>) = 0
    BY <2>3, EmptySeq DEF Sent
  <2> QED
    BY <2>3, <2>4 DEF EndIsTold
<1> QED
  BY <1>1, <1>8, <1>9

\* The response is written.
LEMMA WriteKeepsInv ==
  ASSUME ExchangeInv, WriteResponse
  PROVE  ExchangeInv'
<1>1. at = "write" /\ at' = "written" /\ req' = req /\ unread' = unread /\ routed' = routed
  BY DEF WriteResponse
<1>2. ReadyInv'
  BY <1>1 DEF ReadyInv
<1>3. ReadInv'
  <2>1. res'.status = res.status
    <3>1. PICK x : /\ x = res \/ \E n \in 0..MaxContent : x = [res EXCEPT !.body = Bytes(n)]
                   /\ \/ res' = with_length(apply_ranges(parsed_ranges(req.ranges), x))
                      \/ res' = with_length(x)
      BY DEF WriteResponse
    <3>2. Made(x) /\ x.status = res.status
      <4>1. Made(res)
        BY <1>1 DEF ExchangeInv, ReadyInv
      <4>2. ASSUME NEW n \in 0..MaxContent, x = [res EXCEPT !.body = Bytes(n)]
            PROVE  Made(x) /\ x.status = res.status
        <5>1. Bytes(n) \in Seq(Nat)
          BY BytesMade
        <5>2. /\ x \in ResType /\ x.length = res.length /\ x.chunked = res.chunked
              /\ x.provider = res.provider /\ x.content_length_ = res.content_length_
              /\ x.status = res.status
          BY <4>1, <4>2, <5>1 DEF Made, ResType
        <5> QED
          BY <4>1, <5>2 DEF Made
      <4> QED
        BY <3>1, <4>1, <4>2
    <3> QED
      BY <3>1, <3>2, RangesKeep DEF Keeps
  <2>2. ContentExpected' = ContentExpected
    BY <1>1, <2>1 DEF ContentExpected, expect_content
  <2> QED
    BY <1>1, <2>2 DEF ExchangeInv, ReadInv
<1>4. WireInv'
  <2> SUFFICES ASSUME ~wire'.truncated, res'.status \notin ThrownStatus,
                      res'.provider # "unknown", ~Miscounted'
               PROVE  \/ req'.method = "HEAD" /\ wire'.content = <<>>
                      \/ wire'.length = Len(wire'.content)
                      \/ wire'.length = NoLength /\ wire'.chunked
    BY DEF WireInv
  <2>1. EndIsTold(res', Sent(parsed_ranges(req.ranges), res'))
    BY WrittenFrames
  <2>2. wire' = written(res')
    BY DEF WriteResponse, written
  <2>3. wire'.length = res'.length /\ wire'.chunked = res'.chunked
    BY <2>2 DEF written
  <2>4. CASE req.method = "HEAD"
    <3>1. wire'.content = <<>>
      BY <2>2, <2>4 DEF written
    <3> QED
      BY <1>1, <2>4, <3>1
  <2>5. CASE req.method # "HEAD"
    <3>1. wire'.content = Sent(parsed_ranges(req.ranges), res')
      BY <2>2, <2>5 DEF written, Sent
    <3> QED
      BY <2>1, <2>3, <3>1 DEF EndIsTold
  <2> QED
    BY <2>4, <2>5
<1> QED
  BY <1>1, <1>2, <1>3, <1>4 DEF ExchangeInv

\* The invariant of an exchange: until it is written, a response is as it was
\* made, with a provider only for ranges that have been read; a content that is
\* read and not garbled (ToRead) has been read when a regular
\* handler is asked; and what is written says where it ends, or is one of the
\* exceptions of FramingKept.
THEOREM ExchangeInvariance == ExchangeSpec => []ExchangeInv
<1>1. ASSUME ExchangeInv, [ExchangeNext]_exchangeVars PROVE ExchangeInv'
  <2>1. CASE LongLine \/ BadLine \/ BadRange \/ Headers
    BY <1>1, <2>1, HeadKeepsInv
  <2>2. CASE RouteEarly \/ RouteReader
    <3>1. /\ at \in {"route", "answer"} /\ req' = req
          /\ \E by \in {"early", "reader"} : Handled(by, "thrown early")
      BY <2>2 DEF RouteEarly, RouteReader
    <3> QED
      BY <1>1, <3>1, HandledKeepsInv
  <2>3. CASE RouteContent \/ RouteOther
    BY <1>1, <2>3, RouteKeepsInv
  <2>4. CASE Answer
    BY <1>1, <2>4, AnswerKeepsInv
  <2>5. CASE WriteResponse
    BY <1>1, <2>5, WriteKeepsInv
  <2>6. CASE UNCHANGED exchangeVars
    <3>1. /\ at' = at /\ req' = req /\ res' = res /\ unread' = unread
          /\ routed' = routed /\ wire' = wire
      BY <2>6 DEF exchangeVars
    <3>2. ReadyInv'
      BY <1>1, <3>1 DEF ExchangeInv, ReadyInv
    <3>3. ReadInv'
      BY <1>1, <3>1 DEF ExchangeInv, ReadInv, ToRead, ContentExpected, expect_content
    <3>4. Miscounted' = Miscounted
      BY <3>1 DEF Miscounted, Narrowed, OpenPast, Uncounted
    <3>5. WireInv'
      BY <1>1, <3>1, <3>4 DEF ExchangeInv, WireInv
    <3> QED
      BY <1>1, <3>1, <3>2, <3>3, <3>5 DEF ExchangeInv
  <2> QED
    BY <1>1, <2>1, <2>2, <2>3, <2>4, <2>5, <2>6 DEF ExchangeNext
<1> QED
  BY <1>1, ExchangeInvInit, PTL DEF ExchangeSpec

\* FramingKept (process_request and write_response of httplib::Server), for any
\* requests, contents and ranges: on a connection that goes on, a content that a
\* regular handler was asked for, or that was skipped for its length, has been
\* read (not so one that is garbled, refused otherwise, or that an early handler
\* or a reader has left); and a response has as many bytes as it announces, unless
\* it was broken off, thrown, of unknown length or Miscounted.
THEOREM FramingAlwaysKept == ExchangeSpec => []FramingKept
<1>1. ExchangeInv => FramingKept
  BY DEF ExchangeInv, ReadInv, WireInv, FramingKept, ThrownStatus
<1> QED
  BY <1>1, ExchangeInvariance, PTL
-----------------------------------------------------------------------------
\* Numbers that follow a number.
Run(a, c) == [i \in 1..c |-> a + i]

\* They are a sequence, and go on with the next one.
LEMMA RunFacts ==
  ASSUME NEW a \in Nat, NEW c \in Nat
  PROVE  /\ Run(a, c) \in Seq(Nat) /\ Len(Run(a, c)) = c
         /\ \A i \in 1..c : Run(a, c)[i] = a + i
         /\ Run(a, 0) = <<>>
         /\ Run(a, c) \o <<a + c + 1>> = Run(a, c + 1)
<1>1. ASSUME NEW k \in Nat
      PROVE  /\ Run(a, k) \in Seq(Nat) /\ Len(Run(a, k)) = k
             /\ \A i \in 1..k : Run(a, k)[i] = a + i
  <2>1. PICK w : w = Run(a, k)
    OBVIOUS
  <2>2. w \in [1..k -> Nat] /\ \A i \in 1..k : w[i] = a + i
    BY <2>1 DEF Run
  <2>3. w \in Seq(Nat) /\ DOMAIN w = 1..k
    BY <2>2, SeqDef
  <2>4. Len(w) = k
    BY <2>3, LenProperties
  <2> QED
    BY <2>1, <2>2, <2>3, <2>4
<1>2. Run(a, 0) = <<>>
  BY <1>1, EmptySeq
<1>3. PICK x, s, t, u : x = a + c + 1 /\ s = Run(a, c) /\ t = <<x>> /\ u = Run(a, c + 1)
  OBVIOUS
<1>4. x \in Nat /\ t \in Seq(Nat) /\ Len(t) = 1 /\ t[1] = x
  <2>1. x \in Nat
    BY <1>3
  <2>2. t \in [1..1 -> Nat]
    BY <1>3, <2>1
  <2> QED
    BY <1>3, <2>1, <2>2, SeqDef
<1>5. /\ s \in Seq(Nat) /\ Len(s) = c /\ \A i \in 1..c : s[i] = a + i
      /\ u \in Seq(Nat) /\ Len(u) = c + 1 /\ \A i \in 1..(c + 1) : u[i] = a + i
  <2>1. c + 1 \in Nat
    OBVIOUS
  <2>2. /\ Run(a, c + 1) \in Seq(Nat) /\ Len(Run(a, c + 1)) = c + 1
        /\ \A i \in 1..(c + 1) : Run(a, c + 1)[i] = a + i
    BY <1>1, <2>1
  <2> QED
    BY <1>1, <1>3, <2>2
<1>6. PICK v : v = s \o t
  OBVIOUS
<1>7. /\ v \in Seq(Nat) /\ Len(v) = c + 1
      /\ \A i \in 1..(c + 1) : v[i] = IF i <= c THEN s[i] ELSE t[i - c]
  <2>1. /\ s \o t \in Seq(Nat) /\ Len(s \o t) = Len(s) + Len(t)
        /\ \A i \in 1..(Len(s) + Len(t)) :
              (s \o t)[i] = IF i <= Len(s) THEN s[i] ELSE t[i - Len(s)]
    BY <1>4, <1>5, ConcatProperties
  <2>2. /\ v \in Seq(Nat) /\ Len(v) = Len(s) + Len(t)
        /\ \A i \in 1..(Len(s) + Len(t)) :
              v[i] = IF i <= Len(s) THEN s[i] ELSE t[i - Len(s)]
    BY <1>6, <2>1, Zenon
  <2> QED
    BY <1>4, <1>5, <2>2
<1>8. ASSUME NEW i \in 1..(c + 1) PROVE v[i] = u[i]
  <2>1. CASE i <= c
    BY <1>5, <1>7, <2>1
  <2>2. CASE i = c + 1
    <3>1. i - c = 1 /\ ~(i <= c) /\ a + i = x
      BY <1>3, <2>2
    <3> QED
      BY <1>4, <1>5, <1>7, <3>1
  <2>3. i <= c \/ i = c + 1
    OBVIOUS
  <2> QED
    BY <2>1, <2>2, <2>3
<1>9. v = u
  BY <1>5, <1>7, <1>8, SeqEqual
<1> QED
  BY <1>1, <1>2, <1>3, <1>6, <1>9, Zenon

\* A part of a content.
LEMMA SubstrRuns ==
  ASSUME NEW n \in Nat, NEW a \in Nat, NEW length \in Int, NEW m \in Nat,
         m = Min({a + length, n}), a <= m
  PROVE  substr(Bytes(n), a, length) = Run(a, m - a)
<1>1. Bytes(n) = Run(0, n)
  BY DEF Bytes, Run
<1>2. PICK s, c : s = Run(0, n) /\ c = m - a
  OBVIOUS
<1>3. s \in Seq(Nat) /\ Len(s) = n /\ \A i \in 1..n : s[i] = i
  <2>1. 0 \in Nat /\ \A i \in 1..n : 0 + i = i
    OBVIOUS
  <2>2. s \in Seq(Nat) /\ Len(s) = n /\ \A i \in 1..n : s[i] = 0 + i
    BY <1>2, <2>1, RunFacts
  <2> QED
    BY <2>1, <2>2
<1>4. m <= n /\ c \in Nat /\ a + c = m
  <2>1. Min({a + length, n}) = IF a + length <= n THEN a + length ELSE n
    BY MinTwo
  <2> QED
    BY <1>2, <2>1
<1>5. substr(Bytes(n), a, length) = SubSeq(s, a + 1, m)
  BY <1>1, <1>2, <1>3 DEF substr
<1>6. PICK t, u : t = SubSeq(s, a + 1, m) /\ u = Run(a, c)
  OBVIOUS
<1>7. /\ u \in Seq(Nat) /\ Len(u) = c /\ \A i \in 1..c : u[i] = a + i
  BY <1>4, <1>6, RunFacts
<1>8. t \in Seq(Nat) /\ Len(t) = c /\ \A i \in 1..c : t[i] = a + i
  <2>1. \A i \in (a + 1)..m : i \in 1..n /\ s[i] \in Nat
    BY <1>3, <1>4
  <2>2. PICK b : b = a + 1
    OBVIOUS
  <2>3. b \in Int /\ m \in Int /\ \A i \in b..m : s[i] \in Nat
    BY <2>1, <2>2
  <2>4. /\ t \in Seq(Nat) /\ Len(t) = IF b <= m THEN m - b + 1 ELSE 0
        /\ \A i \in 1..(m - b + 1) : t[i] = s[b + i - 1]
    <3>1. /\ SubSeq(s, b, m) \in Seq(Nat)
          /\ Len(SubSeq(s, b, m)) = IF b <= m THEN m - b + 1 ELSE 0
          /\ \A i \in 1..(m - b + 1) : SubSeq(s, b, m)[i] = s[b + i - 1]
      BY <2>3, SubSeqProperties
    <3>2. t = SubSeq(s, b, m)
      BY <1>6, <2>2, Zenon
    <3> QED
      BY <3>1, <3>2, Zenon
  <2>5. /\ m - b + 1 = c /\ (~(b <= m) => c = 0)
        /\ \A i \in 1..c : b + i - 1 = a + i /\ a + i \in 1..n
    BY <1>4, <2>2
  <2>6. Len(t) = c /\ \A i \in 1..c : t[i] = s[a + i]
    BY <2>4, <2>5
  <2> QED
    BY <1>3, <2>4, <2>5, <2>6
<1>9. t = u
  BY <1>7, <1>8, SeqEqual
<1> QED
  BY <1>2, <1>5, <1>6, <1>9

\* Before, in and behind the bytes from a to m, how many of them there have been.
PickedUpTo(k, a, m) == IF k <= a THEN 0 ELSE IF k <= m THEN k - a ELSE m - a

\* The bytes that a range selects, one by one.
LEMMA PickedRuns ==
  ASSUME NEW g, NEW n \in Nat, NEW a \in Nat, NEW m \in Nat, a < m, m <= n,
         Selected(g, n) = a..(m - 1)
  PROVE  Picked(g, n) = Run(a, m - a)
<1> DEFINE seqs == [i \in 1..n |-> IF i - 1 \in Selected(g, n) THEN <<i>> ELSE <<>>]
<1>1. n \in 1..n
  OBVIOUS
<1>2. ASSUME NEW i \in 1..n
      PROVE  /\ seqs[i] = (IF a < i /\ i <= m THEN <<i>> ELSE <<>>)
             /\ seqs[i] \in Seq(Nat)
  <2>1. seqs[i] = IF i - 1 \in a..(m - 1) THEN <<i>> ELSE <<>>
    OBVIOUS
  <2>2. i - 1 \in a..(m - 1) <=> a < i /\ i <= m
    OBVIOUS
  <2>3. seqs[i] = IF a < i /\ i <= m THEN <<i>> ELSE <<>>
    BY <2>1, <2>2, Zenon
  <2>4. <<i>> \in Seq(Nat) /\ <<>> \in Seq(Nat)
    <3>1. <<i>> \in [1..1 -> Nat]
      OBVIOUS
    <3> QED
      BY <3>1, SeqDef, EmptySeq
  <2> HIDE DEF seqs
  <2> QED
    BY <2>3, <2>4, Zenon
<1>3. DOMAIN seqs = 1..n
  OBVIOUS
<1>4. seqs = [i \in 1..n |-> seqs[i]]
  OBVIOUS
<1>5. Picked(g, n) = FlattenSeq(seqs)
  BY DEF Picked
<1> HIDE DEF seqs
<1>6. seqs \in Seq(Seq(Nat)) /\ Len(seqs) = n /\ seqs # <<>>
  <2>1. seqs \in [1..n -> Seq(Nat)]
    BY <1>2, <1>4
  <2>2. seqs \in Seq(Seq(Nat))
    BY <2>1, SeqDef
  <2>3. Len(seqs) = n
    BY <1>3, <2>2, LenProperties
  <2> QED
    BY <1>1, <2>2, <2>3, EmptySeq
<1>7. PICK f : IsFlat(f, seqs, n) /\ FlattenSeq(seqs) = f[n]
  BY <1>6, FlatIs
<1>8. ASSUME NEW i \in 1..n
      PROVE  f[i] = IF i = 1 THEN seqs[i] ELSE f[i - 1] \o seqs[i]
  BY <1>7, Zenon DEF IsFlat
<1> DEFINE S == {k \in Nat : k \in 1..n => f[k] = Run(a, PickedUpTo(k, a, m))}
<1>9. 0 \in S
  OBVIOUS
<1>10. ASSUME NEW k \in Nat, k \in S PROVE k + 1 \in S
  <2> SUFFICES ASSUME k + 1 \in 1..n
               PROVE  f[k + 1] = Run(a, PickedUpTo(k + 1, a, m))
    OBVIOUS
  <2>1. PICK i, c : i = k + 1 /\ c = PickedUpTo(k, a, m)
    OBVIOUS
  <2>2. i \in 1..n /\ i - 1 = k
    BY <2>1
  <2>3. c \in Nat /\ (k = 0 => c = 0)
    BY <2>1 DEF PickedUpTo
  <2>4. f[i] = Run(a, c) \o seqs[i]
    <3>1. CASE k = 0
      <4>1. Run(a, c) = <<>>
        BY <2>3, <3>1, RunFacts
      <4>2. i = 1
        BY <2>1, <3>1
      <4>3. f[i] = seqs[i] /\ seqs[i] \in Seq(Nat)
        BY <1>2, <1>8, <2>2, <4>2
      <4> QED
        BY <4>1, <4>3, ConcatEmptySeq
    <3>2. CASE k # 0
      <4>1. k \in 1..n /\ i # 1
        BY <2>1, <2>2, <3>2
      <4>2. f[k] = Run(a, c)
        BY <1>10, <2>1, <4>1
      <4>3. f[i] = f[i - 1] \o seqs[i]
        BY <1>8, <2>2, <4>1, Zenon
      <4> QED
        BY <2>2, <4>2, <4>3
    <3> QED
      BY <3>1, <3>2
  <2>5. CASE a < i /\ i <= m
    <3>1. PickedUpTo(i, a, m) = c + 1 /\ a + c + 1 = i
      BY <2>1, <2>2, <2>5 DEF PickedUpTo
    <3>2. seqs[i] = <<a + c + 1>>
      BY <1>2, <2>2, <2>5, <3>1
    <3>3. Run(a, c) \o <<a + c + 1>> = Run(a, c + 1)
      BY <2>3, RunFacts
    <3> QED
      BY <2>1, <2>4, <3>1, <3>2, <3>3
  <2>6. CASE ~(a < i /\ i <= m)
    <3>1. PickedUpTo(i, a, m) = c
      BY <2>1, <2>2, <2>6 DEF PickedUpTo
    <3>2. seqs[i] = <<>>
      BY <1>2, <2>2, <2>6
    <3>3. Run(a, c) \in Seq(Nat)
      BY <2>3, RunFacts
    <3> QED
      BY <2>1, <2>4, <3>1, <3>2, <3>3, ConcatEmptySeq
  <2> QED
    BY <2>5, <2>6
<1> HIDE DEF S
<1>11. n \in S
  BY <1>9, <1>10, NatSetInduction
<1>12. PickedUpTo(n, a, m) = m - a
  BY DEF PickedUpTo
<1> QED
  BY <1>1, <1>5, <1>7, <1>11, <1>12 DEF S

\* What a range selects, and where: nothing when it begins behind n bytes, else
\* the bytes from there on, as many as it is long and as there are.
SelectedIs(g, n, o) ==
    /\ o.offset \in Nat
    /\ o.offset >= n => Selected(g, n) = {}
    /\ o.offset < n =>
         \E m \in Nat : /\ o.length \in Int /\ m = Min({o.offset + o.length, n})
                        /\ o.offset < m /\ m <= n
                        /\ Selected(g, n) = o.offset..(m - 1)

\* So it is for a range from its first byte b to its last, e.
LEMMA FromTo ==
  ASSUME NEW g, NEW n \in Nat, NEW o, NEW b \in Nat, NEW e \in Int,
         o.offset = b, b < n => b <= e /\ o.length = e - b + 1,
         \A i \in 0..(n - 1) : i \in Selected(g, n) <=> b <= i /\ i <= e
  PROVE  SelectedIs(g, n, o)
<1>1. Selected(g, n) \subseteq 0..(n - 1)
  BY DEF Selected
<1>2. CASE b >= n
  <2>1. Selected(g, n) = {}
    BY <1>1, <1>2
  <2> QED
    BY <1>2, <2>1 DEF SelectedIs
<1>3. CASE b < n
  <2>1. PICK m : m = IF e + 1 <= n THEN e + 1 ELSE n
    OBVIOUS
  <2>2. m \in Nat /\ b < m /\ m <= n
    BY <1>3, <2>1
  <2>3. b + o.length = e + 1 /\ o.length \in Int
    <3>1. PICK d : d = o.length
      OBVIOUS
    <3>2. d = e - b + 1
      BY <1>3, <3>1
    <3> QED
      BY <3>1, <3>2
  <2>4. m = Min({b + o.length, n})
    <3>1. Min({e + 1, n}) = IF e + 1 <= n THEN e + 1 ELSE n
      BY MinTwo
    <3> QED
      BY <2>1, <2>3, <3>1
  <2>5. Selected(g, n) = b..(m - 1)
    <3>1. \A i \in 0..(n - 1) : b <= i /\ i <= e <=> i \in b..(m - 1)
      BY <2>1, <2>2
    <3>2. b..(m - 1) \subseteq 0..(n - 1)
      BY <2>2
    <3> QED
      BY <1>1, <3>1, <3>2
  <2>6. b = o.offset
    OBVIOUS
  <2>7. \E k \in Nat : /\ o.length \in Int /\ k = Min({o.offset + o.length, n})
                       /\ o.offset < k /\ k <= n
                       /\ Selected(g, n) = o.offset..(k - 1)
    BY <2>2, <2>3, <2>4, <2>5, <2>6, Zenon
  <2>8. o.offset \in Nat /\ ~(o.offset >= n)
    BY <1>3, <2>6
  <2> QED
    BY <2>7, <2>8, Zenon DEF SelectedIs
<1> QED
  BY <1>2, <1>3

\* So it is for every range, in the size_t it is computed in.
LEMMA RangeSelects ==
  ASSUME NEW g \in RangeType, InOrder(g), NEW n \in Small, n > 0
  PROVE  SelectedIs(g, n, get_range_offset_and_length(g, n))
<1>1. PICK f, l, o : f = g.first /\ l = g.last /\ o = get_range_offset_and_length(g, n)
  OBVIOUS
<1>2. /\ SizeModulus \in Nat /\ SizeModulus >= 2 /\ n \in Nat /\ 2 * n + 2 <= SizeModulus
      /\ f \in Small \cup {-1} /\ l \in Small \cup {-1}
      /\ f # -1 => f \in Nat /\ 2 * f + 2 <= SizeModulus
      /\ l # -1 => l \in Nat /\ 2 * l + 2 <= SizeModulus
  BY <1>1, Sizes DEF RangeType
<1>3. ~(f # -1 /\ l # -1 /\ f > l)
  BY <1>1 DEF InOrder
<1>4. CASE f = -1 /\ l = -1
  <2>1. o = [offset |-> 0, length |-> n]
    BY <1>1, <1>4 DEF get_range_offset_and_length
  <2>2. o.offset = 0 /\ o.length = (n - 1) - 0 + 1 /\ 0 <= n - 1
    BY <1>2, <2>1
  <2>3. \A i \in 0..(n - 1) : i \in Selected(g, n) <=> 0 <= i /\ i <= n - 1
    BY <1>1, <1>2, <1>4 DEF Selected
  <2>4. PICK b, e : b = 0 /\ e = n - 1
    OBVIOUS
  <2>5. /\ b \in Nat /\ e \in Int /\ o.offset = b
        /\ b < n => b <= e /\ o.length = e - b + 1
        /\ \A i \in 0..(n - 1) : i \in Selected(g, n) <=> b <= i /\ i <= e
    BY <1>2, <2>2, <2>3, <2>4
  <2> QED
    BY <1>1, <1>2, <2>5, FromTo
<1>5. CASE ~(f = -1 /\ l = -1)
  <2>1. PICK b, e : /\ b = range_begin(g, n) /\ size_t(b) = b
                    /\ b = IF f = -1 THEN (IF 0 >= n - l THEN 0 ELSE n - l) ELSE f
                    /\ e = IF f = -1 \/ l = -1 THEN n - 1 ELSE l
    BY <1>1, <1>5, RangeBegins
  <2>2. o = [offset |-> b, length |-> size_t(size_t(e - b) + 1)]
    BY <1>1, <1>5, <2>1 DEF get_range_offset_and_length, range_end
  <2>3. /\ b \in Nat /\ e \in Int /\ (b < n => b <= e) /\ e + 2 <= SizeModulus
        /\ \A i \in 0..(n - 1) : i \in Selected(g, n) <=> b <= i /\ i <= e
    <3>1. CASE f = -1
      <4>1. b = (IF 0 >= n - l THEN 0 ELSE n - l) /\ l \in Nat
        BY <1>2, <1>5, <2>1, <3>1
      <4>2. e = n - 1
        BY <2>1, <3>1
      <4>3. \A i \in 0..(n - 1) : i \in Selected(g, n) <=> i >= n - l
        BY <1>1, <1>5, <3>1 DEF Selected
      <4> QED
        BY <1>2, <4>1, <4>2, <4>3
    <3>2. CASE f # -1 /\ l = -1
      <4>1. b = f /\ e = n - 1
        BY <2>1, <3>2
      <4>2. \A i \in 0..(n - 1) : i \in Selected(g, n) <=> i >= f
        BY <1>1, <3>2 DEF Selected
      <4> QED
        BY <1>2, <3>2, <4>1, <4>2
    <3>3. CASE f # -1 /\ l # -1
      <4>1. b = f /\ e = l /\ f <= l
        BY <1>2, <1>3, <2>1, <3>3
      <4>2. \A i \in 0..(n - 1) : i \in Selected(g, n) <=> f <= i /\ i <= l
        BY <1>1, <3>3 DEF Selected
      <4> QED
        BY <1>2, <3>3, <4>1, <4>2
    <3> QED
      BY <3>1, <3>2, <3>3
  <2>4. o.offset = b
    BY <2>2
  <2>5. b < n => o.length = e - b + 1
    <3> SUFFICES ASSUME b < n PROVE o.length = e - b + 1
      OBVIOUS
    <3>1. PICK d : d = e - b
      OBVIOUS
    <3>2. d \in Int /\ d >= -1 /\ d + 2 <= SizeModulus
      BY <1>2, <2>3, <3>1
    <3>3. size_t(size_t(d) + 1) = d + 1
      BY <3>2, RangeCount
    <3> QED
      BY <2>2, <3>1, <3>3
  <2> QED
    BY <1>1, <1>2, <2>3, <2>4, <2>5, FromTo
<1> QED
  BY <1>4, <1>5

\* The body of a content as long as n, and the part of a range that is cut of it.
LEMMA PartPicked ==
  ASSUME NEW g \in RangeType, InOrder(g), NEW n \in Small, n > 0,
         NEW o, o = get_range_offset_and_length(g, n)
  PROVE  /\ Selected(g, n) = {} <=> ~(o.offset < n)
         /\ o.offset < n =>
              /\ substr(Bytes(n), o.offset, o.length) = Picked(g, n)
              /\ Picked(g, n) \in Seq(Nat)
<1>1. SelectedIs(g, n, o) /\ n \in Nat
  BY RangeSelects, Sizes
<1>2. PICK a : a = o.offset
  OBVIOUS
<1>3. a \in Nat
  BY <1>1, <1>2 DEF SelectedIs
<1>4. CASE ~(a < n)
  <2>1. Selected(g, n) = {}
    BY <1>1, <1>2, <1>3, <1>4 DEF SelectedIs
  <2> QED
    BY <1>2, <1>4, <2>1
<1>5. CASE a < n
  <2>1. PICK m \in Nat : /\ o.length \in Int /\ m = Min({a + o.length, n})
                         /\ a < m /\ m <= n
                         /\ Selected(g, n) = a..(m - 1)
    BY <1>1, <1>2, <1>5 DEF SelectedIs
  <2>2. PICK length : length = o.length
    OBVIOUS
  <2>3. a \in Selected(g, n) /\ a <= m /\ m - a \in Nat
    BY <1>3, <2>1
  <2>4. substr(Bytes(n), a, o.length) = Run(a, m - a)
    <3>1. length \in Int /\ m = Min({a + length, n}) /\ n \in Nat
      BY <1>1, <2>1, <2>2
    <3>2. substr(Bytes(n), a, length) = Run(a, m - a)
      BY <1>3, <2>3, <3>1, SubstrRuns
    <3> QED
      BY <2>2, <3>2
  <2>5. Picked(g, n) = Run(a, m - a)
    <3>1. n \in Nat /\ a < m /\ m <= n /\ Selected(g, n) = a..(m - 1)
      BY <1>1, <2>1
    <3> QED
      BY <1>3, <3>1, PickedRuns
  <2>6. Run(a, m - a) \in Seq(Nat)
    BY <1>3, <2>3, RunFacts
  <2> QED
    BY <1>2, <1>5, <2>3, <2>4, <2>5, <2>6
<1> QED
  BY <1>4, <1>5

\* Several parts, each behind its text, are those with the text put before each.
LEMMA PartsJoined ==
  ASSUME NEW parts, NEW n \in Nat, n > 0, DOMAIN parts = 1..n,
         \A i \in 1..n : parts[i] \in Seq(Nat),
         NEW pieces, pieces = [i \in 1..n |-> Text(PartText) \o parts[i]]
  PROVE  process_multipart_ranges_data(parts) = FlattenSeq(pieces) \o Text(EndText)
<1>1. PICK acc : /\ acc[0] = <<>>
                 /\ process_multipart_ranges_data(parts) = acc[n] \o Text(EndText)
                 /\ \A i \in 0..n : acc[i] \in Seq(Nat)
                 /\ \A i \in 1..n :
                       /\ acc[i] = acc[i - 1] \o Text(PartText) \o parts[i]
                       /\ Len(acc[i]) = Len(acc[i - 1]) + PartText + Len(parts[i])
  BY PartsWritten
<1>2. PICK t : t = Text(PartText) /\ t \in Seq(Nat)
  BY RangeAssumption, TextIs DEF RangeAssumption
<1>3. ASSUME NEW i \in 1..n
      PROVE  pieces[i] = t \o parts[i] /\ pieces[i] \in Seq(Nat)
  <2>1. t \o parts[i] \in Seq(Nat)
    BY <1>2, ConcatProperties
  <2> QED
    BY <1>2, <2>1, Zenon
<1>4. pieces \in Seq(Seq(Nat)) /\ Len(pieces) = n /\ pieces # <<>>
  <2>1. DOMAIN pieces = 1..n /\ pieces = [i \in 1..n |-> pieces[i]]
    OBVIOUS
  <2>2. pieces \in [1..n -> Seq(Nat)]
    BY <1>3, <2>1, Zenon
  <2>3. pieces \in Seq(Seq(Nat))
    BY <2>2, SeqDef
  <2>4. Len(pieces) = n
    BY <2>1, <2>3, LenProperties
  <2>5. Len(<<>>) = 0 /\ n # 0
    BY EmptySeq
  <2> QED
    BY <2>3, <2>4, <2>5, Zenon
<1>5. PICK f : IsFlat(f, pieces, n) /\ FlattenSeq(pieces) = f[n]
  BY <1>4, FlatIs
<1>6. ASSUME NEW i \in 1..n
      PROVE  f[i] = IF i = 1 THEN pieces[i] ELSE f[i - 1] \o pieces[i]
  BY <1>5, Zenon DEF IsFlat
<1> DEFINE S == {k \in Nat : k \in 1..n => f[k] = acc[k]}
<1>7. 0 \in S
  OBVIOUS
<1>8. ASSUME NEW k \in Nat, k \in S PROVE k + 1 \in S
  <2> SUFFICES ASSUME k + 1 \in 1..n PROVE f[k + 1] = acc[k + 1]
    OBVIOUS
  <2>1. PICK i, p, a : i = k + 1 /\ p = parts[i] /\ a = acc[k]
    OBVIOUS
  <2>2. i \in 1..n /\ i - 1 = k /\ k \in 0..n
    BY <2>1
  <2>3. p \in Seq(Nat) /\ a \in Seq(Nat)
    BY <1>1, <2>1, <2>2
  <2>4. acc[i] = (a \o t) \o p
    BY <1>1, <1>2, <2>1, <2>2, Zenon
  <2>5. (a \o t) \o p = a \o (t \o p)
    <3>1. Regroups(Seq(Nat))
      BY SeqRegroups
    <3> QED
      BY <1>2, <2>3, <3>1, Zenon DEF Regroups
  <2>6. pieces[i] = t \o p
    BY <1>3, <2>1, <2>2, Zenon
  <2>7. t \o p \in Seq(Nat)
    BY <1>2, <2>3, ConcatProperties
  <2>8. f[i] = a \o (t \o p)
    <3>1. CASE k = 0
      <4>1. a = <<>> /\ i = 1
        BY <1>1, <2>1, <3>1
      <4>2. f[i] = t \o p
        BY <1>6, <2>2, <2>6, <4>1, Zenon
      <4>3. <<>> \o (t \o p) = t \o p
        BY <2>7, ConcatEmptySeq
      <4> QED
        BY <4>1, <4>2, <4>3, Zenon
    <3>2. CASE k # 0
      <4>1. k \in 1..n /\ i # 1
        BY <2>1, <2>2, <3>2
      <4>2. f[k] = a
        BY <1>8, <2>1, <4>1
      <4> QED
        BY <1>6, <2>2, <2>6, <4>1, <4>2, Zenon
    <3> QED
      BY <3>1, <3>2
  <2> QED
    BY <2>1, <2>4, <2>5, <2>8, Zenon
<1> HIDE DEF S
<1>9. n \in S
  BY <1>7, <1>8, NatSetInduction
<1>10. f[n] = acc[n]
  BY <1>9 DEF S
<1> QED
  BY <1>1, <1>5, <1>10, Zenon

\* What a client is to be sent of a content of n bytes.
RangedBody(ranges, n) ==
    LET none == \E i \in DOMAIN ranges : Selected(ranges[i], n) = {}
        part == [i \in DOMAIN ranges |-> Text(PartText) \o Picked(ranges[i], n)]
    IN IF ranges = <<>> THEN Bytes(n)
       ELSE IF none THEN <<>>
       ELSE IF Len(ranges) = 1 THEN Picked(ranges[1], n)
       ELSE FlattenSeq(part) \o Text(EndText)

\* A content has the bytes it is made of.
LEMMA BytesAre ==
  ASSUME NEW n \in Nat
  PROVE  /\ Bytes(n) \in Seq(Nat) /\ Len(Bytes(n)) = n
         /\ Bytes(n) = <<>> <=> n = 0
<1>1. Bytes(n) = Run(0, n)
  BY DEF Bytes, Run
<1>2. Run(0, n) \in Seq(Nat) /\ Len(Run(0, n)) = n
  BY RunFacts
<1>3. Run(0, n) = <<>> <=> n = 0
  BY <1>2, EmptySeq
<1> QED
  BY <1>1, <1>2, <1>3, Zenon

\* The parts of several ranges, if each of them selects something.
LEMMA ManyPicked ==
  ASSUME NEW ranges \in Seq(RangeType), \A i \in DOMAIN ranges : InOrder(ranges[i]),
         Len(ranges) > 1, NEW n \in Small, n > 0
  PROVE  make_multipart_ranges_data(ranges, Bytes(n)).data = RangedBody(ranges, n)
<1>1. PICK k, b : k = Len(ranges) /\ b = Bytes(n)
  OBVIOUS
<1>2. /\ k \in Nat /\ k > 1 /\ DOMAIN ranges = 1..k /\ ranges # <<>>
      /\ \A i \in 1..k : ranges[i] \in RangeType /\ InOrder(ranges[i])
  BY <1>1, LenProperties, ElementOfSeq, EmptySeq
<1>3. n \in Nat /\ Len(b) = n
  BY <1>1, Sizes, BytesAre
<1> DEFINE o(i) == get_range_offset_and_length(ranges[i], n)
           parts == [i \in DOMAIN ranges |-> substr(b, o(i).offset, o(i).length)]
           pieces == [i \in 1..k |-> Text(PartText) \o parts[i]]
           many == make_multipart_ranges_data(ranges, b)
<1>4. ASSUME NEW i \in 1..k
      PROVE  /\ Selected(ranges[i], n) = {} <=> ~(o(i).offset < n)
             /\ o(i).offset < n =>
                  /\ substr(b, o(i).offset, o(i).length) = Picked(ranges[i], n)
                  /\ Picked(ranges[i], n) \in Seq(Nat)
  <2>1. PICK g, q : g = ranges[i] /\ q = o(i)
    OBVIOUS
  <2>2. g \in RangeType /\ InOrder(g) /\ q = get_range_offset_and_length(g, n)
    BY <1>2, <2>1
  <2>3. /\ Selected(g, n) = {} <=> ~(q.offset < n)
        /\ q.offset < n =>
             /\ substr(Bytes(n), q.offset, q.length) = Picked(g, n)
             /\ Picked(g, n) \in Seq(Nat)
    BY <2>2, PartPicked
  <2> HIDE DEF o
  <2> QED
    BY <1>1, <2>1, <2>3, Zenon
<1>5. many = IF \A i \in DOMAIN ranges : o(i).offset < n
             THEN [ok |-> TRUE, data |-> process_multipart_ranges_data(parts)]
             ELSE [ok |-> FALSE, data |-> <<>>]
  BY <1>3 DEF make_multipart_ranges_data
<1>6. CASE \A i \in 1..k : o(i).offset < n
  <2>1. many.data = process_multipart_ranges_data(parts)
    <3> HIDE DEF parts, o
    <3>1. many = [ok |-> TRUE, data |-> process_multipart_ranges_data(parts)]
      BY <1>2, <1>5, <1>6, Zenon
    <3> HIDE DEF many
    <3> QED
      BY <3>1
  <2>2. ASSUME NEW i \in 1..k
        PROVE  parts[i] = Picked(ranges[i], n) /\ parts[i] \in Seq(Nat)
    <3>1. parts[i] = substr(b, o(i).offset, o(i).length)
      BY <1>2
    <3> HIDE DEF parts, o
    <3> QED
      BY <1>4, <1>6, <3>1, Zenon
  <2>3. DOMAIN parts = 1..k
    BY <1>2
  <2>4. pieces = [i \in DOMAIN ranges |-> Text(PartText) \o Picked(ranges[i], n)]
    <3> HIDE DEF parts
    <3> QED
      BY <1>2, <2>2, Zenon
  <2>5. process_multipart_ranges_data(parts) = FlattenSeq(pieces) \o Text(EndText)
    <3> HIDE DEF parts
    <3>1. PICK pc : pc = pieces
      OBVIOUS
    <3>2. pc = [i \in 1..k |-> Text(PartText) \o parts[i]]
      BY <3>1
    <3>3. k \in Nat /\ k > 0 /\ \A i \in 1..k : parts[i] \in Seq(Nat)
      BY <1>2, <2>2
    <3> HIDE DEF pieces
    <3>4. process_multipart_ranges_data(parts) = FlattenSeq(pc) \o Text(EndText)
      BY <2>3, <3>2, <3>3, PartsJoined
    <3> QED
      BY <3>1, <3>4, Zenon
  <2>6. ~\E i \in DOMAIN ranges : Selected(ranges[i], n) = {}
    <3> HIDE DEF o
    <3> QED
      BY <1>2, <1>4, <1>6, Zenon
  <2>7. k # 1
    BY <1>2
  <2>8. RangedBody(ranges, n) = FlattenSeq(pieces) \o Text(EndText)
    <3> HIDE DEF pieces
    <3> QED
      BY <1>1, <1>2, <2>4, <2>6, <2>7, Zenon DEF RangedBody
  <2> HIDE DEF many, parts, pieces
  <2>9. many.data = RangedBody(ranges, n)
    BY <2>1, <2>5, <2>8, Zenon
  <2> QED
    BY <1>1, <2>9 DEF many
<1>7. CASE \E i \in 1..k : ~(o(i).offset < n)
  <2>1. \E i \in DOMAIN ranges : Selected(ranges[i], n) = {}
    <3> HIDE DEF o
    <3> QED
      BY <1>2, <1>4, <1>7, Zenon
  <2>2. RangedBody(ranges, n) = <<>>
    BY <1>2, <2>1, Zenon DEF RangedBody
  <2>3. many = [ok |-> FALSE, data |-> <<>>]
    <3> HIDE DEF o, parts
    <3> QED
      BY <1>2, <1>5, <1>7, Zenon
  <2> HIDE DEF many
  <2>4. many.data = <<>>
    BY <2>3
  <2> QED
    BY <1>1, <2>2, <2>4 DEF many
<1> QED
  BY <1>6, <1>7

\* What is left of a body when the ranges have been applied to it.
LEMMA BodyRanged ==
  ASSUME NEW ranges \in Seq(RangeType), \A i \in DOMAIN ranges : InOrder(ranges[i]),
         NEW n \in 0..MaxContent,
         NEW x, Made(x), x.provider = "none", x.body = Bytes(n)
  PROVE  with_length(apply_ranges(ranges, x)).body = RangedBody(ranges, n)
<1>1. n \in Small /\ n \in Nat
  BY Sizes DEF Small
<1>2. PICK y, k : y = apply_ranges(ranges, x) /\ k = Len(ranges)
  OBVIOUS
<1>3. /\ k \in Nat /\ DOMAIN ranges = 1..k /\ (ranges = <<>> <=> k = 0)
      /\ \A i \in 1..k : ranges[i] \in RangeType
  BY <1>2, LenProperties, ElementOfSeq, EmptySeq
<1>4. x.body \in Seq(Nat) /\ Len(x.body) = n /\ (x.body = <<>> <=> n = 0)
  BY <1>1, BytesAre
<1>5. ASSUME "body" \in DOMAIN y PROVE with_length(y).body = y.body
  <2>1. CASE with_length(y) = y
    BY <2>1
  <2>2. CASE with_length(y) = [y EXCEPT !.length = 0]
    <3>1. PICK z : z = [y EXCEPT !.length = 0]
      OBVIOUS
    <3>2. z.body = y.body
      BY <1>5, <3>1
    <3> QED
      BY <2>2, <3>1, <3>2
  <2> QED
    BY <2>1, <2>2 DEF with_length
<1>6. "body" \in DOMAIN x /\ x.content_length_ = 0
  BY DEF Made, ResType
<1>7. CASE n = 0
  <2>1. x.body = <<>>
    BY <1>4, <1>7
  <2>2. y = [x EXCEPT !.chunked = (x.provider = "chunked")]
    BY <1>2, <1>6, <2>1 DEF apply_ranges
  <2>3. "body" \in DOMAIN y /\ y.body = <<>>
    BY <1>6, <2>1, <2>2
  <2>4. ASSUME NEW g PROVE Selected(g, 0) = {}
    BY DEF Selected
  <2>5. RangedBody(ranges, 0) = <<>>
    <3>1. CASE ranges = <<>>
      <4>1. Bytes(0) = <<>>
        BY BytesAre
      <4> QED
        BY <3>1, <4>1, Zenon DEF RangedBody
    <3>2. CASE ranges # <<>>
      <4>1. 1 \in DOMAIN ranges
        BY <1>3, <3>2
      <4>2. \E i \in DOMAIN ranges : Selected(ranges[i], 0) = {}
        BY <2>4, <4>1
      <4> QED
        BY <3>2, <4>2, Zenon DEF RangedBody
    <3> QED
      BY <3>1, <3>2
  <2> QED
    BY <1>2, <1>5, <1>7, <2>3, <2>5, Zenon
<1>8. CASE n > 0
  <2>1. x.body # <<>>
    BY <1>4, <1>8
  <2> DEFINE one == get_range_offset_and_length(ranges[1], n)
             many == make_multipart_ranges_data(ranges, x.body)
             body == CASE k = 0 -> x.body
                       [] k = 1 -> IF one.offset < n
                                   THEN substr(x.body, one.offset, one.length) ELSE <<>>
                       [] OTHER -> many.data
  <2>2. y = [x EXCEPT !.body = body, !.length = Len(body)]
    BY <1>2, <1>4, <2>1, Zenon DEF apply_ranges
  <2>3. "body" \in DOMAIN y /\ y.body = body
    <3> HIDE DEF body
    <3> QED
      BY <1>6, <2>2
  <2>4. body = RangedBody(ranges, n)
    <3>1. CASE k = 0
      <4>1. ranges = <<>>
        BY <1>3, <3>1
      <4>2. RangedBody(ranges, n) = Bytes(n)
        BY <4>1, Zenon DEF RangedBody
      <4> HIDE DEF one, many
      <4>3. body = x.body
        BY <3>1
      <4> QED
        BY <4>2, <4>3, Zenon
    <3>2. CASE k = 1
      <4>1. PICK g, q : g = ranges[1] /\ q = one
        OBVIOUS
      <4>2. /\ g \in RangeType /\ InOrder(g) /\ ranges # <<>> /\ DOMAIN ranges = {1}
            /\ q = get_range_offset_and_length(g, n)
        BY <1>3, <3>2, <4>1
      <4>3. /\ Selected(g, n) = {} <=> ~(q.offset < n)
            /\ q.offset < n => substr(Bytes(n), q.offset, q.length) = Picked(g, n)
        BY <1>1, <1>8, <4>2, PartPicked
      <4> HIDE DEF one, many
      <4>4. body = IF q.offset < n THEN substr(x.body, q.offset, q.length) ELSE <<>>
        BY <3>2, <4>1
      <4>5. RangedBody(ranges, n) = IF Selected(g, n) = {} THEN <<>> ELSE Picked(g, n)
        <5>1. (\E i \in DOMAIN ranges : Selected(ranges[i], n) = {})
                <=> Selected(g, n) = {}
          BY <4>1, <4>2
        <5> QED
          BY <1>2, <3>2, <4>1, <4>2, <5>1, Zenon DEF RangedBody
      <4> HIDE DEF body
      <4> QED
        BY <4>3, <4>4, <4>5, Zenon
    <3>3. CASE k > 1
      <4>1. make_multipart_ranges_data(ranges, Bytes(n)).data = RangedBody(ranges, n)
        BY <1>1, <1>2, <1>8, <3>3, ManyPicked
      <4>2. many.data = RangedBody(ranges, n)
        BY <4>1, Zenon
      <4> HIDE DEF one, many
      <4>3. body = many.data
        BY <3>3
      <4> QED
        BY <4>2, <4>3, Zenon
    <3> QED
      BY <1>3, <3>1, <3>2, <3>3
  <2> HIDE DEF body
  <2> QED
    BY <1>2, <1>5, <2>3, <2>4, Zenon
<1> QED
  BY <1>1, <1>7, <1>8
-----------------------------------------------------------------------------
\* The body that was routed is there until it is written, and what is written of
\* it is what its ranges select.
RangesInv ==
    /\ at = "write" /\ routed # "no" =>
            /\ req \in Requests /\ parse_range_header(req.ranges)
            /\ Made(res) /\ res.status = "unset"
            /\ res.provider = "none" =>
                  answered \in 0..MaxContent /\ res.body = Bytes(answered)
    /\ RangesExact

\* A handler's response without a provider has the bytes that are counted.
LEMMA AnswersCounted ==
  ASSUME NEW a \in Answers, a.provider = "none"
  PROVE  Len(a.body) \in 0..MaxContent /\ a.body = Bytes(Len(a.body))
<1>1. MaxContent \in Nat
  BY Sizes
<1>2. ASSUME NEW n \in 0..MaxContent, a.body = Bytes(n)
      PROVE  Len(a.body) \in 0..MaxContent /\ a.body = Bytes(Len(a.body))
  <2>1. n \in Nat
    BY <1>1
  <2>2. Len(Bytes(n)) = n
    BY <2>1, BytesAre
  <2> QED
    BY <1>2, <2>2, Zenon
<1>3. CASE a = Empty
  <2>1. 0 \in 0..MaxContent /\ Bytes(0) = <<>>
    BY <1>1, BytesAre
  <2>2. a.body = Bytes(0)
    BY <1>3, <2>1, EmptyMade
  <2> QED
    BY <1>2, <2>1, <2>2
<1>4. ASSUME NEW n \in 1..MaxContent, a = [Empty EXCEPT !.body = Bytes(n)]
      PROVE  Len(a.body) \in 0..MaxContent /\ a.body = Bytes(Len(a.body))
  <2>1. n \in 0..MaxContent /\ a.body = Bytes(n)
    BY <1>1, <1>4 DEF Empty
  <2> QED
    BY <1>2, <2>1
<1>5. ASSUME NEW n \in 1..MaxContent,
             a = [Empty EXCEPT !.provider = "length", !.content_length_ = n]
      PROVE  FALSE
  BY <1>5 DEF Empty
<1>6. ASSUME NEW p \in {"chunked", "unknown"}, a = [Empty EXCEPT !.provider = p]
      PROVE  FALSE
  BY <1>6 DEF Empty
<1> QED
  BY <1>3, <1>4, <1>5, <1>6 DEF Answers

\* What is routed is kept.
LEMMA RoutedKeepsRanges ==
  ASSUME ExchangeInv, at \in {"route", "answer"}, req' = req,
         NEW by, NEW thrown, Handled(by, thrown)
  PROVE  RangesInv'
<1>1. /\ at' = "write" /\ answered' = Len(res'.body) /\ routed = "no"
      /\ req \in Requests /\ parse_range_header(req.ranges)
  BY DEF ExchangeInv, ReadyInv, Handled
<1>2. RangesExact'
  BY <1>1 DEF RangesExact
<1>3. ASSUME Made(res'), res'.status = "unset",
             res'.provider = "none" =>
                answered' \in 0..MaxContent /\ res'.body = Bytes(answered')
      PROVE  RangesInv'
  BY <1>1, <1>2, <1>3 DEF RangesInv
<1>4. CASE res' \in Answers
  <2>1. Made(res') /\ res'.status = "unset"
    BY <1>4, AnswersMade
  <2>2. res'.provider = "none" =>
            Len(res'.body) \in 0..MaxContent /\ res'.body = Bytes(Len(res'.body))
    BY <1>4, AnswersCounted
  <2> QED
    BY <1>1, <1>3, <2>1, <2>2, Zenon
<1>5. CASE routed' = routed
  BY <1>1, <1>2, <1>5 DEF RangesInv
<1> QED
  BY <1>4, <1>5 DEF Handled

\* What is written has the bytes that the ranges select.
LEMMA WriteKeepsRanges ==
  ASSUME RangesInv, WriteResponse
  PROVE  RangesInv'
<1>1. at = "write" /\ at' = "written" /\ req' = req /\ routed' = routed /\ answered' = answered
  BY DEF WriteResponse
<1> SUFFICES ASSUME routed # "no", req.method # "HEAD", res'.provider = "none",
                    ~Narrowed
             PROVE  wire'.content = RangedBody(req.ranges, answered)
  BY <1>1 DEF RangesInv, RangesExact, RangedBody, Narrowed
<1>2. /\ req \in Requests /\ parse_range_header(req.ranges)
      /\ Made(res) /\ res.status = "unset"
      /\ res.provider = "none" =>
            answered \in 0..MaxContent /\ res.body = Bytes(answered)
  BY <1>1 DEF RangesInv
<1>3. res' = with_length(apply_ranges(parsed_ranges(req.ranges), res))
  BY <1>2 DEF WriteResponse
<1>4. res.provider = "none"
  BY <1>2, <1>3, RangesKeep DEF Keeps
<1>5. /\ parsed_ranges(req.ranges) = req.ranges /\ req.ranges \in Seq(RangeType)
      /\ \A i \in DOMAIN req.ranges : InOrder(req.ranges[i])
  <2>1. req.ranges \in Seq(GivenType)
    BY <1>2, ExchangeAssumption DEF ExchangeAssumption, RequestType, GivenType
  <2> QED
    BY <1>2, <2>1, RangesParsed DEF Narrowed
<1>6. res'.body = RangedBody(req.ranges, answered)
  BY <1>2, <1>3, <1>4, <1>5, BodyRanged
<1>7. wire' = written(res')
  BY DEF WriteResponse, written
<1>8. wire'.content = res'.body
  <2>1. wire'.content = IF res'.body # <<>> THEN res'.body ELSE <<>>
    BY <1>7 DEF written
  <2> QED
    BY <2>1
<1> QED
  BY <1>6, <1>8

\* RangesExact (apply_ranges and write_response_core of httplib::Server): a body
\* is answered with the bytes that the ranges select, for bodies of any length and
\* any ranges whose numbers fit into an ssize_t, in the size_t the server counts
\* in.
THEOREM RangesAlwaysExact == ExchangeSpec => []RangesExact
<1>1. ExchangeInit => RangesInv
  BY DEF ExchangeInit, RangesInv, RangesExact
<1>2. ASSUME ExchangeInv, RangesInv, [ExchangeNext]_exchangeVars PROVE RangesInv'
  <2>1. CASE RouteEarly \/ RouteReader \/ Answer
    <3>1. at \in {"route", "answer"} /\ req' = req
      BY <2>1 DEF RouteEarly, RouteReader, Answer
    <3>2. CASE \E by, thrown : Handled(by, thrown)
      BY <1>2, <3>1, <3>2, RoutedKeepsRanges
    <3>3. CASE at' = "write" /\ routed' = routed
      <4>1. routed = "no"
        BY <1>2, <3>1 DEF ExchangeInv, ReadyInv
      <4> QED
        BY <3>3, <4>1 DEF RangesInv, RangesExact
    <3> QED
      BY <2>1, <3>2, <3>3 DEF RouteEarly, RouteReader, Answer, Responds
  <2>2. CASE WriteResponse
    BY <1>2, <2>2, WriteKeepsRanges
  <2>3. CASE LongLine \/ BadLine \/ BadRange \/ Headers \/ RouteContent \/ RouteOther
    <3>1. at \in {"line", "route"} /\ routed' = routed /\ at' # "written"
      BY <2>3 DEF LongLine, BadLine, BadRange, Headers, RouteContent, RouteOther, Responds
    <3>2. routed' = "no"
      BY <1>2, <3>1 DEF ExchangeInv, ReadyInv
    <3> QED
      BY <3>1, <3>2 DEF RangesInv, RangesExact
  <2>4. CASE UNCHANGED exchangeVars
    BY <1>2, <2>4 DEF exchangeVars, RangesInv, RangesExact, Narrowed, Made
  <2> QED
    BY <1>2, <2>1, <2>2, <2>3, <2>4 DEF ExchangeNext
<1>3. RangesInv => RangesExact
  BY DEF RangesInv
<1> QED
  BY <1>1, <1>2, <1>3, ExchangeInvariance, PTL DEF ExchangeSpec
=============================================================================
