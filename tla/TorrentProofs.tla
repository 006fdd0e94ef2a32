---------------------------- MODULE TorrentProofs ---------------------------
(***************************************************************************)
(* Proofs about what the client makes of a torrent's metainfo.  The hash,  *)
(* for blocks of any size and messages of any bytes: nothing of a message  *)
(* is lost however it is cut into updates, and it is padded as FIPS 180    *)
(* says.  The request: the parts of an announce URL make up the URL, and   *)
(* the tracker reads the digest, for words and digests of any size.  The   *)
(* bitfield, for torrents of any length with pieces of any length and      *)
(* files of any content: it implements the set of pieces of PieceSet.      *)
(*                                                                         *)
(* And the sockets of its peers, for any number of peers and of sockets    *)
(* and any client: what the destructor guarantees whatever is called, and  *)
(* which calls keep one socket per connection.                             *)
(***************************************************************************)
EXTENDS Announce, Bitfield, PeerSockets, SequenceLemmas

\* What the hash has cut off, buffered and not yet read make up the message.
\* A block is a block of bytes, as many as were counted.
HashInv ==
    /\ digest \in Seq(Seq(Int)) /\ buffer \in Seq(Int) /\ message \in Seq(Int)
    /\ transforms \in Nat
    /\ is \in [open : BOOLEAN, rest : Seq(Int)]
    /\ ~is.open => is.rest = <<>>
    /\ Len(buffer) < BLOCK_BYTES
    /\ FlattenSeq(digest) \in Seq(Int)
    /\ Len(FlattenSeq(digest)) = transforms * BLOCK_BYTES
    /\ (FlattenSeq(digest) \o buffer) \o is.rest = message
    /\ FinalHashesMessage

USE BlockAssumption DEF BlockAssumption

\* Nothing has no parts.
LEMMA FlattenEmpty == FlattenSeq(<<>>) = <<>>
<1>1. Len(<<>>) = 0
  BY EmptySeq
<1> QED
  BY <1>1 DEF FlattenSeq

\* One turn of the loop in update(), on the sequences it moves bytes between: a
\* buffer b takes some of the rest, and is full or there is no rest.
LEMMA FillMoves ==
  ASSUME NEW b \in Seq(Int), NEW rest \in Seq(Int), Len(b) < BLOCK_BYTES
  PROVE  LET n    == Min({BLOCK_BYTES - Len(b), Len(rest)})
             full == b \o SubSeq(rest, 1, n)
             left == SubSeq(rest, n + 1, Len(rest))
         IN /\ full \in Seq(Int) /\ Len(full) <= BLOCK_BYTES /\ left \in Seq(Int)
            /\ full \o left = b \o rest
            /\ Len(full) # BLOCK_BYTES => full = b \o rest
<1> DEFINE n    == Min({BLOCK_BYTES - Len(b), Len(rest)})
           head == SubSeq(rest, 1, n)
           full == b \o head
           left == SubSeq(rest, n + 1, Len(rest))
<1>1. Len(b) \in Nat /\ Len(rest) \in Nat /\ BLOCK_BYTES - Len(b) \in Nat
  BY LenProperties
<1>2. n = IF BLOCK_BYTES - Len(b) <= Len(rest) THEN BLOCK_BYTES - Len(b) ELSE Len(rest)
  <2>1. BLOCK_BYTES - Len(b) \in Int /\ Len(rest) \in Int
    BY <1>1
  <2> QED
    BY <2>1, MinTwo, Zenon
<1> HIDE DEF n
<1>3. n \in 0..Len(rest) /\ n <= BLOCK_BYTES - Len(b)
      /\ (n # Len(rest) => n = BLOCK_BYTES - Len(b))
  BY <1>1, <1>2
<1>4. /\ head \in Seq(Int) /\ Len(head) = n /\ left \in Seq(Int) /\ head \o left = rest
  BY <1>3, CutSeq
<1>5. n = Len(rest) => head = rest
  BY SubSeqFull
<1> HIDE DEF head, left
<1>6. full \in Seq(Int) /\ Len(full) = Len(b) + n
  BY <1>4, ConcatProperties
<1>7. full \o left = b \o rest
  <2>1. head \in Seq(Int) /\ left \in Seq(Int)
    BY <1>4
  <2>2. full \o left = b \o (head \o left)
    <3>1. Regroups(Seq(Int))
      BY SeqRegroups
    <3> QED
      BY <2>1, <3>1, Zenon DEF Regroups
  <2> QED
    BY <1>4, <2>2
<1>8. n = Len(rest) => full = b \o rest
  BY <1>5
<1> HIDE DEF full
<1>9. Len(full) <= BLOCK_BYTES /\ (Len(full) # BLOCK_BYTES => full = b \o rest)
  <2>1. Len(full) = Len(b) + n /\ n \in Int /\ BLOCK_BYTES \in Int
    BY <1>1, <1>3, <1>6
  <2>2. Len(full) # BLOCK_BYTES => n = Len(rest)
    BY <1>1, <1>3, <2>1
  <2>3. Len(full) <= BLOCK_BYTES
    BY <1>1, <1>3, <2>1
  <2> QED
    BY <1>8, <2>2, <2>3, Zenon
<1> QED
  BY <1>4, <1>6, <1>7, <1>9 DEF n, head, left, full

\* A block that goes to the digest.
LEMMA DigestGrows ==
  ASSUME NEW T, NEW d \in Seq(Seq(T)), NEW block \in Seq(T)
  PROVE  /\ transform(d, block) \in Seq(Seq(T))
         /\ FlattenSeq(d) \in Seq(T)
         /\ FlattenSeq(transform(d, block)) = FlattenSeq(d) \o block
         /\ FlattenSeq(transform(d, block)) \in Seq(T)
<1>1. transform(d, block) \in Seq(Seq(T))
  BY AppendProperties DEF transform
<1>2. FlattenSeq(d) \in Seq(T) /\ FlattenSeq(transform(d, block)) = FlattenSeq(d) \o block
  BY FlattenAppend DEF transform
<1> QED
  BY <1>1, <1>2, ConcatProperties

\* Nothing has been hashed.
LEMMA HashInitInv == HashInit => HashInv
<1> SUFFICES ASSUME HashInit PROVE HashInv
  OBVIOUS
<1>1. /\ <<>> \in Seq(Int) /\ <<>> \in Seq(Seq(Int)) /\ Len(<<>>) = 0
      /\ (<<>> \o <<>>) \o <<>> = <<>>
  BY EmptySeq, ConcatEmptySeq
<1>2. is \in [open : BOOLEAN, rest : Seq(Int)] /\ is.rest = <<>>
  BY <1>1 DEF HashInit, NoStream
<1>3. FinalHashesMessage
  BY DEF HashInit, NoResult, FinalHashesMessage
<1> QED
  BY <1>1, <1>2, <1>3, FlattenEmpty DEF HashInit, HashInv

\* update(s) adds s to the stream and to the message.
LEMMA UpdateInv ==
  ASSUME HashInv, NEW s \in Seq(Int), Update(s)
  PROVE  HashInv'
<1>1. /\ is' = [open |-> TRUE, rest |-> s] /\ message' = message \o s
      /\ result' = NoResult /\ UNCHANGED <<digest, buffer, transforms>>
      /\ is.rest = <<>>
  BY DEF Update, HashInv
<1>2. is' \in [open : BOOLEAN, rest : Seq(Int)] /\ is'.open /\ is'.rest = s
  BY <1>1
<1>3. FinalHashesMessage'
  BY <1>1 DEF FinalHashesMessage, NoResult
<1>4. message = FlattenSeq(digest) \o buffer /\ message' \in Seq(Int)
  <2>1. FlattenSeq(digest) \o buffer \in Seq(Int)
    BY ConcatProperties DEF HashInv
  <2> QED
    BY <1>1, <2>1, ConcatEmptySeq, ConcatProperties DEF HashInv
<1> QED
  BY <1>1, <1>2, <1>3, <1>4 DEF HashInv

\* A turn of the loop moves bytes from the stream on, and none of them away.
LEMMA FillInv ==
  ASSUME HashInv, Fill
  PROVE  HashInv'
<1> DEFINE n == Min({BLOCK_BYTES - Len(buffer), Len(is.rest)})
           full == buffer \o SubSeq(is.rest, 1, n)
           left == SubSeq(is.rest, n + 1, Len(is.rest))
<1>1. /\ full \in Seq(Int) /\ Len(full) <= BLOCK_BYTES /\ left \in Seq(Int)
      /\ full \o left = buffer \o is.rest
      /\ Len(full) # BLOCK_BYTES => full = buffer \o is.rest
  <2>1. is.rest \in Seq(Int) /\ buffer \in Seq(Int) /\ Len(buffer) < BLOCK_BYTES
    BY DEF HashInv
  <2> QED
    BY <2>1, FillMoves
<1>2. FlattenSeq(digest) \in Seq(Int) /\ buffer \in Seq(Int) /\ is.rest \in Seq(Int)
      /\ message = FlattenSeq(digest) \o (buffer \o is.rest)
  <2>1. FlattenSeq(digest) \in Seq(Int) /\ buffer \in Seq(Int) /\ is.rest \in Seq(Int)
    BY DEF HashInv
  <2>2. (FlattenSeq(digest) \o buffer) \o is.rest
            = FlattenSeq(digest) \o (buffer \o is.rest)
    <3>1. Regroups(Seq(Int))
      BY SeqRegroups
    <3> QED
      BY <2>1, <3>1, Zenon DEF Regroups
  <2> QED
    BY <2>1, <2>2 DEF HashInv
<1>3. UNCHANGED <<message, result>>
  BY DEF Fill
<1>4. FinalHashesMessage'
  BY <1>3 DEF HashInv, FinalHashesMessage
<1>5. CASE Len(full) # BLOCK_BYTES
  <2>1. buffer' = full /\ is' = NoStream /\ UNCHANGED <<digest, transforms>>
    BY <1>5 DEF Fill
  <2>2. is' \in [open : BOOLEAN, rest : Seq(Int)] /\ is'.rest = <<>>
    BY <2>1, EmptySeq DEF NoStream
  <2>3. Len(full) < BLOCK_BYTES
    <3>1. Len(full) \in Nat
      BY <1>1, LenProperties
    <3> HIDE DEF full
    <3>2. Len(full) <= BLOCK_BYTES /\ BLOCK_BYTES \in Nat
      BY <1>1, BlockAssumption DEF BlockAssumption
    <3> QED
      BY <1>5, <3>1, <3>2
  <2>4. (FlattenSeq(digest) \o full) \o <<>> = message
    <3>1. FlattenSeq(digest) \o full = message
      BY <1>1, <1>2, <1>5
    <3> QED
      BY <3>1, ConcatEmptySeq DEF HashInv
  <2> HIDE DEF full
  <2> QED
    BY <1>1, <1>3, <1>4, <2>1, <2>2, <2>3, <2>4 DEF HashInv
<1>6. CASE Len(full) = BLOCK_BYTES
  <2>1. /\ digest' = transform(digest, full) /\ transforms' = transforms + 1
        /\ buffer' = <<>> /\ is' = [is EXCEPT !.rest = left]
    BY <1>6 DEF Fill
  <2>2. is' \in [open : BOOLEAN, rest : Seq(Int)] /\ is'.rest = left /\ is'.open
    BY <1>1, <2>1 DEF HashInv, Fill
  <2> HIDE DEF full, left
  <2>3. /\ digest' \in Seq(Seq(Int)) /\ FlattenSeq(digest') = FlattenSeq(digest) \o full
        /\ FlattenSeq(digest') \in Seq(Int)
    <3>1. digest \in Seq(Seq(Int)) /\ full \in Seq(Int)
      BY <1>1 DEF HashInv
    <3>2. /\ transform(digest, full) \in Seq(Seq(Int))
          /\ FlattenSeq(digest) \in Seq(Int)
          /\ FlattenSeq(transform(digest, full)) = FlattenSeq(digest) \o full
          /\ FlattenSeq(transform(digest, full)) \in Seq(Int)
      BY <3>1, DigestGrows
    <3> QED
      BY <2>1, <3>2, Zenon
  <2>4. Len(FlattenSeq(digest')) = transforms' * BLOCK_BYTES /\ transforms' \in Nat
    <3>1. Len(FlattenSeq(digest')) = transforms * BLOCK_BYTES + BLOCK_BYTES
      <4>1. full \in Seq(Int) /\ FlattenSeq(digest) \in Seq(Int)
        BY <1>1, <1>2
      <4>2. Len(FlattenSeq(digest) \o full) = Len(FlattenSeq(digest)) + Len(full)
        BY <4>1, ConcatProperties
      <4> QED
        BY <1>6, <2>3, <4>2 DEF HashInv
    <3>2. transforms \in Nat /\ BLOCK_BYTES \in Nat
      BY DEF HashInv
    <3>3. (transforms + 1) * BLOCK_BYTES = transforms * BLOCK_BYTES + BLOCK_BYTES
      BY <3>2
    <3> QED
      BY <2>1, <3>1, <3>2, <3>3
  <2>5. (FlattenSeq(digest') \o <<>>) \o left = message
    <3>1. FlattenSeq(digest') \o <<>> = FlattenSeq(digest')
      BY <2>3, ConcatEmptySeq
    <3>2. (FlattenSeq(digest) \o full) \o left = FlattenSeq(digest) \o (full \o left)
      <4>1. full \in Seq(Int) /\ FlattenSeq(digest) \in Seq(Int) /\ left \in Seq(Int)
        BY <1>1, <1>2
      <4>2. Regroups(Seq(Int))
        BY SeqRegroups
      <4> QED
        BY <4>1, <4>2, Zenon DEF Regroups
    <3> QED
      BY <1>1, <1>2, <2>3, <3>1, <3>2
  <2>6. buffer' \in Seq(Int) /\ Len(buffer') < BLOCK_BYTES
    BY <2>1, EmptySeq
  <2> QED
    BY <1>3, <1>4, <2>1, <2>2, <2>3, <2>4, <2>5, <2>6 DEF HashInv
<1> QED
  BY <1>5, <1>6

\* Two multiples of the size of a block less than a block apart are the same.
LEMMA MultiplesApart ==
  ASSUME NEW x \in Int, NEW y \in Int, x - y < BLOCK_BYTES, y - x < BLOCK_BYTES,
         NEW p \in Int, x = BLOCK_BYTES * p, NEW q \in Int, y = BLOCK_BYTES * q
  PROVE  x = y
<1>1. BLOCK_BYTES \in Nat /\ BLOCK_BYTES > 0
  OBVIOUS
<1>2. x - y = BLOCK_BYTES * (p - q)
  OBVIOUS
<1>3. CASE p - q >= 1
  <2>1. BLOCK_BYTES * (p - q) >= BLOCK_BYTES
    BY <1>1, <1>3
  <2> QED
    BY <1>1, <1>2, <2>1
<1>4. CASE p - q <= -1
  <2>1. BLOCK_BYTES * (q - p) >= BLOCK_BYTES
    BY <1>1, <1>4
  <2>2. y - x = BLOCK_BYTES * (q - p)
    OBVIOUS
  <2> QED
    BY <1>1, <2>1, <2>2
<1>5. CASE p = q
  BY <1>5
<1> QED
  BY <1>3, <1>4, <1>5

\* The remainder of a multiple of the size of a block.
LEMMA MultipleMod ==
  ASSUME NEW x \in Nat
  PROVE  /\ \A p \in Int : x = BLOCK_BYTES * p => x % BLOCK_BYTES = 0
         /\ x % BLOCK_BYTES = 0 => \E p \in Int : x = BLOCK_BYTES * p
<1>1. /\ BLOCK_BYTES \in Nat \ {0} /\ x \div BLOCK_BYTES \in Int
      /\ x % BLOCK_BYTES \in 0..(BLOCK_BYTES - 1)
      /\ x = BLOCK_BYTES * (x \div BLOCK_BYTES) + (x % BLOCK_BYTES)
  OBVIOUS
<1>2. ASSUME NEW p \in Int, x = BLOCK_BYTES * p PROVE x % BLOCK_BYTES = 0
  <2>1. PICK y \in Int : y = BLOCK_BYTES * (x \div BLOCK_BYTES)
    BY <1>1
  <2>2. x - y < BLOCK_BYTES /\ y - x < BLOCK_BYTES
    BY <1>1, <2>1
  <2>3. x = y
    BY <1>1, <1>2, <2>1, <2>2, MultiplesApart
  <2> QED
    BY <1>1, <2>1, <2>3
<1> QED
  BY <1>1, <1>2

\* There is one number of zeros below the size of a block that fills it up.
LEMMA ZerosUnique ==
  ASSUME NEW n \in Nat, NEW z \in 0..(BLOCK_BYTES - 1), NEW p \in Int,
         n + 1 + z + LengthBytes = BLOCK_BYTES * p
  PROVE  (CHOOSE y \in 0..(BLOCK_BYTES - 1) :
             (n + 1 + y + LengthBytes) % BLOCK_BYTES = 0) = z
<1>1. \A x \in Nat : (\E m \in Int : x = BLOCK_BYTES * m) <=> x % BLOCK_BYTES = 0
  BY MultipleMod
<1>2. PICK v \in Nat : v = n + 1 + z + LengthBytes
  OBVIOUS
<1>3. v % BLOCK_BYTES = 0
  BY <1>1, <1>2
<1>4. ASSUME NEW y \in 0..(BLOCK_BYTES - 1),
             (n + 1 + y + LengthBytes) % BLOCK_BYTES = 0
      PROVE  y = z
  <2>1. PICK u \in Nat : u = n + 1 + y + LengthBytes
    OBVIOUS
  <2>2. u - v < BLOCK_BYTES /\ v - u < BLOCK_BYTES
    BY <1>2, <2>1
  <2>3. PICK q \in Int : u = BLOCK_BYTES * q
    BY <1>1, <1>4, <2>1
  <2>4. u = v
    <3>1. u \in Int /\ v \in Int /\ v = BLOCK_BYTES * p
      BY <1>2
    <3> QED
      BY <2>2, <2>3, <3>1, MultiplesApart
  <2> QED
    BY <1>2, <2>1, <2>4
<1> QED
  BY <1>2, <1>3, <1>4

\* Zeros behind zeros, and zeros that are cut off.
LEMMA RepeatZeros ==
  ASSUME NEW T, 0 \in T, NEW n \in Nat
  PROVE  Repeat(0, n) \in Seq(T) /\ Len(Repeat(0, n)) = n
<1>1. Repeat(0, n) \in [1..n -> T]
  BY DEF Repeat
<1> QED
  BY <1>1, SeqDef, LenProperties DEF Repeat

\* Zeros behind zeros.
LEMMA MoreZeros ==
  ASSUME NEW m \in Nat, NEW n \in Nat
  PROVE  Repeat(0, m) \o Repeat(0, n) = Repeat(0, m + n)
<1>1. PICK s, t, u : s = Repeat(0, m) /\ t = Repeat(0, n) /\ u = Repeat(0, m + n)
  OBVIOUS
<1>2. /\ s \in Seq(Int) /\ Len(s) = m /\ t \in Seq(Int) /\ Len(t) = n
      /\ u \in Seq(Int) /\ Len(u) = m + n
  <2>1. m + n \in Nat /\ 0 \in Int
    OBVIOUS
  <2> QED
    BY <1>1, <2>1, RepeatZeros
<1>3. /\ \A i \in 1..m : s[i] = 0
      /\ \A i \in 1..n : t[i] = 0
      /\ \A i \in 1..(m + n) : u[i] = 0
  BY <1>1 DEF Repeat
<1>4. /\ s \o t \in Seq(Int) /\ Len(s \o t) = m + n
      /\ \A i \in 1..(m + n) : (s \o t)[i] = IF i <= m THEN s[i] ELSE t[i - m]
  <2>1. /\ s \o t \in Seq(Int) /\ Len(s \o t) = Len(s) + Len(t)
        /\ \A i \in 1..(Len(s) + Len(t)) :
              (s \o t)[i] = IF i <= Len(s) THEN s[i] ELSE t[i - Len(s)]
    <3>1. s \in Seq(Int) /\ t \in Seq(Int)
      BY <1>2
    <3> QED
      BY <3>1, ConcatProperties
  <2> QED
    BY <1>2, <2>1, Zenon
<1>5. \A i \in 1..(m + n) : (s \o t)[i] = u[i]
  <2> SUFFICES ASSUME NEW i \in 1..(m + n) PROVE (s \o t)[i] = 0
    BY <1>3
  <2>1. (s \o t)[i] = IF i <= m THEN s[i] ELSE t[i - m]
    BY <1>4
  <2>2. CASE i <= m
    <3>1. i \in 1..m
      BY <2>2
    <3> QED
      BY <1>3, <2>1, <2>2, <3>1
  <2>3. CASE ~(i <= m)
    <3>1. i - m \in 1..n
      BY <2>3
    <3> QED
      BY <1>3, <2>1, <2>3, <3>1
  <2> QED
    BY <2>2, <2>3
<1>6. s \o t = u
  BY <1>2, <1>4, <1>5, SeqEqual
<1> QED
  BY <1>1, <1>6

\* A sequence filled up with zeros and cut is one filled up with fewer.
LEMMA CutZeros ==
  ASSUME NEW T, 0 \in T, NEW s \in Seq(T), NEW m \in Nat, NEW n \in Nat,
         Len(s) <= n, n <= Len(s) + m
  PROVE  SubSeq(s \o Repeat(0, m), 1, n) = s \o Repeat(0, n - Len(s))
<1>1. PICK t, u : t = Repeat(0, m) /\ u = Repeat(0, n - Len(s))
  OBVIOUS
<1>2. Len(s) \in Nat /\ n - Len(s) \in Nat
  BY LenProperties
<1>3. /\ t \in Seq(T) /\ Len(t) = m /\ u \in Seq(T) /\ Len(u) = n - Len(s)
  BY <1>1, <1>2, RepeatZeros
<1>4. /\ \A i \in 1..m : t[i] = 0
      /\ \A i \in 1..(n - Len(s)) : u[i] = 0
  BY <1>1, <1>2 DEF Repeat
<1>5. PICK a, b : a = s \o t /\ b = s \o u
  OBVIOUS
<1>6. /\ a \in Seq(T) /\ Len(a) = Len(s) + m
      /\ \A i \in 1..(Len(s) + m) : a[i] = IF i <= Len(s) THEN s[i] ELSE t[i - Len(s)]
  BY <1>3, <1>5, ConcatProperties
<1>10. /\ b \in Seq(T) /\ Len(b) = n
       /\ \A i \in 1..n : b[i] = IF i <= Len(s) THEN s[i] ELSE u[i - Len(s)]
  <2>1. Len(s) + (n - Len(s)) = n
    BY <1>2
  <2> QED
    BY <1>3, <1>5, <2>1, ConcatProperties
<1>7. ASSUME NEW i \in 1..n PROVE a[i] = b[i]
  <2>1. i \in 1..(Len(s) + m)
    BY <1>2
  <2>2. /\ a[i] = IF i <= Len(s) THEN s[i] ELSE t[i - Len(s)]
        /\ b[i] = IF i <= Len(s) THEN s[i] ELSE u[i - Len(s)]
    BY <1>6, <1>10, <2>1
  <2>3. CASE i <= Len(s)
    BY <2>2, <2>3
  <2>4. CASE ~(i <= Len(s))
    <3>1. i - Len(s) \in 1..m /\ i - Len(s) \in 1..(n - Len(s))
      BY <1>2, <2>4
    <3> QED
      BY <1>4, <2>2, <2>4, <3>1
  <2> QED
    BY <2>3, <2>4
<1>8. /\ SubSeq(a, 1, n) \in Seq(T) /\ Len(SubSeq(a, 1, n)) = n
      /\ \A i \in 1..n : SubSeq(a, 1, n)[i] = a[i]
  BY <1>2, <1>6, SubSeqProperties
<1>9. SubSeq(a, 1, n) = b
  BY <1>7, <1>8, <1>10, SeqEqual
<1> QED
  BY <1>1, <1>5, <1>9

\* What final() transforms is the message, padded: one block more, or two where
\* the length does not fit behind the padding.
LEMMA FinalPads ==
  ASSUME HashInv, Final
  PROVE  FinalHashesMessage'
<1> DEFINE b == buffer
           F == FlattenSeq(digest)
           field == LengthField(8 * Len(message))
           T == Int \cup {field[i] : i \in 1..LengthBytes}
           orig == Append(b, Pad)
           block == orig \o Repeat(0, BLOCK_BYTES - Len(orig))
           second == needsSecondBlock(Len(orig))
           body == IF second THEN Repeat(0, BLOCK_BYTES) ELSE block
           last == SubSeq(body, 1, BLOCK_BYTES - LengthBytes) \o field
           whole == transform(IF second THEN transform(digest, block) ELSE digest, last)
           zeros == IF second THEN 2 * BLOCK_BYTES - LengthBytes - Len(orig)
                    ELSE BLOCK_BYTES - LengthBytes - Len(orig)
<1>1. /\ digest \in Seq(Seq(Int)) /\ b \in Seq(Int) /\ message \in Seq(Int)
      /\ F \in Seq(Int) /\ Len(F) = transforms * BLOCK_BYTES
      /\ transforms \in Nat /\ Len(b) \in Nat /\ Len(b) < BLOCK_BYTES
  BY LenProperties DEF HashInv
<1>2. F \o b = message
  <2>1. F \o b \in Seq(Int)
    BY <1>1, ConcatProperties
  <2>2. is.rest = <<>>
    BY DEF HashInv, Final
  <2> QED
    BY <2>1, <2>2, ConcatEmptySeq DEF HashInv
<1>3. Len(message) = transforms * BLOCK_BYTES + Len(b)
  <2>1. Len(F \o b) = Len(F) + Len(b)
    BY <1>1, ConcatProperties
  <2> QED
    BY <1>1, <1>2, <2>1, Zenon
<1>4. (transforms * BLOCK_BYTES + Len(b)) * 8 = 8 * Len(message)
  <2>1. PICK k : k = transforms * BLOCK_BYTES + Len(b)
    OBVIOUS
  <2>2. k \in Int
    BY <1>1, <2>1
  <2> QED
    BY <1>3, <2>1, <2>2
<1>5. result' = [for |-> message, is |-> whole]
  BY <1>4 DEF Final
<1>6. /\ Int \subseteq T /\ Pad \in T /\ 0 \in T
      /\ field \in Seq(T)
  <2>1. field \in [1..LengthBytes -> T]
    BY DEF LengthField
  <2>2. field \in Seq(T)
    <3> HIDE DEF field, T
    <3> QED
      BY <2>1, SeqDef
  <2> QED
    BY <2>2 DEF Pad
<1> HIDE DEF field, T
<1>7. /\ b \in Seq(T) /\ F \in Seq(T) /\ message \in Seq(T)
      /\ digest \in Seq(Seq(T))
  <2>1. b \in Seq(T) /\ F \in Seq(T) /\ message \in Seq(T)
    BY <1>1, <1>6, SeqMonotonic
  <2>2. Seq(Int) \subseteq Seq(T)
    BY <1>6, SeqMonotonic
  <2>3. digest \in Seq(Seq(T))
    BY <1>1, <2>2, SeqMonotonic
  <2> QED
    BY <2>1, <2>3
<1>8. /\ orig \in Seq(T) /\ Len(orig) = Len(b) + 1
      /\ F \o orig = Append(message, Pad) /\ F \o orig \in Seq(T)
  <2>1. orig \in Seq(T) /\ Len(orig) = Len(b) + 1
    BY <1>6, <1>7, AppendProperties
  <2>2. F \o orig = Append(F \o b, Pad)
    <3> HIDE DEF F, b
    <3> QED
      BY <1>6, <1>7, AppendToConcat
  <2>3. F \o orig \in Seq(T)
    <3> HIDE DEF orig
    <3> QED
      BY <1>7, <2>1, ConcatProperties
  <2> QED
    BY <1>2, <2>1, <2>2, <2>3
<1> HIDE DEF F, b, orig
<1>9. zeros \in 0..(BLOCK_BYTES - 1)
  <2>1. PICK k : k = Len(orig)
    OBVIOUS
  <2>2. k \in 1..BLOCK_BYTES /\ BLOCK_BYTES \in Nat /\ LengthBytes \in 1..(BLOCK_BYTES - 1)
    BY <1>1, <1>8, <2>1, BlockAssumption DEF BlockAssumption
  <2>3. zeros = IF k > BLOCK_BYTES - LengthBytes THEN 2 * BLOCK_BYTES - LengthBytes - k
                ELSE BLOCK_BYTES - LengthBytes - k
    BY <2>1 DEF needsSecondBlock
  <2> HIDE DEF zeros
  <2> QED
    BY <2>2, <2>3
<1>10. Padded(message) = ((F \o orig) \o Repeat(0, zeros)) \o field
  <2>1. PICK k : k = transforms * BLOCK_BYTES
    OBVIOUS
  <2>2. k \in Int /\ Len(message) = k + Len(b)
    BY <1>1, <1>3, <2>1 DEF b
  <2>3. \E p \in Int : Len(message) + 1 + zeros + LengthBytes = BLOCK_BYTES * p
    <3>1. CASE second
      <4>1. Len(message) + 1 + zeros + LengthBytes = k + 2 * BLOCK_BYTES
        <5> HIDE DEF second
        <5> QED
          BY <1>1, <1>8, <2>2, <3>1
      <4>2. k + 2 * BLOCK_BYTES = BLOCK_BYTES * (transforms + 2) /\ transforms + 2 \in Int
        BY <1>1, <2>1
      <4> HIDE DEF zeros
      <4> QED
        BY <4>1, <4>2, Zenon
    <3>2. CASE ~second
      <4>1. Len(message) + 1 + zeros + LengthBytes = k + BLOCK_BYTES
        <5> HIDE DEF second
        <5> QED
          BY <1>1, <1>8, <2>2, <3>2
      <4>2. k + BLOCK_BYTES = BLOCK_BYTES * (transforms + 1) /\ transforms + 1 \in Int
        BY <1>1, <2>1
      <4> HIDE DEF zeros
      <4> QED
        BY <4>1, <4>2, Zenon
    <3> QED
      BY <3>1, <3>2
  <2>4. PICK p \in Int : Len(message) + 1 + zeros + LengthBytes = BLOCK_BYTES * p
    BY <2>3
  <2>5. Len(message) \in Nat
    BY <1>1, LenProperties
  <2> HIDE DEF zeros
  <2>6. (CHOOSE z \in 0..(BLOCK_BYTES - 1) :
            (Len(message) + 1 + z + LengthBytes) % BLOCK_BYTES = 0) = zeros
    BY <1>9, <2>4, <2>5, ZerosUnique
  <2> QED
    BY <1>8, <2>6 DEF Padded, field
<1>11. FlattenSeq(whole) = ((F \o orig) \o Repeat(0, zeros)) \o field
  <2>0. /\ Len(orig) \in Nat /\ Len(orig) <= BLOCK_BYTES
        /\ BLOCK_BYTES - LengthBytes \in Nat
    BY <1>1, <1>8
  <2>1. CASE ~second
    <3>0. Len(orig) <= BLOCK_BYTES - LengthBytes
      BY <2>0, <2>1 DEF needsSecondBlock
    <3>1. SubSeq(block, 1, BLOCK_BYTES - LengthBytes) = orig \o Repeat(0, zeros)
      <4>1. PICK m, n : /\ m = BLOCK_BYTES - Len(orig) /\ n = BLOCK_BYTES - LengthBytes
        OBVIOUS
      <4>2. m \in Nat /\ n \in Nat /\ Len(orig) <= n /\ n <= Len(orig) + m
            /\ n - Len(orig) = zeros
        BY <2>0, <2>1, <3>0, <4>1
      <4>3. SubSeq(orig \o Repeat(0, m), 1, n) = orig \o Repeat(0, n - Len(orig))
        BY <1>6, <1>8, <4>2, CutZeros
      <4> QED
        BY <4>1, <4>2, <4>3
    <3>2. last = (orig \o Repeat(0, zeros)) \o field
      BY <2>1, <3>1
    <3>3. Repeat(0, zeros) \in Seq(T)
      <4> HIDE DEF zeros
      <4> QED
        BY <1>6, <1>9, RepeatZeros
    <3>4. orig \o Repeat(0, zeros) \in Seq(T)
      <4> HIDE DEF zeros
      <4> QED
        BY <1>8, <3>3, ConcatProperties
    <3>5. last \in Seq(T)
      <4> HIDE DEF zeros, last
      <4> QED
        BY <1>6, <3>2, <3>4, ConcatProperties
    <3>6. FlattenSeq(whole) = F \o last
      <4>1. whole = transform(digest, last)
        BY <2>1
      <4> HIDE DEF whole, last
      <4> QED
        BY <1>7, <3>5, <4>1, DigestGrows DEF F
    <3> HIDE DEF zeros, last, whole
    <3>7. PICK r : r = Repeat(0, zeros)
      OBVIOUS
    <3>8. r \in Seq(T)
      BY <3>3, <3>7
    <3>9. F \o ((orig \o r) \o field) = ((F \o orig) \o r) \o field
      <4>1. Cat(F, Cat(Cat(orig, r), field)) = Cat(Cat(Cat(F, orig), r), field)
        <5>1. PICK M : M = Seq(T)
          OBVIOUS
        <5>2. /\ orig \in M /\ F \in M /\ field \in M /\ r \in M
              /\ Grouped(M)
          BY <1>6, <1>7, <1>8, <3>8, <5>1, SeqGrouped
        <5> QED
          BY <5>2 DEF Grouped
      <4> QED
        BY <4>1, Zenon DEF Cat
    <3> QED
      BY <3>2, <3>6, <3>7, <3>9, Zenon
  <2>2. CASE second
    <3>1. PICK m, n, r, z : /\ m = BLOCK_BYTES - Len(orig) /\ n = BLOCK_BYTES - LengthBytes
                            /\ r = Repeat(0, m) /\ z = Repeat(0, n)
      OBVIOUS
    <3>2. m \in Nat /\ n \in Nat /\ n <= BLOCK_BYTES /\ m + n = zeros
      BY <2>0, <2>2, <3>1
    <3>3. r \in Seq(T) /\ z \in Seq(T) /\ r \o z = Repeat(0, zeros)
      <4> HIDE DEF zeros
      <4>1. r \in Seq(T) /\ z \in Seq(T)
        BY <1>6, <3>1, <3>2, RepeatZeros
      <4>2. Repeat(0, m) \o Repeat(0, n) = Repeat(0, m + n)
        BY <3>2, MoreZeros
      <4> QED
        BY <3>1, <3>2, <4>1, <4>2, Zenon
    <3>4. SubSeq(Repeat(0, BLOCK_BYTES), 1, n) = z
      <4>1. <<>> \in Seq(T) /\ Len(<<>>) = 0
        BY EmptySeq
      <4>2. SubSeq(<<>> \o Repeat(0, BLOCK_BYTES), 1, n) = <<>> \o Repeat(0, n - Len(<<>>))
        <5>1. PICK e : e = <<>>
          OBVIOUS
        <5>2. e \in Seq(T) /\ Len(e) <= n /\ n <= Len(e) + BLOCK_BYTES /\ BLOCK_BYTES \in Nat
          BY <3>2, <4>1, <5>1
        <5>3. SubSeq(e \o Repeat(0, BLOCK_BYTES), 1, n) = e \o Repeat(0, n - Len(e))
          BY <1>6, <3>2, <5>2, CutZeros
        <5> QED
          BY <5>1, <5>3, Zenon
      <4>3. <<>> \o Repeat(0, BLOCK_BYTES) = Repeat(0, BLOCK_BYTES)
        BY <1>6, RepeatZeros, ConcatEmptySeq
      <4>4. <<>> \o z = z
        BY <3>3, ConcatEmptySeq
      <4>5. n - Len(<<>>) = n
        BY <3>2, <4>1
      <4> QED
        BY <3>1, <4>2, <4>3, <4>4, <4>5
    <3>5. last = z \o field /\ block = orig \o r /\ whole = transform(transform(digest, block), last)
      BY <2>2, <3>1, <3>4
    <3> HIDE DEF zeros, last, block, whole
    <3>6. last \in Seq(T) /\ block \in Seq(T)
      BY <1>6, <1>8, <3>3, <3>5, ConcatProperties
    <3>7. /\ transform(digest, block) \in Seq(Seq(T))
          /\ FlattenSeq(transform(digest, block)) = F \o block
      BY <1>7, <3>6, DigestGrows DEF F
    <3>8. FlattenSeq(whole) = (F \o block) \o last
      <4>1. PICK d : d = transform(digest, block)
        OBVIOUS
      <4>2. d \in Seq(Seq(T)) /\ whole = transform(d, last) /\ FlattenSeq(d) = F \o block
        BY <3>5, <3>7, <4>1, Zenon
      <4>3. FlattenSeq(transform(d, last)) = FlattenSeq(d) \o last
        BY <3>6, <4>2, DigestGrows
      <4> QED
        BY <4>2, <4>3, Zenon
    <3>9. (F \o (orig \o r)) \o (z \o field) = ((F \o orig) \o (r \o z)) \o field
      <4>1. Cat(Cat(F, Cat(orig, r)), Cat(z, field))
                = Cat(Cat(Cat(F, orig), Cat(r, z)), field)
        <5>1. PICK M : M = Seq(T)
          OBVIOUS
        <5>2. /\ orig \in M /\ F \in M /\ field \in M /\ r \in M /\ z \in M
              /\ Grouped(M)
          BY <1>6, <1>7, <1>8, <3>3, <5>1, SeqGrouped
        <5> QED
          BY <5>2 DEF Grouped
      <4> QED
        BY <4>1, Zenon DEF Cat
    <3> QED
      BY <3>3, <3>5, <3>8, <3>9, Zenon
  <2> QED
    BY <2>1, <2>2
<1>12. FlattenSeq(whole) = Padded(message)
  BY <1>10, <1>11
<1> HIDE DEF whole
<1> QED
  BY <1>5, <1>12 DEF FinalHashesMessage

\* final() leaves an object like a new one.
LEMMA FinalInv ==
  ASSUME HashInv, Final
  PROVE  HashInv'
<1>1. /\ digest' = <<>> /\ buffer' = <<>> /\ transforms' = 0
      /\ message' = <<>> /\ is' = is /\ ~is.open /\ is.rest = <<>>
  BY DEF Final, HashInv
<1>2. /\ <<>> \in Seq(Int) /\ <<>> \in Seq(Seq(Int)) /\ Len(<<>>) = 0
      /\ (<<>> \o <<>>) \o <<>> = <<>>
  BY EmptySeq, ConcatEmptySeq
<1>3. FinalHashesMessage'
  BY FinalPads
<1> QED
  BY <1>1, <1>2, <1>3, FlattenEmpty DEF HashInv

\* Each step of hashing keeps the invariant.
LEMMA HashStep == HashInv /\ [HashNext]_hashVars => HashInv'
<1> SUFFICES ASSUME HashInv, [HashNext]_hashVars PROVE HashInv'
  OBVIOUS
<1>1. ASSUME NEW n \in 0..MaxMessage, NEW s \in [1..n -> Bytes], Update(s)
      PROVE  HashInv'
  <2>1. Bytes \subseteq Int
    OBVIOUS
  <2>2. \A i \in 1..n : s[i] \in Bytes
    OBVIOUS
  <2>3. s \in [1..n -> Int]
    BY <2>1, <2>2
  <2>4. s \in Seq(Int)
    BY <2>3, SeqDef
  <2> QED
    BY <1>1, <2>4, UpdateInv
<1>2. CASE UNCHANGED hashVars
  BY <1>2 DEF hashVars, HashInv, FinalHashesMessage
<1> QED
  BY <1>1, <1>2, FillInv, FinalInv DEF HashNext

\* The invariant of the hash, for every size of block.
THEOREM HashInvariance == HashSpec => []HashInv
BY HashInitInv, HashStep, PTL DEF HashSpec

\* However a message is cut into calls of update() (sha1.hpp), every byte of it
\* is in the blocks, the buffer or the stream, in order and once, and no full
\* block is left in the buffer.
THEOREM HashKeepsAll == HashSpec => []NothingLost
<1>1. HashInv => NothingLost
  BY DEF HashInv, NothingLost
<1> QED
  BY <1>1, HashInvariance, PTL

\* What final() hashes is the message with the padding of FIPS 180, also when
\* the padding needs a block of its own, and also in an object used before.
THEOREM HashIsPadded == HashSpec => []FinalHashesMessage
<1>1. HashInv => FinalHashesMessage
  BY DEF HashInv
<1> QED
  BY <1>1, HashInvariance, PTL

HIDE BlockAssumption DEF BlockAssumption
-----------------------------------------------------------------------------
\* A sequence cut at one of its elements.
LEMMA CutAt ==
  ASSUME NEW T, NEW u \in Seq(T), NEW k \in 1..Len(u)
  PROVE  SubSeq(u, 1, k - 1) \o <<u[k]>> \o SubSeq(u, k + 1, Len(u)) = u
<1>1. Len(u) \in Nat /\ 1 \in 1..Len(u) /\ k \in 1..Len(u) /\ k \in 0..Len(u)
  BY LenProperties
<1>2. SubSeq(u, 1, k) = SubSeq(u, 1, k - 1) \o <<u[k]>>
  BY <1>1, SubSeqRecursiveSecond
<1>3. SubSeq(u, 1, k) \o SubSeq(u, k + 1, Len(u)) = u
  BY <1>1, CutSeq
<1> QED
  BY <1>2, <1>3, Zenon

\* A number below the modulus is itself.
LEMMA SmallMod ==
  ASSUME NEW a \in Nat, NEW m \in Nat, a < m
  PROVE  a % m = a
OBVIOUS

\* The parts of the URL, once they are there, and where the URL is from.
UrlInv ==
    /\ at # "hash" => announce \in Urls
    /\ UrlKeptWhole

\* Every URL is shorter than an unsigned int can count.
ShortUrls == \A u \in Urls : Len(u) < UIntModulus

\* A URL without a separator is found out: find_last_of's npos survives the
\* conversion to unsigned int, or there is no such URL.
MissingSlashSeen ==
    \/ UIntModulus = SizeModulus
    \/ \A u \in Urls : \E i \in DOMAIN u : u[i] = Slash

\* The index of the last separator, if it is not npos.
LEMMA LastSlash ==
  ASSUME ShortUrls, MissingSlashSeen, announce \in Urls, pathSeperatorIndex # npos
  PROVE  \E k \in 1..Len(announce) : announce[k] = Slash /\ pathSeperatorIndex = k - 1
<1> DEFINE found == {i \in DOMAIN announce : announce[i] = Slash}
<1>1. /\ announce \in Seq(Int) /\ Len(announce) \in Nat
      /\ DOMAIN announce = 1..Len(announce) /\ Len(announce) < UIntModulus
      /\ UIntModulus \in Nat \ {0} /\ SizeModulus \in Nat /\ UIntModulus <= SizeModulus
  BY AnnounceAssumption, LenProperties DEF AnnounceAssumption, ShortUrls
<1>2. CASE found = {}
  <2>1. UIntModulus = SizeModulus
    BY <1>2 DEF MissingSlashSeen
  <2>2. pathSeperatorIndex = npos % UIntModulus
    BY <1>2 DEF pathSeperatorIndex
  <2>3. npos % UIntModulus = npos
    <3>1. PICK m, p : m = UIntModulus /\ p = npos
      OBVIOUS
    <3>2. m \in Nat /\ m > 0 /\ p \in 0..(m - 1)
      BY <1>1, <2>1, <3>1 DEF npos
    <3>3. p % m = p
      BY <3>2, SmallMod
    <3> QED
      BY <3>1, <3>3
  <2> QED
    BY <2>2, <2>3
<1>3. CASE found # {}
  <2>1. found \in SUBSET (0..Len(announce))
    BY <1>1
  <2>2. Max(found) \in found
    BY <1>1, <1>3, <2>1, MaxNat
  <2>3. pathSeperatorIndex = (Max(found) - 1) % UIntModulus
    BY <1>3 DEF pathSeperatorIndex
  <2>4. PICK k : k = Max(found)
    OBVIOUS
  <2>5. k \in 1..Len(announce) /\ announce[k] = Slash
    BY <1>1, <2>2, <2>4
  <2>6. (k - 1) % UIntModulus = k - 1
    <3>1. k - 1 \in Nat /\ UIntModulus \in Nat /\ k - 1 < UIntModulus
      BY <1>1, <2>5
    <3> QED
      BY <3>1, SmallMod
  <2> QED
    BY <2>3, <2>4, <2>5, <2>6
<1> QED
  BY <1>2, <1>3

\* The two parts are what is before the separator and what is behind it.
LEMMA BuildRequestInv ==
  ASSUME ShortUrls, MissingSlashSeen, UrlInv, BuildRequest
  PROVE  UrlInv'
<1>1. announce \in Urls /\ announce' = announce
  BY DEF BuildRequest, UrlInv
<1>2. CASE pathSeperatorIndex = npos
  BY <1>1, <1>2 DEF BuildRequest, UrlInv, UrlKeptWhole
<1>3. CASE pathSeperatorIndex # npos
  <2>1. server' = getServerAddress /\ path' = getAnnouncePath
    BY <1>3 DEF BuildRequest
  <2>2. PICK k \in 1..Len(announce) : announce[k] = Slash /\ pathSeperatorIndex = k - 1
    BY <1>1, <1>3, LastSlash
  <2>3. /\ announce \in Seq(Int) /\ Len(announce) \in Nat
        /\ Len(announce) < UIntModulus /\ UIntModulus \in Nat \ {0}
    BY <1>1, AnnounceAssumption, LenProperties DEF AnnounceAssumption, ShortUrls
  <2>4. Min({pathSeperatorIndex, Len(announce)}) = k - 1
    <3>1. /\ pathSeperatorIndex \in Int /\ Len(announce) \in Int
          /\ pathSeperatorIndex <= Len(announce)
      BY <2>2, <2>3
    <3>2. Min({pathSeperatorIndex, Len(announce)}) = pathSeperatorIndex
      BY <3>1, MinTwo, Zenon
    <3> QED
      BY <2>2, <3>2
  <2>5. ((pathSeperatorIndex + 1) % UIntModulus) + 1 = k + 1
    <3>1. /\ k \in Nat /\ UIntModulus \in Nat /\ k < UIntModulus
          /\ pathSeperatorIndex + 1 = k
      BY <2>2, <2>3
    <3>2. k % UIntModulus = k
      BY <3>1, SmallMod
    <3> QED
      BY <3>1, <3>2, Zenon
  <2>6. server' = SubSeq(announce, 1, k - 1)
    BY <2>1, <2>4, Zenon DEF getServerAddress
  <2>7. path' = SubSeq(announce, k + 1, Len(announce))
    BY <2>1, <2>5, Zenon DEF getAnnouncePath
  <2>8. SubSeq(announce, 1, k - 1) \o <<announce[k]>>
            \o SubSeq(announce, k + 1, Len(announce)) = announce
    BY <2>3, CutAt
  <2>9. server' \o <<Slash>> \o path' = announce'
    BY <1>1, <2>2, <2>6, <2>7, <2>8, Zenon
  <2> QED
    BY <1>1, <2>9 DEF UrlInv, UrlKeptWhole
<1> QED
  BY <1>2, <1>3

\* Each step of a tracker request keeps the parts of the URL.
LEMMA UrlStep ==
  ASSUME ShortUrls, MissingSlashSeen, UrlInv,
         [AnnounceNext]_<<hashVars, announceVars>>
  PROVE  UrlInv'
<1>1. CASE UNCHANGED announceVars
  BY <1>1 DEF announceVars, UrlInv, UrlKeptWhole
<1>2. CASE GetSHA1
  BY <1>2 DEF GetSHA1, UrlInv, UrlKeptWhole
<1>3. CASE GenerateId
  BY <1>3 DEF GenerateId, UrlInv, UrlKeptWhole
<1>4. CASE GetHandshake
  BY <1>4 DEF GetHandshake, UrlInv, UrlKeptWhole
<1> QED
  BY <1>1, <1>2, <1>3, <1>4, BuildRequestInv DEF AnnounceNext

\* getServerAddress and getAnnouncePath (bhttp.cpp) lose nothing of the announce
\* URL but the separator between them, wherever the separator is.
THEOREM UrlPartsMakeUrl ==
  ASSUME ShortUrls, MissingSlashSeen
  PROVE  AnnounceSpec => []UrlKeptWhole
<1>1. HashInit /\ AnnounceInit => UrlInv
  BY DEF AnnounceInit, UrlInv, UrlKeptWhole
<1>2. UrlInv /\ [AnnounceNext]_<<hashVars, announceVars>> => UrlInv'
  BY UrlStep
<1>3. UrlInv => UrlKeptWhole
  BY DEF UrlInv
<1> QED
  BY <1>1, <1>2, <1>3, PTL DEF AnnounceSpec
-----------------------------------------------------------------------------
\* A table of the powers of 16 up to the n-th.
IsPowers(f, n) == f = [k \in 0..n |-> IF k = 0 THEN 1 ELSE 16 * f[k - 1]]

\* There is such a table, of numbers, for every n.
LEMMA PowersExist ==
  ASSUME NEW n \in Nat
  PROVE  \E f : IsPowers(f, n)
<1> DEFINE S == {k \in Nat : \E f : IsPowers(f, k)}
<1>1. 0 \in S
  <2>1. IsPowers([k \in 0..0 |-> 1], 0)
    BY DEF IsPowers
  <2> QED
    BY <2>1
<1>2. ASSUME NEW k \in Nat, k \in S PROVE k + 1 \in S
  <2>1. PICK f : IsPowers(f, k)
    BY <1>2
  <2> DEFINE g == [j \in 0..(k + 1) |-> IF j = 0 THEN 1 ELSE 16 * f[j - 1]]
  <2>2. ASSUME NEW j \in 0..k PROVE g[j] = f[j]
    <3>1. f[j] = IF j = 0 THEN 1 ELSE 16 * f[j - 1]
      BY <2>1 DEF IsPowers
    <3> QED
      BY <3>1
  <2>3. \A j \in 0..(k + 1) : g[j] = IF j = 0 THEN 1 ELSE 16 * g[j - 1]
    <3> SUFFICES ASSUME NEW j \in 0..(k + 1)
                 PROVE  g[j] = IF j = 0 THEN 1 ELSE 16 * g[j - 1]
      OBVIOUS
    <3>1. g[j] = IF j = 0 THEN 1 ELSE 16 * f[j - 1]
      OBVIOUS
    <3>2. CASE j = 0
      BY <3>1, <3>2
    <3>3. CASE j # 0
      <4>1. j - 1 \in 0..k
        BY <3>3
      <4>2. g[j - 1] = f[j - 1]
        BY <2>2, <4>1
      <4> HIDE DEF g
      <4> QED
        BY <3>1, <3>3, <4>2
    <3> QED
      BY <3>2, <3>3
  <2>4. IsPowers(g, k + 1)
    BY <2>3 DEF IsPowers
  <2> QED
    BY <2>4
<1>3. Nat \subseteq S
  <2> HIDE DEF S
  <2> QED
    BY <1>1, <1>2, NatSetInduction
<1> QED
  BY <1>3

\* Two tables agree where both have numbers.
LEMMA PowersAgree ==
  ASSUME NEW m \in Nat, NEW n \in Nat, NEW f, IsPowers(f, m), NEW g, IsPowers(g, n),
         NEW k \in Nat, k <= m, k <= n
  PROVE  f[k] = g[k]
<1> DEFINE S == {j \in Nat : j <= m /\ j <= n => f[j] = g[j]}
<1>0. /\ \A j \in 0..m : f[j] = IF j = 0 THEN 1 ELSE 16 * f[j - 1]
      /\ \A j \in 0..n : g[j] = IF j = 0 THEN 1 ELSE 16 * g[j - 1]
  BY DEF IsPowers
<1>1. 0 \in S
  BY <1>0
<1>2. ASSUME NEW j \in Nat, j \in S PROVE j + 1 \in S
  <2> SUFFICES ASSUME j + 1 <= m, j + 1 <= n PROVE f[j + 1] = g[j + 1]
    OBVIOUS
  <2>1. f[j] = g[j]
    BY <1>2
  <2> QED
    BY <1>0, <2>1
<1>3. Nat \subseteq S
  <2> HIDE DEF S
  <2> QED
    BY <1>1, <1>2, NatSetInduction
<1> QED
  BY <1>3

\* PowerOf16 is what it is defined by.
LEMMA PowerIs ==
  PowerOf16 = [k \in Nat |-> IF k = 0 THEN 1 ELSE 16 * PowerOf16[k - 1]]
<1> DEFINE table(n) == CHOOSE f : IsPowers(f, n)
           F == [k \in Nat |-> table(k)[k]]
<1>1. \A n \in Nat : IsPowers(table(n), n)
  BY PowersExist
<1>2. ASSUME NEW k \in Nat PROVE F[k] = IF k = 0 THEN 1 ELSE 16 * F[k - 1]
  <2>1. table(k)[k] = IF k = 0 THEN 1 ELSE 16 * table(k)[k - 1]
    <3>1. PICK f : f = table(k) /\ IsPowers(f, k)
      BY <1>1
    <3>2. f = [j \in 0..k |-> IF j = 0 THEN 1 ELSE 16 * f[j - 1]]
      BY <3>1 DEF IsPowers
    <3>3. f[k] = IF k = 0 THEN 1 ELSE 16 * f[k - 1]
      BY <3>2
    <3> QED
      BY <3>1, <3>3
  <2>2. CASE k = 0
    BY <2>1, <2>2
  <2>3. CASE k # 0
    <3>1. k - 1 \in Nat /\ k - 1 <= k
      BY <2>3
    <3>2. table(k - 1)[k - 1] = table(k)[k - 1]
      <4>1. PICK f : f = table(k - 1) /\ IsPowers(f, k - 1)
        BY <1>1, <3>1
      <4>2. PICK g : g = table(k) /\ IsPowers(g, k)
        BY <1>1
      <4>3. f[k - 1] = g[k - 1]
        BY <3>1, <4>1, <4>2, PowersAgree
      <4> QED
        BY <4>1, <4>2, <4>3
    <3>3. F[k - 1] = table(k - 1)[k - 1] /\ F[k] = table(k)[k]
      BY <3>1
    <3> QED
      BY <2>1, <2>3, <3>2, <3>3
  <2> QED
    BY <2>2, <2>3
<1> HIDE DEF table
<1>3. F = [k \in Nat |-> IF k = 0 THEN 1 ELSE 16 * F[k - 1]]
  BY <1>2
<1>4. \E f : f = [k \in Nat |-> IF k = 0 THEN 1 ELSE 16 * f[k - 1]]
  <2> HIDE DEF F
  <2> QED
    BY <1>3
<1> QED
  BY <1>4, Zenon DEF PowerOf16

\* The powers are numbers, each 16 times the last.
LEMMA PowerSteps ==
  /\ PowerOf16[0] = 1
  /\ \A k \in Nat : /\ PowerOf16[k] \in Nat \ {0}
                    /\ PowerOf16[k + 1] = 16 * PowerOf16[k]
<1>1. ASSUME NEW k \in Nat
      PROVE  PowerOf16[k] = IF k = 0 THEN 1 ELSE 16 * PowerOf16[k - 1]
  <2>1. PICK p : p = PowerOf16
    OBVIOUS
  <2>2. p = [j \in Nat |-> IF j = 0 THEN 1 ELSE 16 * p[j - 1]]
    BY <2>1, PowerIs, Zenon
  <2>3. p[k] = IF k = 0 THEN 1 ELSE 16 * p[k - 1]
    BY <2>2
  <2> QED
    BY <2>1, <2>3
<1> DEFINE S == {k \in Nat : PowerOf16[k] \in Nat \ {0}}
<1>2. PowerOf16[0] = 1
  BY <1>1
<1>3. ASSUME NEW k \in Nat PROVE PowerOf16[k + 1] = 16 * PowerOf16[k]
  <2>1. k + 1 \in Nat /\ k + 1 # 0 /\ (k + 1) - 1 = k
    OBVIOUS
  <2>2. PowerOf16[k + 1] = 16 * PowerOf16[(k + 1) - 1]
    BY <1>1, <2>1
  <2> QED
    BY <2>1, <2>2
<1>4. 0 \in S
  BY <1>2
<1>5. ASSUME NEW k \in Nat, k \in S PROVE k + 1 \in S
  BY <1>3, <1>5
<1>6. Nat \subseteq S
  <2> HIDE DEF S
  <2> QED
    BY <1>4, <1>5, NatSetInduction
<1> QED
  BY <1>2, <1>3, <1>6

\* A higher power is not less.
LEMMA PowersGrow ==
  ASSUME NEW j \in Nat, NEW k \in Nat, j <= k
  PROVE  PowerOf16[j] <= PowerOf16[k]
<1> DEFINE S == {n \in Nat : PowerOf16[j] <= PowerOf16[j + n]}
<1>1. 0 \in S
  BY PowerSteps
<1>2. ASSUME NEW n \in Nat, n \in S PROVE n + 1 \in S
  <2>1. /\ j + n \in Nat /\ j + (n + 1) = (j + n) + 1
    OBVIOUS
  <2>2. PowerOf16[(j + n) + 1] = 16 * PowerOf16[j + n] /\ PowerOf16[j + n] \in Nat
    BY <2>1, PowerSteps
  <2>3. PowerOf16[j] <= PowerOf16[j + n] /\ PowerOf16[j] \in Nat
    BY <1>2, PowerSteps
  <2>4. PowerOf16[j] <= PowerOf16[(j + n) + 1]
    BY <2>2, <2>3
  <2> QED
    BY <2>1, <2>4
<1>3. Nat \subseteq S
  <2> HIDE DEF S
  <2> QED
    BY <1>1, <1>2, NatSetInduction
<1>4. k - j \in S /\ j + (k - j) = k
  BY <1>3
<1> QED
  BY <1>4

\* What is cut off the end of a number, in two steps.
LEMMA DivTwice ==
  ASSUME NEW w \in Nat, NEW p \in Nat \ {0}
  PROVE  /\ w \div (16 * p) = (w \div p) \div 16
         /\ w \div p \in Nat
<1>1. PICK q \in Nat : q = w \div p
  OBVIOUS
<1>2. PICK r \in Nat : w = p * q + r /\ r < p
  BY <1>1
<1>3. PICK a \in Nat, b \in 0..15 : q = 16 * a + b /\ a = q \div 16
  OBVIOUS
<1>4. w = (16 * p) * a + (p * b + r)
  BY <1>2, <1>3
<1>5. p * b + r \in 0..(16 * p - 1)
  <2>1. p * b <= p * 15 /\ p * b \in Nat
    BY <1>3
  <2> QED
    BY <1>2, <2>1
<1>6. w \div (16 * p) = a
  <2>1. PICK m \in Nat \ {0}, s \in Nat : m = 16 * p /\ s = p * b + r
    BY <1>5
  <2>2. w = m * a + s /\ s \in 0..(m - 1)
    BY <1>4, <1>5, <2>1
  <2>3. w \div m = a
    BY <2>2
  <2> QED
    BY <2>1, <2>3
<1> QED
  BY <1>1, <1>3, <1>6

\* Two digits are a byte.
LEMMA TwoDigits ==
  ASSUME NEW w \in Nat, NEW p \in Nat \ {0}
  PROVE  16 * ((w \div (16 * p)) % 16) + ((w \div p) % 16) = (w \div p) % 256
<1>1. PICK q \in Nat : q = w \div p /\ w \div (16 * p) = q \div 16
  BY DivTwice
<1>2. 16 * ((q \div 16) % 16) + (q % 16) = q % 256
  OBVIOUS
<1> QED
  BY <1>1, <1>2

\* A word has as many digits as it takes, and each is what its place says.
LEMMA DigitsOf ==
  ASSUME NEW w \in Words
  PROVE  \E n \in 1..HexDigits :
            /\ w \in Nat /\ w < PowerOf16[n]
            /\ Digits(w) = [i \in 1..n |-> (w \div PowerOf16[n - i]) % 16]
<1>1. HexDigits \in Nat \ {0} /\ w \in 0..(PowerOf16[HexDigits] - 1)
      /\ PowerOf16[HexDigits] \in Nat
  BY AnnounceAssumption, PowerSteps DEF AnnounceAssumption
<1> DEFINE S == {k \in 1..HexDigits : w < PowerOf16[k]}
           Fits(k) == w < PowerOf16[k] /\ (k > 1 => w >= PowerOf16[k - 1])
<1>2. HexDigits \in S
  BY <1>1
<1>3. PICK m \in S : \A k \in S : m <= k
  <2>1. S \in SUBSET Nat /\ S # {}
    BY <1>2
  <2> HIDE DEF S
  <2> QED
    BY <2>1, MinNat
<1>4. Fits(m)
  <2>1. m \in 1..HexDigits /\ w < PowerOf16[m]
    BY <1>3
  <2>2. ASSUME m > 1 PROVE w >= PowerOf16[m - 1]
    <3>0. m \in Int /\ m - 1 \in 1..HexDigits
      BY <2>1, <2>2, <1>1
    <3>1. m - 1 \in 1..HexDigits /\ m - 1 \notin S
      <4>1. ASSUME m - 1 \in S PROVE m <= m - 1
        <5> HIDE DEF S
        <5> QED
          BY <4>1, <1>3
      <4> QED
        BY <3>0, <4>1
    <3>2. PowerOf16[m - 1] \in Nat
      BY <3>1, PowerSteps
    <3> QED
      BY <1>1, <3>1, <3>2
  <2> QED
    BY <2>1, <2>2
<1>5. m \in 1..HexDigits
  BY <1>3
<1> DEFINE n == CHOOSE k \in 1..HexDigits : Fits(k)
<1>6. n \in 1..HexDigits /\ Fits(n)
  <2> HIDE DEF Fits
  <2> QED
    BY <1>4, <1>5
<1>7. Digits(w) = [i \in 1..n |-> (w \div PowerOf16[n - i]) % 16]
  BY DEF Digits
<1> HIDE DEF n
<1> QED
  BY <1>1, <1>6, <1>7

\* A number below the divisor.
LEMMA SmallDiv ==
  ASSUME NEW a \in Nat, NEW m \in Nat \ {0}, a < m
  PROVE  a \div m = 0
OBVIOUS

\* A word is written with all its digits.
LEMMA HexWordIs ==
  ASSUME NEW w \in Words
  PROVE  /\ hexWord(w) \in Seq(0..15) /\ Len(hexWord(w)) = HexDigits
         /\ \A i \in 1..HexDigits :
                hexWord(w)[i] = (w \div PowerOf16[HexDigits - i]) % 16
<1>0. HexDigits \in Nat \ {0}
  BY AnnounceAssumption DEF AnnounceAssumption
<1>1. PICK n \in 1..HexDigits :
            /\ w \in Nat /\ w < PowerOf16[n]
            /\ Digits(w) = [i \in 1..n |-> (w \div PowerOf16[n - i]) % 16]
  BY DigitsOf
<1>2. PICK d : d = Digits(w)
  OBVIOUS
<1>3. d \in Seq(0..15) /\ Len(d) = n
  <2>1. ASSUME NEW i \in 1..n PROVE (w \div PowerOf16[n - i]) % 16 \in 0..15
    <3>1. n - i \in Nat
      OBVIOUS
    <3>2. PICK p \in Nat \ {0} : p = PowerOf16[n - i]
      BY <3>1, PowerSteps
    <3>3. PICK q \in Nat : q = w \div p
      BY <1>1, DivTwice
    <3> QED
      BY <3>2, <3>3
  <2>2. d \in [1..n -> 0..15]
    BY <1>1, <1>2, <2>1
  <2> QED
    BY <2>2, SeqDef, LenProperties, <1>1
<1>4. \A i \in 1..n : d[i] = (w \div PowerOf16[n - i]) % 16
  BY <1>1, <1>2
<1>5. PICK z : z = [i \in 1..(HexDigits - n) |-> 0]
  OBVIOUS
<1>6. z \in Seq(0..15) /\ Len(z) = HexDigits - n /\ \A i \in 1..(HexDigits - n) : z[i] = 0
  <2>1. HexDigits - n \in Nat
    BY <1>0
  <2>2. z \in [1..(HexDigits - n) -> 0..15]
    BY <1>5
  <2> QED
    BY <1>5, <2>1, <2>2, SeqDef, LenProperties
<1>7. hexWord(w) = z \o d
  BY <1>2, <1>3, <1>5, Zenon DEF hexWord
<1>8. z \o d \in Seq(0..15) /\ IsJoin(z \o d, z, d)
  BY <1>3, <1>6, JoinedSeqs
<1>9. PICK h : h = z \o d
  OBVIOUS
<1>10. Len(h) = HexDigits
  BY <1>0, <1>3, <1>6, <1>8, <1>9 DEF IsJoin
<1>11. ASSUME NEW i \in 1..HexDigits
       PROVE  h[i] = (w \div PowerOf16[HexDigits - i]) % 16
  <2>1. CASE i <= HexDigits - n
    <3>1. h[i] = 0
      BY <1>0, <1>3, <1>6, <1>8, <1>9, <2>1 DEF IsJoin
    <3>2. HexDigits - i \in Nat /\ n <= HexDigits - i
      BY <1>0, <2>1
    <3>3. PICK p \in Nat \ {0} : p = PowerOf16[HexDigits - i]
      BY <3>2, PowerSteps
    <3>4. w < p
      <4>0. n \in Nat
        BY <1>0
      <4>1. PICK q \in Nat : q = PowerOf16[n] /\ w < q
        BY <1>1, <4>0, PowerSteps
      <4>2. q <= p
        BY <3>2, <3>3, <4>1, PowersGrow
      <4> QED
        BY <1>1, <4>1, <4>2
    <3>5. w \div p = 0
      BY <1>1, <3>3, <3>4, SmallDiv
    <3> QED
      BY <3>1, <3>3, <3>5
  <2>2. CASE i > HexDigits - n
    <3>1. PICK j \in 1..n : i = HexDigits - n + j
      <4>1. i - (HexDigits - n) \in 1..n
        BY <1>0, <2>2
      <4> QED
        BY <4>1, <1>0
    <3>2. h[i] = d[j]
      BY <1>0, <1>3, <1>6, <1>8, <1>9, <3>1 DEF IsJoin
    <3>3. n - j = HexDigits - i
      BY <1>0, <3>1
    <3> QED
      BY <1>4, <3>2, <3>3
  <2> QED
    BY <1>0, <2>1, <2>2
<1> QED
  BY <1>7, <1>8, <1>9, <1>10, <1>11

\* A sequence that goes on for one element.
LEMMA OneMore ==
  ASSUME NEW T, NEW n \in Nat, NEW t \in Seq(T), Len(t) = n,
         NEW u \in Seq(T), Len(u) = n + 1, \A i \in 1..n : u[i] = t[i]
  PROVE  u[n + 1] \in T /\ u = Append(t, u[n + 1])
<1>1. n + 1 \in 1..Len(u)
  OBVIOUS
<1>2. PICK l : l = u[n + 1]
  OBVIOUS
<1>3. l \in T
  BY <1>1, <1>2, ElementOfSeq
<1>4. PICK v : v = Append(t, l)
  OBVIOUS
<1>5. /\ v \in Seq(T) /\ Len(v) = n + 1
      /\ \A i \in 1..n : v[i] = t[i]
      /\ v[n + 1] = l
  BY <1>3, <1>4, AppendProperties
<1>6. ASSUME NEW i \in 1..(n + 1) PROVE u[i] = v[i]
  <2>1. CASE i = n + 1
    BY <1>2, <1>5, <2>1
  <2>2. CASE i \in 1..n
    BY <1>5, <2>2
  <2> QED
    BY <2>1, <2>2
<1>7. u = v
  BY <1>5, <1>6, SeqEqual
<1> QED
  BY <1>2, <1>3, <1>4, <1>7, Zenon

\* Blocks of one length, and what they are one behind the other.
OfSize(seqs, width) == \A b \in 1..Len(seqs) : Len(seqs[b]) = width

Blocks(f, seqs, width) ==
    /\ Len(f) = width * Len(seqs)
    /\ \A b \in 1..Len(seqs) : \A j \in 1..width : f[width * (b - 1) + j] = seqs[b][j]

\* FlattenSeq puts them one behind the other.
LEMMA BlocksFlat ==
  ASSUME NEW T, NEW width \in Nat, NEW seqs \in Seq(Seq(T)), OfSize(seqs, width)
  PROVE  FlattenSeq(seqs) \in Seq(T) /\ Blocks(FlattenSeq(seqs), seqs, width)
<1> DEFINE Flat(s) ==
        /\ FlattenSeq(s) \in Seq(T)
        /\ Len(FlattenSeq(s)) = width * Len(s)
        /\ \A b \in 1..Len(s) : \A j \in 1..width :
               FlattenSeq(s)[width * (b - 1) + j] = s[b][j]
    S == {n \in Nat : \A s \in Seq(Seq(T)) :
              Len(s) = n /\ (\A b \in 1..Len(s) : Len(s[b]) = width) => Flat(s)}
<1>1. 0 \in S
  <2> SUFFICES ASSUME NEW s \in Seq(Seq(T)), Len(s) = 0 PROVE Flat(s)
    OBVIOUS
  <2>1. s = <<>>
    BY EmptySeq
  <2>2. FlattenSeq(s) = <<>>
    BY <2>1, EmptySeq DEF FlattenSeq
  <2>3. /\ FlattenSeq(s) \in Seq(T) /\ Len(FlattenSeq(s)) = 0 /\ width * Len(s) = 0
    BY <2>2, EmptySeq
  <2> QED
    BY <2>3
<1>2. ASSUME NEW n \in Nat, n \in S PROVE n + 1 \in S
  <2> SUFFICES ASSUME NEW s \in Seq(Seq(T)), Len(s) = n + 1,
                      \A b \in 1..Len(s) : Len(s[b]) = width
               PROVE  Flat(s)
    OBVIOUS
  <2>1. PICK t, l : t = SubSeq(s, 1, n) /\ l = s[n + 1]
    OBVIOUS
  <2>2. /\ t \in Seq(Seq(T)) /\ Len(t) = n /\ l \in Seq(T) /\ s = Append(t, l)
        /\ \A b \in 1..n : t[b] = s[b]
    <3>1. n + 1 \in 1..Len(s) /\ n \in 0..Len(s) /\ n \in Nat
      OBVIOUS
    <3>2. /\ t \in Seq(Seq(T)) /\ Len(t) = n
          /\ \A b \in 1..n : t[b] = s[b]
      BY <2>1, <3>1, SubSeqProperties, CutSeq
    <3>3. \A b \in 1..n : s[b] = t[b]
      BY <3>2
    <3>4. s[n + 1] \in Seq(T) /\ s = Append(t, s[n + 1])
      BY <3>1, <3>2, <3>3, OneMore, Zenon
    <3> QED
      BY <2>1, <3>2, <3>4, Zenon
  <2>3. Flat(t)
    <3>1. \A b \in 1..Len(t) : Len(t[b]) = width
      BY <2>2
    <3> QED
      BY <1>2, <2>2, <3>1
  <2>4. /\ FlattenSeq(t) \in Seq(T)
        /\ FlattenSeq(s) = FlattenSeq(t) \o l
    BY <2>2, FlattenAppend, Zenon
  <2>5. PICK a : a = FlattenSeq(t)
    OBVIOUS
  <2>6. /\ a \in Seq(T) /\ Len(a) = width * n
        /\ \A b \in 1..n : \A j \in 1..width : a[width * (b - 1) + j] = t[b][j]
    BY <2>2, <2>3, <2>5
  <2>7. Len(l) = width
    BY <2>1
  <2>8. PICK f : f = a \o l
    OBVIOUS
  <2>9. f \in Seq(T) /\ IsJoin(f, a, l)
    BY <2>2, <2>6, <2>8, JoinedSeqs
  <2>10. Len(f) = width * (n + 1)
    <3>1. width * n + width = width * (n + 1)
      OBVIOUS
    <3> QED
      BY <2>6, <2>7, <2>9, <3>1 DEF IsJoin
  <2>11. ASSUME NEW b \in 1..(n + 1), NEW j \in 1..width
         PROVE  f[width * (b - 1) + j] = s[b][j]
    <3>1. CASE b = n + 1
      <4>1. PICK x \in Nat : x = width * n /\ width * (b - 1) = x
        BY <3>1
      <4>2. f[x + j] = l[j]
        BY <2>6, <2>7, <2>9, <4>1 DEF IsJoin
      <4> QED
        BY <2>1, <3>1, <4>1, <4>2
    <3>2. CASE b <= n
      <4>1. PICK x \in Nat : x = width * (b - 1)
        OBVIOUS
      <4>2. x + j <= width * n
        <5>1. width * (b - 1) + width = width * b
          OBVIOUS
        <5>2. width * b <= width * n
          BY <3>2
        <5>3. PICK y \in Int, z \in Int : y = width * b /\ z = width * n
          OBVIOUS
        <5>4. x + width = y /\ y <= z
          BY <4>1, <5>1, <5>2, <5>3
        <5>5. x \in Int /\ y \in Int /\ z \in Int /\ j \in Int /\ j <= width /\ width \in Int
          BY <4>1, <5>3
        <5>6. x + j <= z
          <6> HIDE <4>1, <5>3
          <6> QED
            BY <5>4, <5>5
        <5> QED
          BY <5>3, <5>6
      <4>3. x + j \in 1..Len(a)
        <5>1. PICK y \in Nat : y = width * n /\ y = Len(a)
          BY <2>6
        <5>2. x + j <= y /\ x + j \in Nat /\ x + j >= 1
          BY <4>2, <5>1
        <5> QED
          BY <5>1, <5>2
      <4>4. f[x + j] = a[x + j]
        BY <2>9, <4>3 DEF IsJoin
      <4>5. a[x + j] = t[b][j]
        <5>1. b \in 1..n
          BY <3>2
        <5>2. a[width * (b - 1) + j] = t[b][j]
          BY <2>6, <5>1
        <5> QED
          BY <4>1, <5>2, Zenon
      <4> QED
        BY <2>2, <3>2, <4>1, <4>4, <4>5
    <3> QED
      BY <3>1, <3>2
  <2>12. FlattenSeq(s) = f
    BY <2>4, <2>5, <2>8
  <2> QED
    BY <2>9, <2>10, <2>11, <2>12
<1>3. Nat \subseteq S
  <2> HIDE DEF S
  <2> QED
    BY <1>1, <1>2, NatSetInduction
<1>4. Len(seqs) \in S
  BY <1>3, LenProperties
<1> QED
  BY <1>4 DEF Blocks, OfSize

\* The pieces that urlEncode puts one behind the other.
UrlPiece(s, i) == IF i % 2 = 1 THEN <<Percent, s[i]>> ELSE <<s[i]>>

\* The encoding of an even number of digits: a sign, a digit, a digit.
LEMMA UrlEncoded ==
  ASSUME NEW m \in Nat, NEW s \in Seq(0..15), Len(s) = 2 * m
  PROVE  /\ urlEncode(s) \in Seq(Int) /\ Len(urlEncode(s)) = 3 * m
         /\ \A r \in 1..m : /\ urlEncode(s)[3 * r - 2] = Percent
                            /\ urlEncode(s)[3 * r - 1] = s[2 * r - 1]
                            /\ urlEncode(s)[3 * r] = s[2 * r]
<1> DEFINE pieces(n) == [i \in 1..n |-> UrlPiece(s, i)]
    Coded(f, q) ==
        /\ f \in Seq(Int) /\ Len(f) = 3 * q
        /\ \A r \in 1..q : /\ f[3 * r - 2] = Percent
                           /\ f[3 * r - 1] = s[2 * r - 1]
                           /\ f[3 * r] = s[2 * r]
    S == {q \in Nat : q <= m => Coded(FlattenSeq(pieces(2 * q)), q)}
<1>0. ASSUME NEW i \in 1..(2 * m)
      PROVE  UrlPiece(s, i) \in Seq(Int) /\ s[i] \in Int
  <2>1. s[i] \in 0..15
    BY ElementOfSeq
  <2>2. <<Percent, s[i]>> \in Seq(Int) /\ <<s[i]>> \in Seq(Int)
    BY <2>1 DEF Percent
  <2> QED
    BY <2>1, <2>2 DEF UrlPiece
<1>00. ASSUME NEW n \in 0..(2 * m)
       PROVE  pieces(n) \in Seq(Seq(Int)) /\ Len(pieces(n)) = n
  <2>1. pieces(n) \in [1..n -> Seq(Int)]
    BY <1>0
  <2> HIDE DEF pieces
  <2>2. n \in Nat
    OBVIOUS
  <2> QED
    BY <2>1, <2>2, SeqDef, LenProperties
<1>1. 0 \in S
  <2>1. pieces(0) = <<>>
    <3>1. pieces(0) \in Seq(Seq(Int)) /\ Len(pieces(0)) = 0
      BY <1>00
    <3> HIDE DEF pieces
    <3> QED
      BY <3>1, EmptySeq
  <2>2. FlattenSeq(pieces(0)) = <<>>
    BY <2>1, EmptySeq DEF FlattenSeq
  <2>3. Coded(<<>>, 0)
    BY EmptySeq
  <2> HIDE DEF Coded, pieces
  <2> QED
    BY <2>2, <2>3
<1>2. ASSUME NEW q \in Nat, q \in S PROVE q + 1 \in S
  <2> SUFFICES ASSUME q + 1 <= m PROVE Coded(FlattenSeq(pieces(2 * (q + 1))), q + 1)
    OBVIOUS
  <2>1. PICK o, e : o = s[2 * q + 1] /\ e = s[2 * q + 2]
    OBVIOUS
  <2>2. /\ 2 * q \in 0..(2 * m) /\ 2 * q + 1 \in 1..(2 * m) /\ 2 * q + 2 \in 1..(2 * m)
        /\ (2 * q + 1) % 2 = 1 /\ (2 * q + 2) % 2 = 0
    OBVIOUS
  <2>3. o \in Int /\ e \in Int
    BY <1>0, <2>1, <2>2
  <2>4. /\ UrlPiece(s, 2 * q + 1) = <<Percent, o>>
        /\ UrlPiece(s, 2 * q + 2) = <<e>>
    BY <2>1, <2>2 DEF UrlPiece
  <2>5. PICK a, b : a = <<Percent, o>> /\ b = <<e>>
    OBVIOUS
  <2>6. /\ a \in Seq(Int) /\ Len(a) = 2 /\ a[1] = Percent /\ a[2] = o
        /\ b \in Seq(Int) /\ Len(b) = 1 /\ b[1] = e
    BY <2>3, <2>5 DEF Percent
  <2>7. pieces(2 * q + 1) = Append(pieces(2 * q), a)
    <3>1. /\ pieces(2 * q) \in Seq(Seq(Int)) /\ Len(pieces(2 * q)) = 2 * q
          /\ pieces(2 * q + 1) \in Seq(Seq(Int)) /\ Len(pieces(2 * q + 1)) = 2 * q + 1
      BY <1>00, <2>2
    <3>2. \A i \in 1..2 * q : pieces(2 * q + 1)[i] = pieces(2 * q)[i]
      OBVIOUS
    <3>3. pieces(2 * q + 1)[2 * q + 1] = a
      BY <2>4, <2>5
    <3>4. PICK n, t, u : n = 2 * q /\ t = pieces(2 * q) /\ u = pieces(2 * q + 1)
      OBVIOUS
    <3> HIDE DEF pieces
    <3>5. /\ n \in Nat /\ t \in Seq(Seq(Int)) /\ Len(t) = n
          /\ u \in Seq(Seq(Int)) /\ Len(u) = n + 1
          /\ \A i \in 1..n : u[i] = t[i]
      BY <3>1, <3>2, <3>4
    <3>6. u[n + 1] = a
      BY <3>3, <3>4
    <3>7. u = Append(t, u[n + 1])
      BY <3>5, OneMore
    <3> QED
      BY <3>4, <3>6, <3>7, Zenon
  <2>8. pieces(2 * q + 2) = Append(pieces(2 * q + 1), b)
    <3>1. /\ pieces(2 * q + 1) \in Seq(Seq(Int)) /\ Len(pieces(2 * q + 1)) = 2 * q + 1
          /\ pieces(2 * q + 2) \in Seq(Seq(Int)) /\ Len(pieces(2 * q + 2)) = 2 * q + 2
      BY <1>00, <2>2
    <3>2. \A i \in 1..(2 * q + 1) : pieces(2 * q + 2)[i] = pieces(2 * q + 1)[i]
      OBVIOUS
    <3>3. pieces(2 * q + 2)[2 * q + 2] = b
      BY <2>4, <2>5
    <3>4. PICK n, t, u : n = 2 * q + 1 /\ t = pieces(2 * q + 1) /\ u = pieces(2 * q + 2)
      OBVIOUS
    <3> HIDE DEF pieces
    <3>5. /\ n \in Nat /\ t \in Seq(Seq(Int)) /\ Len(t) = n
          /\ u \in Seq(Seq(Int)) /\ Len(u) = n + 1
          /\ \A i \in 1..n : u[i] = t[i]
      BY <3>1, <3>2, <3>4
    <3>6. u[n + 1] = b
      BY <3>3, <3>4
    <3>7. u = Append(t, u[n + 1])
      BY <3>5, OneMore
    <3> QED
      BY <3>4, <3>6, <3>7, Zenon
  <2>9. PICK f : f = FlattenSeq(pieces(2 * q))
    OBVIOUS
  <2>10. f \in Seq(Int) /\ Len(f) = 3 * q /\ Coded(f, q)
    <3>1. Coded(FlattenSeq(pieces(2 * q)), q)
      BY <1>2
    <3> QED
      BY <2>9, <3>1
  <2>11. FlattenSeq(pieces(2 * (q + 1))) = (f \o a) \o b
    <3>1. /\ pieces(2 * q) \in Seq(Seq(Int)) /\ pieces(2 * q + 1) \in Seq(Seq(Int))
      BY <1>00, <2>2
    <3>2. 2 * (q + 1) = 2 * q + 2
      OBVIOUS
    <3> HIDE DEF pieces
    <3>3. FlattenSeq(pieces(2 * q + 1)) = f \o a
      BY <2>6, <2>7, <2>9, <3>1, FlattenAppend, Zenon
    <3>4. FlattenSeq(pieces(2 * q + 2)) = (f \o a) \o b
      BY <2>6, <2>8, <3>1, <3>3, FlattenAppend, Zenon
    <3> QED
      BY <3>2, <3>4
  <2>12. PICK g : g = f \o a
    OBVIOUS
  <2>13. g \in Seq(Int) /\ IsJoin(g, f, a)
    BY <2>6, <2>10, <2>12, JoinedSeqs
  <2>14. PICK h : h = g \o b
    OBVIOUS
  <2>15. h \in Seq(Int) /\ IsJoin(h, g, b)
    BY <2>6, <2>13, <2>14, JoinedSeqs
  <2>16. Len(g) = 3 * q + 2 /\ Len(h) = 3 * q + 3
    BY <2>6, <2>10, <2>13, <2>15 DEF IsJoin
  <2>17. \A k \in 1..(3 * q) : h[k] = f[k]
    <3>1. ASSUME NEW k \in 1..(3 * q) PROVE h[k] = f[k]
      <4>1. k \in 1..Len(f) /\ k \in 1..Len(g)
        BY <2>10, <2>16
      <4>2. g[k] = f[k]
        BY <2>13, <4>1 DEF IsJoin
      <4>3. h[k] = g[k]
        BY <2>15, <4>1 DEF IsJoin
      <4> QED
        BY <4>2, <4>3
    <3> QED
      BY <3>1
  <2>18. h[3 * q + 1] = Percent /\ h[3 * q + 2] = o /\ h[3 * q + 3] = e
    <3>1. g[3 * q + 1] = a[1] /\ g[3 * q + 2] = a[2]
      BY <2>6, <2>10, <2>13 DEF IsJoin
    <3>2. h[3 * q + 1] = g[3 * q + 1] /\ h[3 * q + 2] = g[3 * q + 2]
      BY <2>15, <2>16 DEF IsJoin
    <3>3. h[3 * q + 3] = b[1]
      <4>1. 1 \in 1..Len(b) /\ Len(g) + 1 = 3 * q + 3
        BY <2>6, <2>16
      <4>2. h[Len(g) + 1] = b[1]
        BY <2>15, <4>1 DEF IsJoin
      <4> QED
        BY <4>1, <4>2
    <3> QED
      BY <2>6, <3>1, <3>2, <3>3
  <2>19. ASSUME NEW r \in 1..(q + 1)
         PROVE  /\ h[3 * r - 2] = Percent
                /\ h[3 * r - 1] = s[2 * r - 1]
                /\ h[3 * r] = s[2 * r]
    <3>1. CASE r = q + 1
      <4>1. /\ 3 * r - 2 = 3 * q + 1 /\ 3 * r - 1 = 3 * q + 2 /\ 3 * r = 3 * q + 3
            /\ 2 * r - 1 = 2 * q + 1 /\ 2 * r = 2 * q + 2
        BY <3>1
      <4> QED
        BY <2>1, <2>18, <4>1
    <3>2. CASE r <= q
      <4>1. r \in 1..q /\ 3 * r - 2 \in 1..(3 * q) /\ 3 * r - 1 \in 1..(3 * q) /\ 3 * r \in 1..(3 * q)
        BY <3>2
      <4>2. f[3 * r - 2] = Percent /\ f[3 * r - 1] = s[2 * r - 1] /\ f[3 * r] = s[2 * r]
        BY <2>10, <4>1
      <4> QED
        BY <2>17, <4>1, <4>2
    <3> QED
      BY <3>1, <3>2
  <2>20. Coded(h, q + 1)
    <3>1. h \in Seq(Int) /\ Len(h) = 3 * (q + 1)
      BY <2>15, <2>16
    <3> QED
      BY <2>19, <3>1, Zenon
  <2> HIDE DEF Coded, pieces
  <2> QED
    BY <2>11, <2>12, <2>14, <2>20
<1>3. Nat \subseteq S
  <2> HIDE DEF S
  <2> QED
    BY <1>1, <1>2, NatSetInduction
<1>4. Coded(FlattenSeq(pieces(2 * m)), m)
  <2>1. m \in S
    BY <1>3
  <2> HIDE DEF Coded, pieces
  <2> QED
    BY <2>1
<1>5. urlEncode(s) = FlattenSeq(pieces(2 * m))
  <2>1. DOMAIN s = 1..(2 * m)
    BY LenProperties
  <2> QED
    BY <2>1, Zenon DEF urlEncode, UrlPiece
<1> QED
  BY <1>4, <1>5

\* What is known of the request: the hash and its hexadecimal digits are those
\* of one digest, and the parameters, once there are any, are made of them.
HexInv ==
    /\ at # "hash" =>
           /\ res \in [1..DigestWords -> Words]
           /\ info_hash_hex = FlattenSeq([i \in 1..DigestWords |-> hexWord(res[i])])
    /\ at \notin {"hash", "id"} => unique_id = generateId
    /\ parameters # <<>> => at \in {"handshake", "assert"} /\ parameters = buildAnnounceParameters

\* The number of a byte of the digest, from its word and its place in it.
LEMMA BytePlace ==
  ASSUME NEW p \in Nat \ {0}, NEW d \in Nat, NEW i \in 1..(d * p)
  PROVE  \E b \in 1..d : \E j \in 0..(p - 1) :
            /\ i = p * (b - 1) + j + 1
            /\ (i - 1) \div p = b - 1 /\ (i - 1) % p = j
<1>0. d * p \in Nat /\ i - 1 \in Nat /\ i <= d * p
  OBVIOUS
<1>1. PICK q \in Nat, j \in 0..(p - 1) :
          q = (i - 1) \div p /\ j = (i - 1) % p /\ i - 1 = p * q + j
  BY <1>0
<1>2. q < d
  <2> SUFFICES ASSUME q >= d PROVE FALSE
    BY <1>1
  <2>1. p * q >= p * d /\ p * d = d * p
    BY <1>1
  <2>2. PICK x \in Int, y \in Int : x = p * q /\ y = d * p
    BY <1>1
  <2>3. x >= y /\ i - 1 = x + j /\ i <= y /\ j >= 0
    BY <1>0, <1>1, <2>1, <2>2
  <2> QED
    BY <2>3
<1>3. q + 1 \in 1..d /\ (q + 1) - 1 = q
  BY <1>1, <1>2
<1>4. i = p * q + j + 1
  <2>1. PICK x \in Int : x = p * q
    BY <1>1
  <2> QED
    BY <1>1, <2>1
<1> QED
  BY <1>1, <1>3, <1>4

\* The digits of the digest, two and two, are its bytes.
LEMMA DigestDigits ==
  ASSUME res \in [1..DigestWords -> Words],
         NEW hex, hex = FlattenSeq([i \in 1..DigestWords |-> hexWord(res[i])])
  PROVE  /\ DigestBytes \in Nat
         /\ hex \in Seq(0..15) /\ Len(hex) = 2 * DigestBytes
         /\ \A i \in 1..DigestBytes : 16 * hex[2 * i - 1] + hex[2 * i] = HashBytes[i]
<1>0. PICK p \in Nat \ {0} : HexDigits = 2 * p /\ HexDigits \div 2 = p
  <2>1. HexDigits \in Nat \ {0} /\ HexDigits % 2 = 0
    BY AnnounceAssumption DEF AnnounceAssumption
  <2>2. HexDigits \div 2 \in Nat \ {0} /\ HexDigits = 2 * (HexDigits \div 2)
    BY <2>1
  <2> QED
    BY <2>2
<1>1. DigestWords \in Nat
  BY AnnounceAssumption DEF AnnounceAssumption
<1>2. DigestBytes = DigestWords * p /\ DigestBytes \in Nat
  BY <1>0, <1>1 DEF DigestBytes
<1>3. PICK words : words = [i \in 1..DigestWords |-> hexWord(res[i])]
  OBVIOUS
<1>4. /\ words \in Seq(Seq(0..15)) /\ Len(words) = DigestWords
      /\ \A b \in 1..DigestWords : words[b] = hexWord(res[b]) /\ Len(words[b]) = HexDigits
  <2>1. \A b \in 1..DigestWords :
            hexWord(res[b]) \in Seq(0..15) /\ Len(hexWord(res[b])) = HexDigits
    BY HexWordIs
  <2>2. words \in [1..DigestWords -> Seq(0..15)]
    BY <1>3, <2>1
  <2> QED
    BY <1>1, <1>3, <2>1, <2>2, SeqDef, LenProperties
<1>5. /\ hex \in Seq(0..15) /\ Len(hex) = HexDigits * DigestWords
      /\ \A b \in 1..DigestWords : \A j \in 1..HexDigits :
             hex[HexDigits * (b - 1) + j] = words[b][j]
  <2>1. HexDigits \in Nat /\ hex = FlattenSeq(words)
    BY <1>0, <1>3
  <2>2. OfSize(words, HexDigits)
    BY <1>4 DEF OfSize
  <2>3. words \in Seq(Seq(0..15)) /\ HexDigits \in Nat
    BY <1>4, <2>1
  <2>4. hex \in Seq(0..15) /\ Blocks(hex, words, HexDigits)
    BY <2>1, <2>2, <2>3, BlocksFlat
  <2> QED
    BY <1>4, <2>4 DEF Blocks
<1>6. Len(hex) = 2 * DigestBytes
  <2>1. (2 * p) * DigestWords = 2 * (DigestWords * p)
    BY <1>1
  <2> QED
    BY <1>0, <1>2, <1>5, <2>1
<1>7. ASSUME NEW i \in 1..DigestBytes
      PROVE  16 * hex[2 * i - 1] + hex[2 * i] = HashBytes[i]
  <2>1. PICK b \in 1..DigestWords, j \in 0..(p - 1) :
            /\ i = p * (b - 1) + j + 1
            /\ (i - 1) \div p = b - 1 /\ (i - 1) % p = j
    BY <1>1, <1>2, BytePlace
  <2>2. PICK w \in Words : w = res[b]
    OBVIOUS
  <2>3. w \in Nat
    BY AnnounceAssumption, PowerSteps DEF AnnounceAssumption
  <2>4. PICK n \in Nat : n = 2 * (p - 1 - j)
    OBVIOUS
  <2>5. PICK pow \in Nat \ {0} : pow = PowerOf16[n] /\ PowerOf16[n + 1] = 16 * pow
    BY <2>4, PowerSteps
  <2>6. HashBytes[i] = (w \div pow) % 256
    <3>1. HashBytes[i] = (res[((i - 1) \div p) + 1]
                              \div PowerOf16[2 * (p - 1 - ((i - 1) % p))]) % 256
      BY <1>0 DEF HashBytes
    <3>2. ((i - 1) \div p) + 1 = b
      BY <2>1
    <3> QED
      BY <2>1, <2>2, <2>4, <2>5, <3>1, <3>2
  <2>7. /\ 2 * i - 1 = HexDigits * (b - 1) + (2 * j + 1)
        /\ 2 * i = HexDigits * (b - 1) + (2 * j + 2)
    <3>1. (2 * p) * (b - 1) = 2 * (p * (b - 1))
      OBVIOUS
    <3>2. PICK x \in Int : x = p * (b - 1)
      OBVIOUS
    <3>3. i = x + j + 1 /\ HexDigits * (b - 1) = 2 * x
      BY <1>0, <2>1, <3>1, <3>2
    <3> QED
      BY <3>3
  <2>8. /\ 2 * j + 1 \in 1..HexDigits /\ 2 * j + 2 \in 1..HexDigits
        /\ HexDigits - (2 * j + 1) = n + 1 /\ HexDigits - (2 * j + 2) = n
    BY <1>0, <2>4
  <2>9. hex[2 * i - 1] = hexWord(w)[2 * j + 1] /\ hex[2 * i] = hexWord(w)[2 * j + 2]
    <3>1. PICK c : c = HexDigits * (b - 1)
      OBVIOUS
    <3>2. hex[c + (2 * j + 1)] = words[b][2 * j + 1] /\ hex[c + (2 * j + 2)] = words[b][2 * j + 2]
      BY <1>5, <2>8, <3>1
    <3>3. words[b] = hexWord(w)
      BY <1>4, <2>2
    <3>4. 2 * i - 1 = c + (2 * j + 1) /\ 2 * i = c + (2 * j + 2)
      BY <2>7, <3>1
    <3> QED
      BY <3>2, <3>3, <3>4, Zenon
  <2>10. /\ hexWord(w)[2 * j + 1] = (w \div (16 * pow)) % 16
         /\ hexWord(w)[2 * j + 2] = (w \div pow) % 16
    <3>1. \A place \in 1..HexDigits :
              hexWord(w)[place] = (w \div PowerOf16[HexDigits - place]) % 16
      BY HexWordIs
    <3>2. PICK k \in 1..HexDigits, l \in 1..HexDigits :
              /\ k = 2 * j + 1 /\ l = 2 * j + 2
              /\ HexDigits - k = n + 1 /\ HexDigits - l = n
      BY <2>8
    <3>3. /\ hexWord(w)[k] = (w \div PowerOf16[n + 1]) % 16
          /\ hexWord(w)[l] = (w \div PowerOf16[n]) % 16
      BY <3>1, <3>2
    <3> QED
      BY <2>5, <3>2, <3>3, Zenon
  <2> QED
    <3>1. 16 * ((w \div (16 * pow)) % 16) + ((w \div pow) % 16) = (w \div pow) % 256
      BY <2>3, TwoDigits
    <3>2. PICK h, l : h = (w \div (16 * pow)) % 16 /\ l = (w \div pow) % 16
      OBVIOUS
    <3>3. hex[2 * i - 1] = h /\ hex[2 * i] = l
      BY <2>9, <2>10, <3>2, Zenon
    <3> QED
      BY <2>6, <3>1, <3>2, <3>3, Zenon
<1> QED
  BY <1>2, <1>5, <1>6, <1>7

\* The parameters of a request decode to the digest.
LEMMA ParametersDecode == HexInv => TrackerReadsHash
<1> SUFFICES ASSUME HexInv, parameters # <<>> PROVE TrackerReadsHash
  BY DEF TrackerReadsHash
<1>1. /\ res \in [1..DigestWords -> Words]
      /\ info_hash_hex = FlattenSeq([i \in 1..DigestWords |-> hexWord(res[i])])
      /\ unique_id = generateId
      /\ parameters = buildAnnounceParameters
  BY DEF HexInv
<1>2. PICK m \in Nat : m = DigestBytes
  BY <1>1, DigestDigits
<1>3. PICK hex : hex = info_hash_hex
  OBVIOUS
<1>4. /\ hex \in Seq(0..15) /\ Len(hex) = 2 * m
      /\ \A i \in 1..m : 16 * hex[2 * i - 1] + hex[2 * i] = HashBytes[i]
  BY <1>1, <1>2, <1>3, DigestDigits
<1>5. PICK enc : enc = urlEncode(hex)
  OBVIOUS
<1>6. /\ enc \in Seq(Int) /\ Len(enc) = 3 * m
      /\ \A r \in 1..m : /\ enc[3 * r - 2] = Percent
                         /\ enc[3 * r - 1] = hex[2 * r - 1]
                         /\ enc[3 * r] = hex[2 * r]
  BY <1>4, <1>5, UrlEncoded
<1>7. unique_id \in Seq(Int)
  <2>1. SubSeq(Rand, 1, 12) \in Seq(Int)
    <3>1. Rand \in Seq(Int) /\ 12 \in 0..Len(Rand)
      BY AnnounceAssumption, LenProperties DEF AnnounceAssumption
    <3> QED
      BY <3>1, CutSeq
  <2>2. [i \in 1..8 |-> Other] \in Seq(Int)
    <3>1. [i \in 1..8 |-> Other] \in [1..8 -> Int]
      BY DEF Other
    <3> QED
      BY <3>1, SeqDef
  <2> QED
    BY <1>1, <2>1, <2>2, ConcatProperties DEF generateId
<1>8. PICK o : o = <<Other>>
  OBVIOUS
<1>9. o \in Seq(Int) /\ Len(o) = 1 /\ o[1] = Other
  BY <1>8 DEF Other
<1>10. parameters = ((o \o enc) \o o) \o unique_id
  BY <1>1, <1>3, <1>5, <1>8, Zenon DEF buildAnnounceParameters
<1>11. PICK x : x = o \o enc
  OBVIOUS
<1>12. x \in Seq(Int) /\ IsJoin(x, o, enc)
  BY <1>6, <1>9, <1>11, JoinedSeqs
<1>13. PICK y : y = x \o o
  OBVIOUS
<1>14. y \in Seq(Int) /\ IsJoin(y, x, o)
  BY <1>9, <1>12, <1>13, JoinedSeqs
<1>15. parameters \in Seq(Int) /\ IsJoin(parameters, y, unique_id)
  BY <1>7, <1>10, <1>11, <1>13, <1>14, JoinedSeqs
<1>16. Len(x) = 1 + 3 * m /\ Len(y) = 2 + 3 * m /\ Len(parameters) >= 2 + 3 * m
  BY <1>6, <1>7, <1>9, <1>12, <1>14, <1>15, LenProperties DEF IsJoin
<1>17. parameters[2 + 3 * m] = Other
  <2>1. parameters[2 + 3 * m] = y[2 + 3 * m]
    BY <1>15, <1>16 DEF IsJoin
  <2>2. y[Len(x) + 1] = o[1]
    <3>1. 1 \in 1..Len(o)
      BY <1>9
    <3> QED
      BY <1>14, <3>1 DEF IsJoin
  <2>3. Len(x) + 1 = 2 + 3 * m
    BY <1>16
  <2> QED
    BY <1>9, <2>1, <2>2, <2>3
<1>18. ASSUME NEW k \in 1..(3 * m) PROVE parameters[1 + k] = enc[k]
  <2>1. /\ 1 + k \in 1..Len(x) /\ 1 + k \in 1..Len(y) /\ k \in 1..Len(enc)
        /\ Len(o) = 1
    <3>1. k \in Nat /\ 1 <= k /\ k <= 3 * m
      OBVIOUS
    <3> QED
      <4>1. PICK n \in Nat : n = 3 * m
        OBVIOUS
      <4>2. Len(x) = 1 + n /\ Len(y) = 2 + n /\ Len(enc) = n /\ Len(o) = 1 /\ k <= n
        BY <1>6, <1>9, <1>16, <3>1, <4>1
      <4> QED
        BY <3>1, <4>2
  <2>2. x[1 + k] = enc[k]
    BY <1>12, <2>1 DEF IsJoin
  <2>3. y[1 + k] = x[1 + k]
    BY <1>14, <2>1 DEF IsJoin
  <2>4. parameters[1 + k] = y[1 + k]
    BY <1>15, <2>1 DEF IsJoin
  <2> QED
    BY <2>2, <2>3, <2>4
<1>19. SubSeq(parameters, 2, 1 + 3 * m) = enc
  <2>1. PICK sub : sub = SubSeq(parameters, 2, 1 + 3 * m)
    OBVIOUS
  <2>2. \A i \in 2..(1 + 3 * m) : parameters[i] \in Int
    <3>1. 2..(1 + 3 * m) \subseteq 1..Len(parameters)
      BY <1>15, <1>16, LenProperties
    <3> QED
      BY <1>15, <3>1, ElementOfSeq
  <2>3. /\ sub \in Seq(Int)
        /\ Len(sub) = IF 2 <= 1 + 3 * m THEN (1 + 3 * m) - 2 + 1 ELSE 0
        /\ \A k \in 1..((1 + 3 * m) - 2 + 1) : sub[k] = parameters[2 + k - 1]
    BY <2>1, <2>2, SubSeqProperties
  <2>4. Len(sub) = 3 * m /\ (1 + 3 * m) - 2 + 1 = 3 * m
    BY <2>3
  <2>5. ASSUME NEW k \in 1..(3 * m) PROVE sub[k] = enc[k]
    <3>1. sub[k] = parameters[2 + k - 1] /\ 2 + k - 1 = 1 + k
      BY <2>3, <2>4
    <3> QED
      BY <1>18, <3>1
  <2> QED
    BY <1>6, <2>1, <2>3, <2>4, <2>5, SeqEqual
<1>20. ASSUME NEW i \in 1..(3 * m) PROVE (i % 3 = 1) <=> (enc[i] = Percent)
  <2>1. PICK r \in 1..m : i = 3 * r - 2 \/ i = 3 * r - 1 \/ i = 3 * r
    <3>1. ((i + 2) \div 3) \in 1..m
      OBVIOUS
    <3>2. i = 3 * ((i + 2) \div 3) - 2 \/ i = 3 * ((i + 2) \div 3) - 1 \/ i = 3 * ((i + 2) \div 3)
      OBVIOUS
    <3> QED
      BY <3>1, <3>2
  <2>2. CASE i = 3 * r - 2
    BY <1>6, <2>2
  <2>3. CASE i = 3 * r - 1
    <3>1. enc[i] = hex[2 * r - 1]
      BY <1>6, <2>3
    <3>2. hex[2 * r - 1] \in 0..15
      <4>1. 2 * r - 1 \in 1..Len(hex)
        BY <1>4
      <4> QED
        BY <1>4, <4>1, ElementOfSeq
    <3> QED
      <4>1. enc[i] # Percent
        <5>1. PICK d \in 0..15 : d = enc[i]
          BY <3>1, <3>2
        <5> QED
          BY <5>1 DEF Percent
      <4>2. i % 3 # 1
        BY <2>3
      <4> QED
        BY <4>1, <4>2
  <2>4. CASE i = 3 * r
    <3>1. enc[i] = hex[2 * r]
      BY <1>6, <2>4
    <3>2. hex[2 * r] \in 0..15
      <4>1. 2 * r \in 1..Len(hex)
        BY <1>4
      <4> QED
        BY <1>4, <4>1, ElementOfSeq
    <3> QED
      <4>1. enc[i] # Percent
        <5>1. PICK d \in 0..15 : d = enc[i]
          BY <3>1, <3>2
        <5> QED
          BY <5>1 DEF Percent
      <4>2. i % 3 # 1
        BY <2>4
      <4> QED
        BY <4>1, <4>2
  <2> QED
    BY <2>1, <2>2, <2>3, <2>4
<1>21. Decoded(enc) = HashBytes
  <2>1. Decoded(enc) = [i \in 1..m |-> 16 * enc[3 * i - 1] + enc[3 * i]]
    <3>1. (3 * m) \div 3 = m
      OBVIOUS
    <3> QED
      BY <1>6, <3>1 DEF Decoded
  <2>2. \A i \in 1..m : 16 * enc[3 * i - 1] + enc[3 * i] = HashBytes[i]
    BY <1>4, <1>6
  <2>3. HashBytes = [i \in 1..m |-> HashBytes[i]]
    BY <1>2 DEF HashBytes
  <2> QED
    BY <2>1, <2>2, <2>3
<1>22. DOMAIN enc = 1..(3 * m)
  BY <1>6, LenProperties
<1> QED
  BY <1>2, <1>17, <1>19, <1>20, <1>21, <1>22 DEF TrackerReadsHash

\* Each step of the client keeps what is known of the request.
LEMMA HexStep == HexInv /\ [AnnounceNext]_<<hashVars, announceVars>> => HexInv'
<1> SUFFICES ASSUME HexInv, [AnnounceNext]_<<hashVars, announceVars>> PROVE HexInv'
  OBVIOUS
<1>1. CASE UNCHANGED announceVars
  BY <1>1, Zenon DEF announceVars, HexInv, buildAnnounceParameters, generateId
<1>2. CASE GetSHA1
  BY <1>2 DEF GetSHA1, HexInv
<1>3. CASE GenerateId
  BY <1>3, Zenon DEF GenerateId, HexInv, generateId
<1>4. CASE BuildRequest
  BY <1>4, Zenon DEF BuildRequest, HexInv, buildAnnounceParameters, generateId
<1>5. CASE GetHandshake
  BY <1>5, Zenon DEF GetHandshake, HexInv, buildAnnounceParameters, generateId
<1> QED
  BY <1>1, <1>2, <1>3, <1>4, <1>5 DEF AnnounceNext

\* The tracker decodes the parameter info_hash (bhttp.cpp) to the bytes of the
\* digest, whatever the digest: getSHA1 writes every word with all its digits,
\* and urlEncode keeps their order and marks every byte.
THEOREM TrackerAlwaysReadsHash == AnnounceSpec => []TrackerReadsHash
<1>1. HashInit /\ AnnounceInit => HexInv
  BY DEF AnnounceInit, HexInv
<1>2. HexInv /\ [AnnounceNext]_<<hashVars, announceVars>> => HexInv'
  BY HexStep
<1>3. HexInv => TrackerReadsHash
  BY ParametersDecode
<1> QED
  BY <1>1, <1>2, <1>3, PTL DEF AnnounceSpec
-----------------------------------------------------------------------------
\* getBitfieldSize returns a natural number.
LEMMA SizeType == size \in Nat
<1>1. total_length \div piece_length \in Nat
  BY MetainfoAssumption
<1> QED BY <1>1 DEF size, getBitfieldSize

\* Two pieces that share their byte and their bit are the same piece, and a
\* piece below 8 * n has one of the bytes 1 to n.
LEMMA BitsDistinct ==
    ASSUME NEW p \in Nat, NEW q \in Nat, NEW n \in Nat
    PROVE  /\ ByteOf(p) \in Nat \ {0} /\ OffsetOf(p) \in 0..7
           /\ ByteOf(p) = ByteOf(q) /\ OffsetOf(p) = OffsetOf(q) => p = q
           /\ ByteOf(p) \in 1..n <=> p \in 0..(8 * n - 1)
<1>1. /\ p \div 8 \in Nat /\ p % 8 \in 0..7 /\ p = 8 * (p \div 8) + (p % 8)
      /\ q \div 8 \in Nat /\ q % 8 \in 0..7 /\ q = 8 * (q \div 8) + (q % 8)
  OBVIOUS
<1> QED BY <1>1 DEF ByteOf, OffsetOf

\* A bitfield of n bytes with no bit set, as createEmptyFile leaves it.
LEMMA ZerosType ==
    ASSUME NEW n \in Nat
    PROVE  Zeros(n) \in Seq(Byte) /\ Len(Zeros(n)) = n
<1>1. Zeros(n) \in [1..n -> Byte]
  BY DEF Zeros, Byte
<1> QED BY <1>1, SeqDef, LenProperties DEF Zeros

\* setBitInBitfield on a piece that has a bit: the size stays, and of all bits
\* exactly the one of the piece may change, to 1.
LEMMA SetBit ==
    ASSUME NEW bits \in Seq(Byte), NEW piece \in Nat, HasBit(bits, piece)
    PROVE  LET new == setBitInBitfield(bits, piece)
           IN /\ new \in Seq(Byte) /\ Len(new) = Len(bits)
              /\ \A q \in 0..(8 * Len(bits) - 1) :
                     isBitInBitfieldSet(new, q)
                         <=> isBitInBitfieldSet(bits, q) \/ q = piece
<1> DEFINE new == setBitInBitfield(bits, piece)
           b == ByteOf(piece)
<1>1. /\ Len(bits) \in Nat /\ DOMAIN bits = 1..Len(bits)
      /\ b \in DOMAIN bits /\ bits[b] \in Byte /\ OffsetOf(piece) \in 0..7
  BY LenProperties, ElementOfSeq, BitsDistinct DEF HasBit
<1>2. bits[b] \cup {OffsetOf(piece)} \in Byte
  BY <1>1 DEF Byte
<1>3. /\ new \in Seq(Byte) /\ Len(new) = Len(bits)
      /\ \A i \in DOMAIN bits :
             new[i] = IF i = b THEN bits[b] \cup {OffsetOf(piece)} ELSE bits[i]
  BY <1>1, <1>2, ExceptSeq DEF setBitInBitfield
<1>4. ASSUME NEW q \in 0..(8 * Len(bits) - 1)
      PROVE  isBitInBitfieldSet(new, q)
                 <=> isBitInBitfieldSet(bits, q) \/ q = piece
  <2>1. q \in Nat /\ ByteOf(q) \in DOMAIN bits
    BY <1>1, BitsDistinct
  <2>2. ByteOf(q) = b /\ OffsetOf(q) = OffsetOf(piece) <=> q = piece
    BY <2>1, BitsDistinct
  <2> HIDE DEF new
  <2> QED BY <1>3, <2>1, <2>2 DEF isBitInBitfieldSet
<1> QED BY <1>3, <1>4

\* Part of the content of a file is a content, with no more pieces.
LEMMA PartOfFile ==
    ASSUME NEW bits \in Seq(Byte), NEW n \in 0..Len(bits)
    PROVE  /\ SubSeq(bits, 1, n) \in Seq(Byte)
           /\ PiecesOf(SubSeq(bits, 1, n)) \subseteq PiecesOf(bits)
<1>1. n \in Nat /\ n <= Len(bits) /\ Len(bits) \in Nat
  BY LenProperties
<1>2. /\ SubSeq(bits, 1, n) \in Seq(Byte) /\ Len(SubSeq(bits, 1, n)) = n
      /\ \A i \in 1..n : SubSeq(bits, 1, n)[i] = bits[i]
  BY <1>1, SubSeqProperties
<1>3. ASSUME NEW p \in 0..(8 * n - 1)
      PROVE  p \in 0..(8 * Len(bits) - 1) /\ ByteOf(p) \in 1..n
  BY <1>1, <1>3 DEF ByteOf
<1> QED BY <1>2, <1>3 DEF PiecesOf, isBitInBitfieldSet

\* No bytes hold no pieces.
LEMMA NoPieces == <<>> \in Seq(Byte) /\ Len(<<>>) = 0 /\ PiecesOf(<<>>) = {}
<1>1. <<>> \in Seq(Byte) /\ Len(<<>>) = 0
  BY EmptySeq
<1> QED BY <1>1 DEF PiecesOf

\* Every step keeps the types, and as long as the disk did not fail the sizes.
LEMMA BitfieldTypeNext == BitfieldTypeOK /\ [Next]_vars => BitfieldTypeOK'
<1> SUFFICES ASSUME BitfieldTypeOK, [Next]_vars PROVE BitfieldTypeOK'
  OBVIOUS
<1> USE NoPieces, MetainfoAssumption DEF BitfieldTypeOK
<1>0. ASSUME Fails PROVE faults' \in 0..MaxFaults /\ faults' # 0
  BY <1>0 DEF Fails
<1>1. ASSUME NEW piece \in Arriving, SetPiece(piece)
      PROVE  BitfieldTypeOK'
  <2>1. piece \in Nat
    BY ArrivingAssumption
  <2> QED BY <1>1, <2>1, SetBit DEF SetPiece
<1>2. CASE \E piece \in Arriving : SetOutside(piece)
  BY <1>2 DEF SetOutside
<1>3. CASE readBitfield
  BY <1>3 DEF readBitfield
<1>4. CASE ReadFails
  <2>1. PICK n \in 0..(Len(file) - 1) : bitfield' = SubSeq(file, 1, n)
    BY <1>4 DEF ReadFails
  <2>2. n \in 0..Len(file)
    BY <2>1, LenProperties
  <2>3. bitfield' \in Seq(Byte)
    BY <2>1, <2>2, PartOfFile
  <2> QED BY <1>0, <1>4, <2>3 DEF ReadFails
<1>5. CASE ExitUnsaved
  BY <1>5 DEF ExitUnsaved, Ends
<1>6. CASE writeBitfield
  BY <1>6 DEF writeBitfield
<1>7. CASE OpenFails
  <2>1. /\ faults' \in 0..MaxFaults /\ file' = file
        /\ client' = "down" /\ bitfield' = <<>> /\ outside' = FALSE
    BY <1>0, <1>7 DEF OpenFails, Ends
  <2> QED BY <2>1
<1>8. CASE Write
  BY <1>8 DEF Write, Ends
<1>9. CASE WriteFails
  <2>1. PICK n \in 0..Len(bitfield) : file' = SubSeq(bitfield, 1, n)
    BY <1>9 DEF WriteFails
  <2>2. file' \in Seq(Byte)
    BY <2>1, PartOfFile
  <2>3. /\ faults' \in 0..MaxFaults
        /\ client' = "down" /\ bitfield' = <<>> /\ outside' = FALSE
    BY <1>0, <1>9 DEF WriteFails, Ends
  <2> QED BY <2>2, <2>3
<1>10. CASE UNCHANGED vars
  BY <1>10 DEF vars
<1> QED BY <1>1, <1>2, <1>3, <1>4, <1>5, <1>6, <1>7, <1>8, <1>9, <1>10 DEF Next

\* As long as no opening, reading or writing of the file failed, and no saving
\* was cut off, the vector of a running client is as long as its file.
THEOREM BitfieldTypeCorrect == Spec => []BitfieldTypeOK
<1>1. Init => BitfieldTypeOK
  <2>1. Found \subseteq Seq(Byte) /\ MaxFaults \in Nat
    BY MetainfoAssumption
  <2>2. Zeros(size) \in Seq(Byte)
    BY SizeType, ZerosType
  <2>3. {Zeros(size), <<>>} \cup Found \subseteq Seq(Byte)
    BY <2>1, <2>2, NoPieces
  <2> SUFFICES ASSUME Init PROVE BitfieldTypeOK
    OBVIOUS
  <2>4. file \in Seq(Byte)
    BY <2>3 DEF Init
  <2>5. client = "down" /\ bitfield = <<>> /\ outside = FALSE /\ faults = 0
    BY DEF Init
  <2>6. faults \in 0..MaxFaults
    BY <2>1, <2>5
  <2> QED BY <2>4, <2>5, <2>6, NoPieces DEF BitfieldTypeOK
<1> QED BY <1>1, BitfieldTypeNext, PTL DEF Spec

\* Every step of the bitfield adds its piece to the set, saves, loads or drops
\* the set, loses pieces by a fault, or leaves all alone (a piece that has no
\* bit, and the first half of a saving).
LEMMA PieceSetStep ==
    BitfieldTypeOK /\ [Next]_vars
        => [Abstract!Next]_<<PiecesOf(bitfield), PiecesOf(savedBits), faults>>
<1> SUFFICES ASSUME BitfieldTypeOK, [Next]_vars
             PROVE  \/ Abstract!Next
                    \/ UNCHANGED <<PiecesOf(bitfield), PiecesOf(savedBits), faults>>
  OBVIOUS
<1> DEFINE has == PiecesOf(bitfield)
           keeps == PiecesOf(savedBits)
<1>0. ASSUME Fails PROVE faults' = faults + 1
  BY <1>0 DEF Fails
<1>1. ASSUME NEW piece \in Arriving, SetPiece(piece)
      PROVE  Abstract!Add
  <2>1. piece \in Nat
    BY ArrivingAssumption
  <2>2. piece \in 0..(8 * Len(bitfield) - 1)
    BY <1>1, <2>1, BitsDistinct, LenProperties
       DEF SetPiece, HasBit, BitfieldTypeOK
  <2>3. PiecesOf(bitfield') = PiecesOf(bitfield) \cup {piece}
    BY <1>1, <2>1, <2>2, SetBit DEF SetPiece, PiecesOf, BitfieldTypeOK
  <2>4. has' = has \cup {piece} /\ keeps' = keeps /\ faults' = faults
    BY <1>1, <2>3 DEF SetPiece, PiecesOf, savedBits
  <2> QED BY <2>4 DEF Abstract!Add
<1>2. CASE \E piece \in Arriving : SetOutside(piece)
  BY <1>2 DEF SetOutside, PiecesOf, savedBits
<1>3. CASE readBitfield
  <2>1. has' = keeps /\ keeps' = keeps /\ faults' = faults
    BY <1>3 DEF readBitfield, PiecesOf, savedBits
  <2> QED BY <2>1 DEF Abstract!Next, Abstract!Load
<1>4. CASE ReadFails
  <2>1. PICK n \in 0..(Len(file) - 1) : bitfield' = SubSeq(file, 1, n)
    BY <1>4 DEF ReadFails
  <2>2. PiecesOf(bitfield') \subseteq PiecesOf(file)
    BY <2>1, PartOfFile, LenProperties DEF BitfieldTypeOK
  <2>3. has' \subseteq keeps /\ keeps' = keeps /\ faults' = faults + 1
    BY <1>0, <1>4, <2>2 DEF ReadFails, PiecesOf, savedBits
  <2> QED BY <2>3 DEF Abstract!Next, Abstract!Lose
<1>5. CASE ExitUnsaved
  <2>1. has' = {} /\ keeps' = keeps /\ faults' = faults
    BY <1>5, NoPieces DEF ExitUnsaved, Ends, PiecesOf, savedBits
  <2> QED BY <2>1 DEF Abstract!Next, Abstract!Stop
<1>6. CASE writeBitfield
  <2>1. has' = has /\ keeps' = has /\ faults' = faults
    BY <1>6 DEF writeBitfield, PiecesOf, savedBits
  <2> QED BY <2>1 DEF Abstract!Next, Abstract!Save
<1>7. CASE OpenFails
  <2>1. has' = {} /\ keeps' = keeps /\ faults' = faults + 1
    BY <1>0, <1>7, NoPieces DEF OpenFails, Ends, PiecesOf, savedBits
  <2> QED BY <2>1 DEF Abstract!Next, Abstract!Lose
<1>8. CASE Write
  <2>1. file' = bitfield
    BY <1>8 DEF Write, BitfieldTypeOK
  <2>2. has' = {} /\ keeps' = keeps /\ faults' = faults
    BY <1>8, <2>1, NoPieces DEF Write, Ends, PiecesOf, savedBits
  <2> QED BY <2>2 DEF Abstract!Next, Abstract!Stop
<1>9. CASE WriteFails
  <2>1. PICK n \in 0..Len(bitfield) : file' = SubSeq(bitfield, 1, n)
    BY <1>9 DEF WriteFails
  <2>2. PiecesOf(file') \subseteq PiecesOf(bitfield)
    BY <2>1, PartOfFile DEF BitfieldTypeOK
  <2>3. has' = {} /\ keeps' \subseteq keeps /\ faults' = faults + 1
    BY <1>0, <1>9, <2>2, NoPieces DEF WriteFails, Ends, PiecesOf, savedBits
  <2> QED BY <2>3 DEF Abstract!Next, Abstract!Lose
<1>10. CASE UNCHANGED vars
  BY <1>10 DEF vars, PiecesOf, savedBits
<1> QED BY <1>1, <1>2, <1>3, <1>4, <1>5, <1>6, <1>7, <1>8, <1>9, <1>10
        DEF Next, Abstract!Next

\* A client that was not started yet has no piece.
LEMMA PieceSetInit == Init => Abstract!Init
<1> SUFFICES ASSUME Init PROVE Abstract!Init
  OBVIOUS
<1>1. PiecesOf(bitfield) = {}
  BY NoPieces DEF Init
<1>2. PiecesOf(savedBits) \subseteq Nat
  BY DEF PiecesOf
<1>3. faults \in Nat
  BY DEF Init
<1> QED BY <1>1, <1>2, <1>3 DEF Abstract!Init

\* The vector and the file implement a set of pieces: it is there again in the
\* next run as it was saved, and whatever fails adds no piece to it.
THEOREM BitfieldIsPieceSet == Spec => IsPieceSet
<1>1. Init => Abstract!Init
  BY PieceSetInit
<1>2. BitfieldTypeOK /\ [Next]_vars
         => [Abstract!Next]_<<PiecesOf(bitfield), PiecesOf(savedBits), faults>>
  BY PieceSetStep
<1> QED BY <1>1, <1>2, BitfieldTypeCorrect, PTL
        DEF Spec, IsPieceSet, Abstract!Spec

-----------------------------------------------------------------------------
USE ObjectsAssumption

\* The values of the variables stay in their types.
LEMMA TypeStep == TypeOK /\ [SocketsNext]_socketVars => TypeOK'
<1> SUFFICES ASSUME TypeOK, [SocketsNext]_socketVars PROVE TypeOK'
  OBVIOUS
<1>14. gaveBack' \in BOOLEAN
  BY DEF SocketsNext, socketVars, TypeOK
<1> USE <1>14 DEF TypeOK, core, os, objects, Objects
<1>0. ASSUME Exit PROVE TypeOK'
  BY <1>0 DEF Exit
<1>1. CASE NewBSock
  <2>1. CASE /\ refs' = refs + 1 /\ live' = live \cup {Sock}
             /\ handle' = [handle EXCEPT ![Sock] = INVALID_SOCKET]
             /\ UNCHANGED <<up, owner, connected, ready, unclosed, receiving>>
    <3>1. handle' \in [Objects -> Handles \cup {INVALID_SOCKET}]
      BY <2>1
    <3> QED
      BY <2>1, <3>1
  <2> QED
    BY <1>0, <1>1, <2>1 DEF NewBSock
<1>2. CASE DeleteBSock
  BY <1>2 DEF DeleteBSock, WSACleanup
<1>3. CASE OpenSocketFails
  <2>1. refs' \in Nat /\ owner' \in [Handles -> Objects \cup {None}]
        /\ connected' \subseteq Handles /\ ready' \subseteq connected'
    BY <1>3 DEF OpenSocketFails, WSACleanup
  <2>2. handle' \in [Objects -> Handles \cup {INVALID_SOCKET}]
    BY <1>3 DEF OpenSocketFails
  <2> QED
    BY <1>3, <2>1, <2>2 DEF OpenSocketFails
<1>4. CASE OpenSocket
  <2>1. CASE /\ SocketFor(Sock)
             /\ UNCHANGED <<up, refs, connected, ready, live, receiving>>
    BY <2>1 DEF SocketFor
  <2> QED
    BY <1>0, <1>4, <2>1 DEF OpenSocket
<1>5. ASSUME NEW p \in Peers, NewBPeer(p) PROVE TypeOK'
  BY <1>5 DEF NewBPeer, SocketFor
<1>6. ASSUME NEW p \in Peers, DeleteBPeer(p) PROVE TypeOK'
  BY <1>6 DEF DeleteBPeer, CloseSocket
<1>7. ASSUME NEW p \in Peers, TryConnect(p) PROVE TypeOK'
  <2>1. connected' \subseteq Handles /\ ready' \subseteq connected'
    BY <1>7 DEF TryConnect
  <2> QED
    BY <1>7, <2>1 DEF TryConnect
<1>8. ASSUME NEW p \in Peers, SendMessageFails(p) PROVE TypeOK'
  BY <1>8 DEF SendMessageFails, CloseSocket
<1>9. ASSUME NEW p \in Peers, CloseConnection(p) PROVE TypeOK'
  <2>1. CASE /\ CloseSocket(p)
             /\ UNCHANGED <<up, refs, live, handle,
                            receiving>>
    BY <2>1 DEF CloseSocket
  <2> QED
    BY <1>0, <1>9, <2>1 DEF CloseConnection
<1>10. ASSUME NEW p \in Peers, TryReceive(p) PROVE TypeOK'
  BY <1>10 DEF TryReceive
<1>11. CASE Receive
  BY <1>0, <1>11 DEF Receive
<1>12. CASE Arrive
  BY <1>12 DEF Arrive
<1>13. CASE UNCHANGED socketVars
  BY <1>13, <1>14 DEF socketVars, core
<1> QED
  BY <1>1, <1>2, <1>3, <1>4, <1>5, <1>6, <1>7, <1>8, <1>9, <1>10, <1>11,
     <1>12, <1>13 DEF SocketsNext, GiveBack, Keep

\* Every variable has its type, in every state.
THEOREM SocketsTypeCorrect == SocketsSpec => []TypeOK
<1>1. SocketsInit => TypeOK
  <2> SUFFICES ASSUME SocketsInit PROVE TypeOK
    OBVIOUS
  <2>1. /\ handle \in [Objects -> Handles \cup {INVALID_SOCKET}]
        /\ owner \in [Handles -> Objects \cup {None}]
    BY DEF SocketsInit
  <2> QED
    BY <2>1 DEF SocketsInit, TypeOK
<1> QED
  BY <1>1, TypeStep, PTL DEF SocketsSpec

-----------------------------------------------------------------------------
\* A step that closes sockets at most, and neither destroys a peer nor changes
\* the number a peer holds, keeps NoPeerLeak.
LEMMA ClosingKeepsNoLeak ==
  ASSUME NoPeerLeak,
         \A h \in Handles : owner'[h] \in {owner[h], None, Sock},
         \A p \in Peers : handle'[p] = handle[p] /\ (p \in live => p \in live')
  PROVE  NoPeerLeak'
BY DEF NoPeerLeak, Objects

\* No open socket belongs to a peer that was destroyed, whatever is called.
LEMMA NoLeakStep == TypeOK /\ NoPeerLeak /\ [SocketsNext]_socketVars => NoPeerLeak'
<1> SUFFICES ASSUME TypeOK, NoPeerLeak, [SocketsNext]_socketVars PROVE NoPeerLeak'
  OBVIOUS
<1>0. ASSUME Exit PROVE NoPeerLeak'
  BY <1>0 DEF Exit, NoPeerLeak, Objects
<1>1. CASE NewBSock
  BY <1>0, <1>1, ClosingKeepsNoLeak DEF NewBSock, TypeOK, Objects
<1>2. CASE DeleteBSock
  BY <1>2, ClosingKeepsNoLeak DEF DeleteBSock, WSACleanup, TypeOK, Objects
<1>3. CASE OpenSocketFails
  <2>1. \A p \in Peers : handle'[p] = handle[p]
    BY <1>3 DEF OpenSocketFails, TypeOK, Objects
  <2>2. \A h \in Handles : owner'[h] \in {owner[h], None}
    BY <1>3 DEF OpenSocketFails, WSACleanup, TypeOK
  <2> QED
    BY <1>3, <2>1, <2>2, ClosingKeepsNoLeak DEF OpenSocketFails
<1>4. CASE OpenSocket
  <2>1. CASE SocketFor(Sock) /\ UNCHANGED live
    <3>1. \A p \in Peers : handle'[p] = handle[p]
      BY <2>1 DEF SocketFor, TypeOK, Objects
    <3>2. \A h \in Handles : owner'[h] \in {owner[h], Sock}
      BY <2>1 DEF SocketFor, TypeOK
    <3> QED
      BY <2>1, <3>1, <3>2, ClosingKeepsNoLeak
  <2> QED
    BY <1>0, <1>4, <2>1 DEF OpenSocket
<1>5. ASSUME NEW p \in Peers, NewBPeer(p) PROVE NoPeerLeak'
  BY <1>5 DEF NewBPeer, SocketFor, NoPeerLeak, TypeOK, Objects
<1>6. ASSUME NEW p \in Peers, DeleteBPeer(p) PROVE NoPeerLeak'
  BY <1>6 DEF DeleteBPeer, CloseSocket, NoPeerLeak, TypeOK, Objects
<1>7. ASSUME NEW p \in Peers, TryConnect(p) PROVE NoPeerLeak'
  BY <1>7 DEF TryConnect, NoPeerLeak
<1>8. ASSUME NEW p \in Peers, SendMessageFails(p) PROVE NoPeerLeak'
  BY <1>8, ClosingKeepsNoLeak DEF SendMessageFails, CloseSocket, TypeOK
<1>9. ASSUME NEW p \in Peers, CloseConnection(p) PROVE NoPeerLeak'
  <2>1. CASE CloseSocket(p) /\ UNCHANGED <<handle, live>>
    BY <2>1, ClosingKeepsNoLeak DEF CloseSocket, TypeOK
  <2> QED
    BY <1>0, <1>9, <2>1 DEF CloseConnection
<1>10. ASSUME NEW p \in Peers, TryReceive(p) PROVE NoPeerLeak'
  BY <1>10 DEF TryReceive, NoPeerLeak, core, os, objects
<1>11. CASE Receive
  BY <1>0, <1>11 DEF Receive, NoPeerLeak, objects
<1>12. CASE Arrive
  BY <1>12 DEF Arrive, NoPeerLeak, objects
<1>13. CASE UNCHANGED socketVars
  BY <1>13 DEF socketVars, NoPeerLeak, core, os, objects
<1> QED
  BY <1>1, <1>2, <1>3, <1>4, <1>5, <1>6, <1>7, <1>8, <1>9, <1>10, <1>11,
     <1>12, <1>13 DEF SocketsNext, GiveBack, Keep

\* ~BPeer closes what the constructor opened: no socket outlives its peer, for
\* every client, also one that closes connections and whose OpenSocket fails.
THEOREM NoPeerLeaks == SocketsSpec => []NoPeerLeak
<1>1. SocketsInit => NoPeerLeak
  BY DEF SocketsInit, NoPeerLeak, Objects
<1> QED
  BY <1>1, NoLeakStep, SocketsTypeCorrect, PTL DEF SocketsSpec

-----------------------------------------------------------------------------
\* Until a number is given back and kept, HandlesInv holds and Winsock is up.
KeptInv == ~gaveBack => HandlesInv /\ WinsockWhileBSock

\* Each step keeps it.
LEMMA KeptStep == TypeOK /\ KeptInv /\ [SocketsNext]_socketVars => KeptInv'
<1> SUFFICES ASSUME TypeOK, HandlesInv, WinsockWhileBSock,
                    [SocketsNext]_socketVars, ~gaveBack, ~gaveBack'
             PROVE  HandlesInv' /\ WinsockWhileBSock'
  BY DEF KeptInv, SocketsNext, socketVars, TypeOK
<1>0. ASSUME Exit PROVE HandlesInv' /\ WinsockWhileBSock'
  BY <1>0 DEF Exit, HandlesInv, WinsockWhileBSock
<1>1. CASE NewBSock
  BY <1>0, <1>1 DEF NewBSock, HandlesInv, WinsockWhileBSock, TypeOK, Objects
<1>2. CASE DeleteBSock
  BY <1>2 DEF DeleteBSock, HandlesInv, WinsockWhileBSock
<1>3. ASSUME NEW p \in Peers, NewBPeer(p)
      PROVE  HandlesInv' /\ WinsockWhileBSock'
  <2>1. HandlesInv'
    BY <1>3 DEF NewBPeer, SocketFor, HandlesInv, TypeOK, Objects
  <2> QED
    BY <1>3, <2>1 DEF NewBPeer, WinsockWhileBSock
<1>4. ASSUME NEW p \in Peers, DeleteBPeer(p)
      PROVE  HandlesInv' /\ WinsockWhileBSock'
  BY <1>4 DEF DeleteBPeer, CloseSocket, HandlesInv, WinsockWhileBSock, TypeOK,
              Objects
<1>5. ASSUME NEW p \in Peers, TryConnect(p)
      PROVE  HandlesInv' /\ WinsockWhileBSock'
  BY <1>5 DEF TryConnect, HandlesInv, WinsockWhileBSock
<1>6. ASSUME NEW p \in Peers, TryReceive(p)
      PROVE  HandlesInv' /\ WinsockWhileBSock'
  BY <1>6 DEF TryReceive, HandlesInv, WinsockWhileBSock, os, objects
<1>7. CASE Receive
  BY <1>0, <1>7 DEF Receive, HandlesInv, WinsockWhileBSock, objects
<1>8. CASE Arrive
  BY <1>8 DEF Arrive, HandlesInv, WinsockWhileBSock, objects
<1>9. CASE UNCHANGED socketVars
  BY <1>9 DEF socketVars, core, HandlesInv, WinsockWhileBSock, os, objects
<1>10. CASE OpenSocket
  <2>1. CASE SocketFor(Sock) /\ handle'[Sock] # INVALID_SOCKET
             /\ UNCHANGED <<refs, live>>
    BY <1>10, <2>1
       DEF OpenSocket, SocketFor, HandlesInv, WinsockWhileBSock, TypeOK, Objects
  <2> QED
    BY <1>0, <1>10, <2>1 DEF OpenSocket
<1> QED
  BY <1>1, <1>2, <1>3, <1>4, <1>5, <1>6, <1>7, <1>8, <1>9, <1>10 DEF SocketsNext, Keep

\* As long as no send failed, no connection was closed by its method and
\* OpenSocket did not fail, nobody loses a socket to somebody else, no two peers
\* share one, and Winsock is up while the BSock lives.
THEOREM OneSocketEach == SocketsSpec => []KeptUntilGivenBack
<1>1. SocketsInit => KeptInv
  BY DEF SocketsInit, KeptInv, HandlesInv, WinsockWhileBSock
<1>2. TypeOK /\ KeptInv => KeptUntilGivenBack
  BY DEF KeptInv, HandlesInv, KeptUntilGivenBack, KeptUntilClosed,
         OneSocketPerConnection, TypeOK
<1> QED
  BY <1>1, <1>2, KeptStep, SocketsTypeCorrect, PTL DEF SocketsSpec
=============================================================================
