--------------------------- MODULE HttpTextProofs ---------------------------
(***************************************************************************)
(* Proofs about the text of a message, for headers of any length, buffers  *)
(* of any size and any way of cutting the stream.                          *)
(*                                                                         *)
(* The head (module HttpHeaders): what is read is what was set.  Its       *)
(* invariant compares texts: what the scanner has of a line, what is on    *)
(* the way and what is still to be sent make up what is left of the head   *)
(* after the lines that were read.                                         *)
(*                                                                         *)
(* The form (module MultipartParser): the parts that are read are those    *)
(* that were written.  Its invariant says in which of its states the       *)
(* parser is where in the form: what is in the buffer and what has not     *)
(* arrived are the next header line, the content that is left, or what is  *)
(* behind a border, and all that follows.                                  *)
(***************************************************************************)
EXTENDS HttpHeaders, MultipartParser, SequenceLemmas

\* The bytes of a text.
Octets == 0..255

\* The headers that set_header takes.
Settable == {f \in Fields : ~has_crlf(f.key) /\ ~has_crlf(f.val)}

\* The C string of a text: what is before the first NUL.
LEMMA CStringOf ==
  ASSUME NEW s \in Seq(Octets)
  PROVE  /\ c_str(s) \in Seq(Octets)
         /\ (\A k \in 1..Len(s) : s[k] # Nul) => c_str(s) = s
<1> DEFINE ends == {k \in DOMAIN s : s[k] = Nul}
<1>1. DOMAIN s = 1..Len(s) /\ Len(s) \in Nat
  OBVIOUS
<1>2. CASE ends = {}
  BY <1>2 DEF c_str
<1>3. CASE ends # {}
  <2>1. PICK m : m = Min(ends)
    OBVIOUS
  <2>2. ends \in SUBSET Nat
    BY <1>1
  <2>3. m \in ends
    BY <1>3, <2>1, <2>2, MinNat
  <2>4. m \in 1..Len(s) /\ s[m] = Nul
    BY <1>1, <2>3
  <2>5. SubSeq(s, 1, m - 1) \in Seq(Octets)
    BY <1>1, <2>4, SubSeqProperties
  <2>6. c_str(s) = SubSeq(s, 1, m - 1)
    BY <1>3, <2>1 DEF c_str
  <2> QED
    BY <2>4, <2>5, <2>6
<1> QED
  BY <1>2, <1>3

\* The sizes of a buffer that doubles.
IsGrown(f, n) == f = [k \in 0..n |-> IF k = 0 THEN bufsiz ELSE 2 * f[k - 1]]

\* There are such sizes, and the k-th is at least k bytes more than the first.
LEMMA GrownExists ==
  ASSUME NEW n \in Nat
  PROVE  \E f : IsGrown(f, n)
<1> DEFINE S == {k \in Nat : \E f : IsGrown(f, k)}
<1>1. 0 \in S
  <2> DEFINE g == [k \in 0..0 |-> bufsiz]
  <2>1. ASSUME NEW k \in 0..0 PROVE g[k] = IF k = 0 THEN bufsiz ELSE 2 * g[k - 1]
    OBVIOUS
  <2>2. IsGrown(g, 0)
    BY <2>1 DEF IsGrown
  <2> QED
    BY <2>2
<1>2. ASSUME NEW k \in Nat, k \in S PROVE k + 1 \in S
  <2>1. PICK f : IsGrown(f, k)
    BY <1>2
  <2> DEFINE g == [j \in 0..(k + 1) |-> IF j = 0 THEN bufsiz ELSE 2 * f[j - 1]]
  <2>2. ASSUME NEW j \in 0..k PROVE g[j] = f[j]
    <3>1. f[j] = IF j = 0 THEN bufsiz ELSE 2 * f[j - 1]
      BY <2>1, Zenon DEF IsGrown
    <3>2. j \in 0..(k + 1)
      OBVIOUS
    <3> QED
      BY <3>1, <3>2, Zenon
  <2>3. ASSUME NEW j \in 0..(k + 1), j # 0 PROVE f[j - 1] = g[j - 1]
    <3>1. j - 1 \in 0..k
      BY <2>3
    <3> HIDE DEF g
    <3> QED
      BY <2>2, <3>1
  <2>4. IsGrown(g, k + 1)
    BY <2>3, Zenon DEF IsGrown
  <2>5. k + 1 \in Nat
    OBVIOUS
  <2> QED
    BY <2>4, <2>5
<1> HIDE DEF S
<1>3. Nat \subseteq S
  BY <1>1, <1>2, NatSetInduction
<1> QED
  BY <1>3 DEF S

\* A buffer that doubles n times is longer than n.
LEMMA GrownLong ==
  ASSUME NEW n \in Nat, NEW f, IsGrown(f, n)
  PROVE  \A k \in 0..n : f[k] \in Nat /\ f[k] >= bufsiz + k
<1> DEFINE S == {k \in Nat : k <= n => f[k] \in Nat /\ f[k] >= bufsiz + k}
<1>1. 0 \in S
  <2>1. f[0] = bufsiz
    BY DEF IsGrown
  <2> QED
    BY <2>1, HeadersAssumption
<1>2. ASSUME NEW k \in Nat, k \in S PROVE k + 1 \in S
  <2> SUFFICES ASSUME k + 1 <= n PROVE f[k + 1] \in Nat /\ f[k + 1] >= bufsiz + (k + 1)
    OBVIOUS
  <2>1. k + 1 \in 0..n /\ k + 1 # 0 /\ (k + 1) - 1 = k
    OBVIOUS
  <2>2. f[k + 1] = 2 * f[k]
    BY <2>1 DEF IsGrown
  <2>3. PICK b : b = f[k] /\ b \in Nat /\ b >= bufsiz + k
    BY <1>2
  <2> QED
    BY <2>2, <2>3, HeadersAssumption
<1> HIDE DEF S
<1>3. Nat \subseteq S
  BY <1>1, <1>2, NatSetInduction
<1> QED
  BY <1>3 DEF S

\* write_format writes a text as it is, however long it is.
LEMMA FormatExact ==
  ASSUME NEW text \in Seq(Octets)
  PROVE  write_format(text) = text
<1> DEFINE size == CHOOSE f : IsGrown(f, Len(text))
           fitting == {n \in {size[k] : k \in 0..Len(text)} : Len(text) < n - 1}
<1>1. Len(text) \in Nat /\ DOMAIN text = 1..Len(text)
  OBVIOUS
<1>2. IsGrown(size, Len(text))
  BY <1>1, GrownExists
<1>3. write_format(text) = snprintf(text, Min(fitting))
  BY Zenon DEF write_format, IsGrown
<1> HIDE DEF size
<1>4. \A k \in 0..Len(text) : size[k] \in Nat /\ size[k] >= bufsiz + k
  BY <1>1, <1>2, GrownLong
<1>5. fitting \in SUBSET Nat
  BY <1>4
<1>6. size[Len(text)] \in fitting
  <2>1. PICK m : m = size[Len(text)] /\ m \in Nat /\ m >= bufsiz + Len(text)
    BY <1>1, <1>4
  <2>2. Len(text) < m - 1 /\ Len(text) \in 0..Len(text)
    BY <1>1, <2>1, HeadersAssumption
  <2> QED
    BY <2>1, <2>2
<1>7. PICK n : n = Min(fitting) /\ n \in Nat /\ Len(text) < n - 1
  <2>1. Min(fitting) \in fitting
    BY <1>5, <1>6, MinNat
  <2> QED
    BY <1>5, <2>1
<1>8. \A k \in DOMAIN text : k <= n - 2
  BY <1>1, <1>7
<1>9. snprintf(text, n) = [k \in DOMAIN text |-> text[k]]
  BY <1>8 DEF snprintf
<1> QED
  BY <1>1, <1>3, <1>7, <1>9

\* set_header and set_content keep the headers those that set_header takes.
LEMMA BoundsInside ==
  ASSUME NEW hs \in Seq(Settable), NEW key
  PROVE  /\ lower_bound(hs, key) \in 0..Len(hs)
         /\ upper_bound(hs, key) \in 0..Len(hs)
<1>1. Len(hs) \in Nat /\ DOMAIN hs = 1..Len(hs)
  OBVIOUS
<1>2. /\ {0} \cup {k \in DOMAIN hs : hs[k].key[1] < key[1]} \in SUBSET (0..Len(hs))
      /\ {0} \cup {k \in DOMAIN hs : hs[k].key[1] <= key[1]} \in SUBSET (0..Len(hs))
  BY <1>1
<1>3. /\ {0} \cup {k \in DOMAIN hs : hs[k].key[1] < key[1]} # {}
      /\ {0} \cup {k \in DOMAIN hs : hs[k].key[1] <= key[1]} # {}
  OBVIOUS
<1>4. \A S \in SUBSET (0..Len(hs)) : S # {} => Max(S) \in 0..Len(hs)
  BY <1>1, MaxNat
<1> QED
  BY <1>2, <1>3, <1>4 DEF lower_bound, upper_bound

\* set_header and set_content keep a sequence of such headers.
LEMMA SetHeaderType ==
  ASSUME NEW hs \in Seq(Settable), NEW f \in Fields
  PROVE  /\ erase_all(hs, f.key) \in Seq(Settable)
         /\ set_header(hs, f) \in Seq(Settable)
<1>1. PICK lo, up, n : /\ lo = lower_bound(hs, f.key) /\ up = upper_bound(hs, f.key)
                       /\ n = Len(hs) /\ lo \in 0..n /\ up \in 0..n /\ n \in Nat
  BY BoundsInside
<1>2. SubSeq(hs, 1, lo) \in Seq(Settable) /\ SubSeq(hs, up + 1, n) \in Seq(Settable)
  BY <1>1, SubSeqProperties
<1>3. erase_all(hs, f.key) \in Seq(Settable)
  BY <1>1, <1>2, ConcatProperties DEF erase_all
<1>4. CASE has_crlf(f.key) \/ has_crlf(f.val)
  BY <1>3, <1>4 DEF set_header
<1>5. CASE ~(has_crlf(f.key) \/ has_crlf(f.val))
  <2>1. SubSeq(hs, 1, (up + 1) - 1) \in Seq(Settable)
    BY <1>1, SubSeqProperties
  <2>2. f \in Settable
    BY <1>5 DEF Settable
  <2>3. <<f>> \in Seq(Settable)
    BY <2>2
  <2>4. set_header(hs, f) = SubSeq(hs, 1, (up + 1) - 1) \o <<f>> \o SubSeq(hs, up + 1, n)
    BY <1>1, <1>5, Zenon DEF set_header, InsertAt
  <2> QED
    BY <1>2, <1>3, <2>1, <2>3, <2>4, ConcatProperties
<1> QED
  BY <1>4, <1>5

\* A line of a header, byte by byte: the key, a colon and a blank, what the value
\* has before a NUL, and the line end, the only one in it.
IsHeaderLine(line, key, text) ==
    /\ Len(line) = Len(key) + Len(text) + 4
    /\ \A k \in 1..Len(key) : line[k] = key[k] /\ key[k] \notin {Cr, Lf, Colon}
    /\ line[Len(key) + 1] = Colon /\ line[Len(key) + 2] = Space
    /\ \A k \in 1..Len(text) : line[Len(key) + 2 + k] = text[k] /\ text[k] \notin {Cr, Lf}
    /\ line[Len(key) + Len(text) + 3] = Cr /\ line[Len(key) + Len(text) + 4] = Lf

\* A header that was set is written as such a line.
LEMMA LineShape ==
  ASSUME NEW h \in Settable
  PROVE  /\ h.key \in Seq(Octets) /\ c_str(h.val) \in Seq(Octets)
         /\ header_line(h) \in Seq(Octets)
         /\ IsHeaderLine(header_line(h), h.key, c_str(h.val))
<1>1. h.key \in Seq(Octets) /\ h.val \in Seq(Octets)
  BY HeadersAssumption DEF Settable, Octets
<1>2. c_str(h.key) = h.key
  BY <1>1, CStringOf, KeysAreTokens DEF Settable
<1>3. PICK text, key : /\ text = c_str(h.val) /\ key = h.key /\ text \in Seq(Octets)
                       /\ key \in Seq(Octets)
  BY <1>1, CStringOf
<1>4. /\ \A k \in 1..Len(key) : key[k] \notin {Cr, Lf, Colon}
      /\ \A k \in 1..Len(text) : text[k] \notin {Cr, Lf}
  BY <1>2, <1>3, KeysAreTokens DEF Settable, has_crlf
<1>5. PICK a \in Nat, b \in Nat : a = Len(key) /\ b = Len(text)
  BY <1>3
<1>6. PICK between, ending : between = <<Colon, Space>> /\ ending = LineEnd
  OBVIOUS
<1>7. /\ between \in Seq(Octets) /\ Len(between) = 2
      /\ between[1] = Colon /\ between[2] = Space
  BY <1>6 DEF Colon, Space, Octets
<1>8. /\ ending \in Seq(Octets) /\ Len(ending) = 2 /\ ending[1] = Cr /\ ending[2] = Lf
  BY <1>6 DEF LineEnd, Cr, Lf, Octets
<1>9. PICK p \in Seq(Octets) : p = key \o between /\ IsJoin(p, key, between)
  BY <1>3, <1>7, JoinedSeqs
<1>10. PICK q \in Seq(Octets) : q = p \o text /\ IsJoin(q, p, text)
  BY <1>3, <1>9, JoinedSeqs
<1>11. PICK line \in Seq(Octets) : line = q \o ending /\ IsJoin(line, q, ending)
  BY <1>8, <1>10, JoinedSeqs
<1>20. Len(p) = a + 2 /\ Len(q) = a + 2 + b /\ Len(line) = a + b + 4
  BY <1>5, <1>7, <1>8, <1>9, <1>10, <1>11 DEF IsJoin
<1>12. line = header_line(h)
  BY <1>2, <1>3, <1>6, <1>9, <1>10, <1>11, Zenon DEF header_line
<1>13. \A k \in 1..a : line[k] = key[k]
  BY <1>5, <1>9, <1>10, <1>11, <1>20 DEF IsJoin
<1>14. line[a + 1] = Colon /\ line[a + 2] = Space
  <2>1. p[a + 1] = Colon /\ p[a + 2] = Space
    BY <1>5, <1>7, <1>9 DEF IsJoin
  <2>2. line[a + 1] = p[a + 1] /\ line[a + 2] = p[a + 2]
    BY <1>5, <1>10, <1>11, <1>20 DEF IsJoin
  <2> QED
    BY <2>1, <2>2
<1>15. ASSUME NEW k \in 1..b PROVE line[a + 2 + k] = text[k]
  <2>1. q[Len(p) + k] = text[k] /\ Len(p) + k = a + 2 + k
    BY <1>5, <1>10, <1>20 DEF IsJoin
  <2> QED
    BY <1>5, <1>11, <1>20, <2>1 DEF IsJoin
<1>16. line[a + b + 3] = Cr /\ line[a + b + 4] = Lf
  <2>1. line[Len(q) + 1] = Cr /\ line[Len(q) + 2] = Lf
    BY <1>8, <1>11 DEF IsJoin
  <2>2. Len(q) + 1 = a + b + 3 /\ Len(q) + 2 = a + b + 4
    BY <1>5, <1>20 DEF IsJoin
  <2> QED
    BY <2>1, <2>2
<1>17. \A k \in 1..a : line[k] = key[k] /\ key[k] \notin {Cr, Lf, Colon}
  BY <1>4, <1>5, <1>13
<1>18. \A k \in 1..b : line[a + 2 + k] = text[k] /\ text[k] \notin {Cr, Lf}
  BY <1>4, <1>5, <1>15
<1>19. IsHeaderLine(line, key, text)
  BY <1>5, <1>14, <1>16, <1>17, <1>18, <1>20 DEF IsHeaderLine
<1> QED
  BY <1>3, <1>12, <1>19

\* A line holds one LF, at its end.
OneLine(s) == s # <<>> /\ s[Len(s)] = Lf /\ \A k \in 1..(Len(s) - 1) : s[k] # Lf

\* Such a line is one, and no blank one.
LEMMA LineIsOne ==
  ASSUME NEW line \in Seq(Octets), NEW key \in Seq(Octets), NEW text \in Seq(Octets),
         IsHeaderLine(line, key, text)
  PROVE  OneLine(line) /\ Len(line) # 2 /\ end_with_crlf(line)
<1>1. PICK a \in Nat, b \in Nat : a = Len(key) /\ b = Len(text)
  OBVIOUS
<1>2. /\ Len(line) = a + b + 4 /\ line[a + b + 3] = Cr /\ line[a + b + 4] = Lf
      /\ line[a + 1] = Colon /\ line[a + 2] = Space
      /\ \A k \in 1..a : line[k] # Lf
      /\ \A k \in 1..b : line[a + 2 + k] # Lf
  BY <1>1 DEF IsHeaderLine
<1>3. ASSUME NEW k \in 1..(Len(line) - 1) PROVE line[k] # Lf
  <2>1. k \in 1..a \/ k = a + 1 \/ k = a + 2 \/ k - (a + 2) \in 1..b \/ k = a + b + 3
    BY <1>2
  <2>2. CASE k - (a + 2) \in 1..b
    <3>1. PICK m \in 1..b : m = k - (a + 2)
      BY <2>2
    <3>2. a + 2 + m = k
      BY <3>1
    <3> QED
      BY <1>2, <3>2
  <2> QED
    BY <1>2, <2>1, <2>2, SMTT(20) DEF Colon, Space, Cr, Lf
<1>4. Len(line) # 0 /\ Len(line) > 2 /\ Len(line) # 2 /\ Len(line) \in Nat
  BY <1>2
<1>5. line # <<>>
  BY <1>4, EmptySeq
<1>6. end_with_crlf(line)
  <2>1. PICK n, e : n = Len(line) /\ e = SubSeq(line, n - 1, n)
    OBVIOUS
  <2>2. /\ e \in Seq(Octets) /\ Len(e) = 2 /\ \A k \in 1..2 : e[k] = line[n - 1 + k - 1]
    <3>1. \A k \in (n - 1)..n : line[k] \in Octets
      BY <1>4, <2>1, ElementOfSeq
    <3>2. n - 1 \in Int /\ n \in Int
      BY <1>4, <2>1
    <3>3. /\ SubSeq(line, n - 1, n) \in Seq(Octets)
          /\ Len(SubSeq(line, n - 1, n)) = IF n - 1 <= n THEN n - (n - 1) + 1 ELSE 0
          /\ \A k \in 1..(n - (n - 1) + 1) : SubSeq(line, n - 1, n)[k] = line[(n - 1) + k - 1]
      BY <3>1, <3>2, SubSeqProperties
    <3> QED
      BY <2>1, <3>2, <3>3
  <2>3. e[1] = Cr /\ e[2] = Lf
    BY <1>2, <2>1, <2>2
  <2>4. LineEnd \in Seq(Octets) /\ Len(LineEnd) = 2 /\ LineEnd[1] = Cr /\ LineEnd[2] = Lf
    BY DEF LineEnd, Cr, Lf, Octets
  <2>5. e = LineEnd
    <3>1. \A k \in 1..Len(e) : e[k] = LineEnd[k]
      BY <2>2, <2>3, <2>4
    <3> QED
      BY <2>2, <2>4, <3>1, SeqEqual
  <2> QED
    BY <1>4, <2>1, <2>5 DEF end_with_crlf
<1> QED
  BY <1>2, <1>3, <1>4, <1>5, <1>6 DEF OneLine

\* A piece of a sequence that stands in another, further on.
LEMMA SamePiece ==
  ASSUME NEW T, NEW s \in Seq(T), NEW t \in Seq(T), NEW c \in Int, NEW m \in Int, NEW n \in Int,
         m >= 1, m + c >= 1, n <= Len(t), n + c <= Len(s), \A k \in m..n : s[k + c] = t[k]
  PROVE  SubSeq(s, m + c, n + c) = SubSeq(t, m, n)
<1>1. \A k \in m..n : t[k] \in T
  BY ElementOfSeq
<1>2. \A k \in (m + c)..(n + c) : s[k] \in T
  BY ElementOfSeq
<1>3. PICK a : a = m + c /\ a \in Int
  OBVIOUS
<1>4. PICK b : b = n + c /\ b \in Int
  OBVIOUS
<1>5. /\ SubSeq(t, m, n) \in Seq(T)
      /\ Len(SubSeq(t, m, n)) = IF m <= n THEN n - m + 1 ELSE 0
      /\ \A k \in 1..(n - m + 1) : SubSeq(t, m, n)[k] = t[m + k - 1]
  BY <1>1, SubSeqProperties
<1>6. \A k \in a..b : s[k] \in T
  BY <1>2, <1>3, <1>4
<1>7. /\ SubSeq(s, a, b) \in Seq(T)
      /\ Len(SubSeq(s, a, b)) = IF a <= b THEN b - a + 1 ELSE 0
      /\ \A k \in 1..(b - a + 1) : SubSeq(s, a, b)[k] = s[a + k - 1]
  BY <1>3, <1>4, <1>6, SubSeqProperties
<1>8. PICK p, q : p = SubSeq(t, m, n) /\ q = SubSeq(s, a, b)
  OBVIOUS
<1>9. Len(p) = Len(q)
  BY <1>3, <1>4, <1>5, <1>7, <1>8
<1>10. ASSUME NEW k \in 1..Len(q) PROVE q[k] = p[k]
  <2>1. k \in 1..(n - m + 1) /\ k \in 1..(b - a + 1)
    BY <1>3, <1>4, <1>7, <1>8
  <2>2. p[k] = t[m + k - 1] /\ q[k] = s[a + k - 1]
    BY <1>5, <1>7, <1>8, <2>1
  <2>3. PICK j \in m..n : j = m + k - 1
    BY <2>1
  <2>4. a + k - 1 = j + c
    BY <1>3, <2>3
  <2> QED
    BY <2>2, <2>3, <2>4
<1>11. q = p
  BY <1>5, <1>7, <1>8, <1>9, <1>10, SeqEqual
<1> QED
  BY <1>3, <1>4, <1>8, <1>11

\* parse_header of the line of a header, without its end, finds what arrives of it.
LEMMA LineArrives ==
  ASSUME NEW h, NEW key \in Seq(Octets), NEW text \in Seq(Octets), NEW line \in Seq(Octets),
         key = h.key, text = c_str(h.val), IsHeaderLine(line, key, text)
  PROVE  parse_header(SubSeq(line, 1, Len(line) - 2)) = Arrives(h)
<1>1. PICK a \in Nat, b \in Nat : a = Len(key) /\ b = Len(text)
  OBVIOUS
<1>2. /\ Len(line) = a + b + 4
      /\ \A k \in 1..a : line[k] = key[k] /\ key[k] # Colon
      /\ line[a + 1] = Colon /\ line[a + 2] = Space
      /\ \A k \in 1..b : line[a + 2 + k] = text[k]
  BY <1>1 DEF IsHeaderLine
<1>3. PICK s : s = SubSeq(line, 1, Len(line) - 2)
  OBVIOUS
<1>4. s \in Seq(Octets) /\ Len(s) = a + b + 2 /\ \A k \in 1..(a + b + 2) : s[k] = line[k]
  BY <1>2, <1>3, SubSeqProperties, SMTT(20)
<1>5. /\ DOMAIN s = 1..(a + b + 2) /\ DOMAIN text = 1..b
      /\ \A k \in 1..a : s[k] = key[k] /\ s[k] # Colon
      /\ s[a + 1] = Colon /\ s[a + 2] = Space
      /\ \A k \in 1..b : s[a + 2 + k] = text[k]
  <2>1. DOMAIN s = 1..(a + b + 2) /\ DOMAIN text = 1..b
    BY <1>1, <1>4
  <2>2. \A k \in 1..a : s[k] = key[k] /\ s[k] # Colon
    BY <1>2, <1>4
  <2>3. s[a + 1] = Colon /\ s[a + 2] = Space
    <3>1. a + 1 \in 1..(a + b + 2) /\ a + 2 \in 1..(a + b + 2)
      OBVIOUS
    <3> QED
      BY <1>2, <1>4, <3>1
  <2>4. ASSUME NEW k \in 1..b PROVE s[a + 2 + k] = text[k]
    <3>1. a + 2 + k \in 1..(a + b + 2)
      OBVIOUS
    <3> QED
      BY <1>2, <1>4, <3>1
  <2> QED
    BY <2>1, <2>2, <2>3, <2>4
<1> DEFINE solid  == {k \in DOMAIN s : ~Blank(s[k])}
           end    == IF solid = {} THEN 0 ELSE Max(solid)
           colons == {k \in 1..end : s[k] = Colon}
           begins == {k \in solid : k > Min(colons)}
           inText == {k \in DOMAIN text : ~Blank(text[k])}
<1>6. parse_header(s) =
         IF colons = {} \/ begins = {} THEN <<>>
         ELSE <<[key |-> SubSeq(s, 1, Min(colons) - 1),
                 val |-> decode_url(SubSeq(s, Min(begins), end), FALSE)]>>
  BY Zenon DEF parse_header
<1>7. Arrives(h) =
         IF inText = {} THEN <<>>
         ELSE <<[key |-> key, val |-> decode_url(SubSeq(text, Min(inText), Max(inText)), FALSE)]>>
  BY Zenon DEF Arrives
<1>8. a + 1 \in solid /\ solid \in SUBSET (0..(a + b + 2)) /\ a + b + 2 \in Nat
  BY <1>5 DEF Blank, Colon, Space, Tab
<1>9. \A k \in 1..b : a + 2 + k \in solid <=> k \in inText
  <2> SUFFICES ASSUME NEW k \in 1..b PROVE a + 2 + k \in solid <=> k \in inText
    OBVIOUS
  <2>1. PICK m : m = a + 2 + k
    OBVIOUS
  <2>2. m \in DOMAIN s /\ s[m] = text[k] /\ k \in DOMAIN text
    <3>1. m \in 1..(a + b + 2)
      BY <2>1
    <3> QED
      BY <1>5, <2>1, <3>1
  <2>3. m \in solid <=> k \in inText
    BY <2>2
  <2> QED
    BY <2>1, <2>3
<1>10. a + 2 \notin solid
  BY <1>5 DEF Blank, Space
<1> HIDE DEF solid, inText
<1>11. \A k \in solid : k \in 1..(a + 1) \/ \E j \in inText : k = a + 2 + j
  <2> SUFFICES ASSUME NEW k \in solid, k \notin 1..(a + 1)
               PROVE  \E j \in inText : k = a + 2 + j
    OBVIOUS
  <2>1. k \in 1..(a + b + 2) /\ k # a + 2
    BY <1>5, <1>10 DEF solid
  <2>2. PICK j \in 1..b : j = k - (a + 2)
    BY <2>1
  <2>3. a + 2 + j = k
    BY <2>1, <2>2
  <2>4. j \in inText
    BY <1>9, <2>2, <2>3
  <2> QED
    BY <2>3, <2>4
<1>12. inText \in SUBSET (0..b) /\ inText \in SUBSET (1..b) /\ solid # {}
  BY <1>5, <1>8 DEF inText
<1>13. PICK e : e = end /\ e = Max(solid)
  BY <1>12
<1>14. ASSUME e \in Nat, e >= a + 1 PROVE colons # {} /\ Min(colons) = a + 1
  <2>1. a + 1 \in colons
    BY <1>5, <1>13, <1>14
  <2>2. colons \in SUBSET Int
    OBVIOUS
  <2>3. \A k \in colons : a + 1 <= k
    BY <1>5
  <2> QED
    BY <2>1, <2>2, <2>3, MinIs
<1> HIDE DEF end, colons, begins
<1>15. CASE inText = {}
  <2>1. \A k \in solid : k <= a + 1
    BY <1>11, <1>15
  <2>2. solid \in SUBSET Int
    BY <1>8
  <2>3. Max(solid) = a + 1
    BY <1>8, <2>1, <2>2, MaxIs
  <2>4. Min(colons) = a + 1
    BY <1>13, <1>14, <2>3
  <2>5. begins = {}
    <3>1. \A k \in solid : k \in Int /\ ~(k > Min(colons))
      BY <1>8, <2>1, <2>4
    <3> QED
      BY <3>1 DEF begins
  <2>6. parse_header(s) = <<>>
    BY <1>6, <2>5, Zenon
  <2> QED
    BY <1>3, <1>7, <1>15, <2>6, Zenon
<1>16. CASE inText # {}
  <2>1. PICK lo, hi : lo = Min(inText) /\ hi = Max(inText)
    OBVIOUS
  <2>2. lo \in inText /\ \A k \in inText : lo <= k
    <3>1. inText \in SUBSET Nat
      BY <1>12
    <3> QED
      BY <1>16, <2>1, <3>1, MinNat
  <2>3. hi \in inText /\ \A k \in inText : k <= hi
    BY <1>12, <1>16, <2>1, MaxNat
  <2>4. lo \in 1..b /\ hi \in 1..b /\ lo <= hi
    BY <1>12, <2>2, <2>3
  <2>5. a + 2 + lo \in solid /\ a + 2 + hi \in solid
    BY <1>9, <2>2, <2>3, <2>4
  <2>6. e = a + 2 + hi
    <3>1. \A k \in solid : k <= a + 2 + hi
      BY <1>11, <1>12, <2>3, <2>4
    <3>2. solid \in SUBSET Int
      BY <1>8
    <3> QED
      BY <1>13, <2>5, <3>1, <3>2, MaxIs
  <2>7. colons # {} /\ Min(colons) = a + 1
    BY <1>14, <2>4, <2>6
  <2>8. begins # {} /\ Min(begins) = a + 2 + lo
    <3>1. a + 2 + lo \in begins
      BY <2>4, <2>5, <2>7 DEF begins
    <3>2. \A k \in begins : a + 2 + lo <= k
      BY <1>11, <1>12, <2>2, <2>4, <2>7 DEF begins
    <3>3. begins \in SUBSET Int
      <4>1. begins \subseteq solid
        BY Zenon DEF begins
      <4> QED
        BY <1>8, <4>1
    <3> QED
      BY <3>1, <3>2, <3>3, MinIs
  <2>9. SubSeq(s, 1, Min(colons) - 1) = key
    <3>1. Min(colons) - 1 = a
      BY <2>7
    <3>2. SubSeq(s, 1 + 0, a + 0) = SubSeq(key, 1, a)
      <4>1. \A k \in 1..a : s[k + 0] = key[k]
        BY <1>5
      <4>2. a \in Int /\ 1 + 0 >= 1 /\ a <= Len(key)
        BY <1>1
      <4>3. a + 0 <= Len(s)
        BY <1>4
      <4> QED
        BY <1>4, <4>1, <4>2, <4>3, SamePiece
    <3>3. SubSeq(key, 1, a) = key
      BY <1>1, SubSeqFull
    <3>4. 1 + 0 = 1 /\ a + 0 = a
      OBVIOUS
    <3> QED
      BY <3>1, <3>2, <3>3, <3>4
  <2>10. SubSeq(s, Min(begins), end) = SubSeq(text, lo, hi)
    <3>1. PICK c \in Nat : c = a + 2
      OBVIOUS
    <3>2. \A k \in lo..hi : s[k + c] = text[k]
      <4> SUFFICES ASSUME NEW k \in lo..hi PROVE s[k + c] = text[k]
        OBVIOUS
      <4>1. k \in 1..b /\ k + c = a + 2 + k
        BY <2>4, <3>1
      <4> QED
        BY <1>5, <4>1
    <3>3. SubSeq(s, lo + c, hi + c) = SubSeq(text, lo, hi)
      <4>1. lo \in Int /\ hi \in Int /\ c \in Int /\ lo >= 1 /\ lo + c >= 1
        BY <2>4, <3>1
      <4>2. hi <= Len(text)
        BY <1>1, <2>4
      <4>3. hi + c <= Len(s)
        BY <1>4, <2>4, <3>1
      <4> QED
        BY <1>4, <3>2, <4>1, <4>2, <4>3, SamePiece
    <3>4. Min(begins) = lo + c /\ end = hi + c
      BY <1>13, <2>4, <2>6, <2>8, <3>1
    <3> QED
      BY <3>3, <3>4
  <2>11. parse_header(s) = <<[key |-> key, val |-> decode_url(SubSeq(text, lo, hi), FALSE)]>>
    BY <1>6, <2>7, <2>8, <2>9, <2>10, Zenon
  <2>12. Arrives(h) = <<[key |-> key, val |-> decode_url(SubSeq(text, lo, hi), FALSE)]>>
    BY <1>7, <1>16, <2>1, Zenon
  <2> QED
    BY <1>3, <2>11, <2>12, Zenon
<1> QED
  BY <1>15, <1>16

\* Of two ways to begin a text with a line there is only one.
LEMMA SameLine ==
  ASSUME NEW a \in Seq(Octets), NEW b \in Seq(Octets), NEW c \in Seq(Octets),
         NEW d \in Seq(Octets), OneLine(a), OneLine(c), a \o b = c \o d
  PROVE  a = c /\ b = d
<1>1. PICK s : s = a \o b /\ s = c \o d
  OBVIOUS
<1>2. IsJoin(s, a, b) /\ IsJoin(s, c, d)
  BY <1>1, JoinedSeqs
<1>3. Len(a) \in Nat /\ Len(c) \in Nat /\ Len(a) # 0 /\ Len(c) # 0
  BY EmptySeq DEF OneLine
<1>4. ASSUME Len(a) < Len(c) PROVE FALSE
  <2>0. Len(a) \in 1..Len(a) /\ Len(a) \in 1..Len(c) /\ Len(a) \in 1..(Len(c) - 1)
    BY <1>3, <1>4
  <2>1. s[Len(a)] = Lf
    BY <1>2, <2>0 DEF IsJoin, OneLine
  <2>2. s[Len(a)] = c[Len(a)] /\ c[Len(a)] # Lf
    BY <1>2, <2>0 DEF IsJoin, OneLine
  <2> QED
    BY <2>1, <2>2
<1>5. ASSUME Len(c) < Len(a) PROVE FALSE
  <2>0. Len(c) \in 1..Len(c) /\ Len(c) \in 1..Len(a) /\ Len(c) \in 1..(Len(a) - 1)
    BY <1>3, <1>5
  <2>1. s[Len(c)] = Lf
    BY <1>2, <2>0 DEF IsJoin, OneLine
  <2>2. s[Len(c)] = a[Len(c)] /\ a[Len(c)] # Lf
    BY <1>2, <2>0 DEF IsJoin, OneLine
  <2> QED
    BY <2>1, <2>2
<1>6. Len(a) = Len(c)
  BY <1>3, <1>4, <1>5
<1> QED
  BY <1>6, SameCut

\* A line that is read whole is the one with which the text begins.
LEMMA LineFound ==
  ASSUME NEW line \in Seq(Octets), NEW behind \in Seq(Octets), NEW t \in Seq(Octets),
         NEW first \in Seq(Octets), NEW more \in Seq(Octets),
         OneLine(line), OneLine(first), (line \o behind) \o t = first \o more
  PROVE  line = first /\ behind \o t = more
<1>1. Regroups(Seq(Octets))
  BY SeqRegroups
<1>2. line \o (behind \o t) = first \o more
  BY <1>1, ZenonT(40) DEF Regroups
<1>3. behind \o t \in Seq(Octets)
  BY ConcatProperties
<1> QED
  BY <1>2, <1>3, SameLine

\* The first lines, and what is known of them and of the blank line.
FirstLine == <<OtherStatus>> \o LineEnd
ContinueLine == <<StatusContinue>> \o LineEnd

\* Each is a line.
LEMMA FixedLines ==
  /\ FirstLine \in Seq(Octets) /\ OneLine(FirstLine)
  /\ ContinueLine \in Seq(Octets) /\ OneLine(ContinueLine)
  /\ LineEnd \in Seq(Octets) /\ OneLine(LineEnd) /\ end_with_crlf(LineEnd) /\ Len(LineEnd) = 2
  /\ FirstLine # ContinueLine /\ Behind \in Seq(Octets)
<1>1. /\ LineEnd \in Seq(Octets) /\ Behind \in Seq(Octets)
      /\ Len(LineEnd) = 2 /\ LineEnd[1] # Lf /\ LineEnd[2] = Lf
  BY DEF LineEnd, Behind, Cr, Lf, Colon, Octets
<1>2. ASSUME NEW x \in Octets, x # Lf
      PROVE  /\ <<x>> \o LineEnd \in Seq(Octets) /\ OneLine(<<x>> \o LineEnd)
             /\ (<<x>> \o LineEnd)[1] = x
  <2>1. PICK s : s = <<x>> \o LineEnd
    OBVIOUS
  <2>2. <<x>> \in Seq(Octets) /\ Len(<<x>>) = 1 /\ <<x>>[1] = x
    OBVIOUS
  <2>3. s \in Seq(Octets) /\ IsJoin(s, <<x>>, LineEnd)
    BY <1>1, <2>1, <2>2, JoinedSeqs
  <2>4. Len(s) = 3 /\ s[1] = x /\ s[1 + 1] = LineEnd[1] /\ s[1 + 2] = LineEnd[2]
    BY <1>1, <2>2, <2>3 DEF IsJoin
  <2>5. s[2] = LineEnd[1] /\ s[3] = LineEnd[2] /\ s # <<>>
    BY <2>4
  <2>6. OneLine(s)
    <3>1. \A k \in 1..(Len(s) - 1) : k = 1 \/ k = 2
      BY <2>4
    <3> QED
      BY <1>1, <1>2, <2>4, <2>5, <3>1 DEF OneLine
  <2> QED
    BY <2>1, <2>3, <2>4, <2>6
<1>3. OneLine(LineEnd)
  BY <1>1 DEF OneLine
<1>4. /\ FirstLine \in Seq(Octets) /\ OneLine(FirstLine) /\ FirstLine[1] = OtherStatus
      /\ ContinueLine \in Seq(Octets) /\ OneLine(ContinueLine)
      /\ ContinueLine[1] = StatusContinue
  <2>1. /\ OtherStatus \in Octets /\ OtherStatus # Lf
        /\ StatusContinue \in Octets /\ StatusContinue # Lf
    BY DEF OtherStatus, StatusContinue, Octets, Lf
  <2> QED
    BY <1>2, <2>1, Zenon DEF FirstLine, ContinueLine
<1>6. FirstLine # ContinueLine
  BY <1>4 DEF OtherStatus, StatusContinue
<1>5. end_with_crlf(LineEnd)
  <2>1. SubSeq(LineEnd, 1, Len(LineEnd)) = LineEnd
    BY <1>1, SubSeqFull
  <2>2. Len(LineEnd) - 1 = 1 /\ Len(LineEnd) >= 2
    BY <1>1
  <2> QED
    BY <2>1, <2>2 DEF end_with_crlf
<1> QED
  BY <1>1, <1>3, <1>4, <1>5, <1>6

\* The lines of headers, and what arrives of them.
LinesOf(hs) == [k \in DOMAIN hs |-> header_line(hs[k])]
ArrivalsOf(hs) == [k \in DOMAIN hs |-> Arrives(hs[k])]

\* The head and what is behind it, from the header after the first n on, and from
\* the first line on; and the headers that arrive of the first n.
LeftOf(hs, n) == (FlattenSeq(SubSeq(LinesOf(hs), n + 1, Len(hs))) \o LineEnd) \o Behind
WholeOf(hs) == FirstLine \o LeftOf(hs, 0)
GotOf(hs, n) == FlattenSeq(SubSeq(ArrivalsOf(hs), 1, n))

Arrivals == {Arrives(h)[1] : h \in Settable}

\* What arrives of a header is one header at most.
LEMMA ArrivalType ==
  ASSUME NEW h \in Settable
  PROVE  Arrives(h) \in Seq(Arrivals)
<1>1. \E x : Arrives(h) \in {<<>>, <<x>>}
  BY Zenon DEF Arrives
<1>2. PICK x : Arrives(h) \in {<<>>, <<x>>}
  BY <1>1
<1>3. CASE Arrives(h) = <<x>>
  <2>1. <<x>>[1] = x
    OBVIOUS
  <2>2. x \in Arrivals
    BY <1>3, <2>1, Zenon DEF Arrivals
  <2> QED
    BY <1>3, <2>2
<1> QED
  BY <1>2, <1>3, EmptySeq

\* The lines and what arrives of them, one for each header.
LEMMA LinesType ==
  ASSUME NEW hs \in Seq(Settable)
  PROVE  /\ LinesOf(hs) \in Seq(Seq(Octets)) /\ Len(LinesOf(hs)) = Len(hs)
         /\ ArrivalsOf(hs) \in Seq(Seq(Arrivals)) /\ Len(ArrivalsOf(hs)) = Len(hs)
         /\ \A k \in 1..Len(hs) : /\ hs[k] \in Settable
                                  /\ LinesOf(hs)[k] = header_line(hs[k])
                                  /\ ArrivalsOf(hs)[k] = Arrives(hs[k])
<1>1. DOMAIN hs = 1..Len(hs) /\ Len(hs) \in Nat /\ \A k \in 1..Len(hs) : hs[k] \in Settable
  OBVIOUS
<1>2. \A k \in 1..Len(hs) : header_line(hs[k]) \in Seq(Octets) /\ Arrives(hs[k]) \in Seq(Arrivals)
  BY <1>1, LineShape, ArrivalType
<1>3. LinesOf(hs) \in [1..Len(hs) -> Seq(Octets)]
  BY <1>1, <1>2 DEF LinesOf
<1>4. ArrivalsOf(hs) \in [1..Len(hs) -> Seq(Arrivals)]
  BY <1>1, <1>2 DEF ArrivalsOf
<1>5. /\ LinesOf(hs) \in Seq(Seq(Octets)) /\ Len(LinesOf(hs)) = Len(hs)
  BY <1>1, <1>3
<1>6. /\ ArrivalsOf(hs) \in Seq(Seq(Arrivals)) /\ Len(ArrivalsOf(hs)) = Len(hs)
  BY <1>1, <1>4
<1>7. \A k \in 1..Len(hs) : LinesOf(hs)[k] = header_line(hs[k]) /\ ArrivalsOf(hs)[k] = Arrives(hs[k])
  BY <1>1 DEF LinesOf, ArrivalsOf
<1> QED
  BY <1>1, <1>5, <1>6, <1>7

\* What is left of the head: its first line and the rest, or the line end.
LEMMA LeftType ==
  ASSUME NEW hs \in Seq(Settable), NEW n \in 0..Len(hs)
  PROVE  /\ LeftOf(hs, n) \in Seq(Octets)
         /\ SubSeq(LinesOf(hs), n + 1, Len(hs)) \in Seq(Seq(Octets))
<1>1. PICK ls : ls = LinesOf(hs)
  OBVIOUS
<1>2. ls \in Seq(Seq(Octets)) /\ Len(ls) = Len(hs) /\ Len(hs) \in Nat
  BY <1>1, LinesType
<1>3. SubSeq(ls, n + 1, Len(hs)) \in Seq(Seq(Octets))
  BY <1>2, SubSeqProperties
<1>4. FlattenSeq(SubSeq(ls, n + 1, Len(hs))) \in Seq(Octets)
  BY <1>3, FlattenType
<1>5. LineEnd \in Seq(Octets) /\ Behind \in Seq(Octets)
  BY FixedLines
<1>6. FlattenSeq(SubSeq(ls, n + 1, Len(hs))) \o LineEnd \in Seq(Octets)
  BY <1>4, <1>5, ConcatProperties
<1>7. (FlattenSeq(SubSeq(ls, n + 1, Len(hs))) \o LineEnd) \o Behind \in Seq(Octets)
  BY <1>5, <1>6, ConcatProperties
<1> QED
  BY <1>1, <1>3, <1>7, Zenon DEF LeftOf

\* It begins with the line of the next header, and ends with the line end.
LEMMA LeftSplit ==
  ASSUME NEW hs \in Seq(Settable), NEW n \in 0..(Len(hs) - 1)
  PROVE  LeftOf(hs, n) = header_line(hs[n + 1]) \o LeftOf(hs, n + 1)
<1>0. PICK len \in Nat : len = Len(hs)
  OBVIOUS
<1>1. PICK ls : ls = LinesOf(hs) /\ len = Len(hs)
  BY <1>0
<1>2. /\ ls \in Seq(Seq(Octets)) /\ Len(ls) = len /\ n \in Nat
      /\ n + 1 \in 1..len /\ n + 1 \in 0..Len(hs) /\ n \in 0..Len(hs)
  BY <1>1, LinesType
<1>3. PICK first : first = header_line(hs[n + 1])
  OBVIOUS
<1>4. first = ls[n + 1] /\ first \in Seq(Octets)
  BY <1>1, <1>2, <1>3, LinesType, LineShape
<1>5. SubSeq(ls, n + 1, len) = <<first>> \o SubSeq(ls, (n + 1) + 1, len)
  <2>1. len \in (n + 1)..Len(ls) /\ n + 1 \in 1..Len(ls)
    BY <1>2
  <2> QED
    BY <1>2, <1>4, <2>1, SubSeqRecursiveFirst
<1>6. PICK tail : tail = SubSeq(ls, (n + 1) + 1, len)
  OBVIOUS
<1>7. tail \in Seq(Seq(Octets))
  BY <1>1, <1>2, <1>6, LeftType, Zenon
<1>8. FlattenSeq(<<first>> \o tail) = first \o FlattenSeq(tail)
  BY <1>4, <1>7, FlattenCons
<1>9. FlattenSeq(tail) \in Seq(Octets)
  BY <1>7, FlattenType
<1>10. LineEnd \in Seq(Octets) /\ Behind \in Seq(Octets)
  BY FixedLines
<1>11. FlattenSeq(tail) \o LineEnd \in Seq(Octets)
  BY <1>9, <1>10, ConcatProperties
<1>12. ((first \o FlattenSeq(tail)) \o LineEnd) \o Behind
           = first \o ((FlattenSeq(tail) \o LineEnd) \o Behind)
  <2>1. Regroups(Seq(Octets))
    BY SeqRegroups
  <2>2. (first \o FlattenSeq(tail)) \o LineEnd = first \o (FlattenSeq(tail) \o LineEnd)
    BY <1>4, <1>9, <1>10, <2>1, ZenonT(40) DEF Regroups
  <2>3. (first \o (FlattenSeq(tail) \o LineEnd)) \o Behind
           = first \o ((FlattenSeq(tail) \o LineEnd) \o Behind)
    BY <1>4, <1>10, <1>11, <2>1, ZenonT(40) DEF Regroups
  <2> QED
    BY <2>2, <2>3, Zenon
<1>13. LeftOf(hs, n) = (FlattenSeq(<<first>> \o tail) \o LineEnd) \o Behind
  BY <1>1, <1>5, <1>6, Zenon DEF LeftOf
<1>14. LeftOf(hs, n + 1) = (FlattenSeq(tail) \o LineEnd) \o Behind
  BY <1>1, <1>6, Zenon DEF LeftOf
<1> QED
  BY <1>3, <1>8, <1>12, <1>13, <1>14, Zenon

\* After the last header the line end is left, and the body.
LEMMA LeftEnd ==
  ASSUME NEW hs \in Seq(Settable)
  PROVE  LeftOf(hs, Len(hs)) = LineEnd \o Behind
<1>1. Len(hs) \in Nat
  OBVIOUS
<1>2. SubSeq(LinesOf(hs), Len(hs) + 1, Len(hs)) = <<>>
  BY <1>1, SubSeqEmpty
<1>3. FlattenSeq(<<>>) = <<>>
  BY DEF FlattenSeq
<1>4. <<>> \o LineEnd = LineEnd
  BY FixedLines, ConcatEmptySeq
<1> QED
  BY <1>2, <1>3, <1>4, Zenon DEF LeftOf

\* What has arrived of the first headers.
LEMMA GotSplit ==
  ASSUME NEW hs \in Seq(Settable), NEW n \in 0..(Len(hs) - 1)
  PROVE  GotOf(hs, n + 1) = GotOf(hs, n) \o Arrives(hs[n + 1])
<1>0. PICK len \in Nat : len = Len(hs)
  OBVIOUS
<1>1. PICK as : as = ArrivalsOf(hs) /\ len = Len(hs)
  BY <1>0
<1>2. /\ as \in Seq(Seq(Arrivals)) /\ Len(as) = len /\ n \in Nat /\ n + 1 \in 1..len
  BY <1>1, LinesType
<1>3. as[n + 1] = Arrives(hs[n + 1]) /\ as[n + 1] \in Seq(Arrivals)
  BY <1>1, <1>2, LinesType, ElementOfSeq
<1>4. SubSeq(as, 1, n) \in Seq(Seq(Arrivals))
  <2>1. n \in 0..Len(as)
    BY <1>2
  <2> QED
    BY <1>2, <2>1, CutSeq
<1>5. SubSeq(as, 1, n + 1) = Append(SubSeq(as, 1, n), as[n + 1])
  <2>1. 1 \in 1..Len(as) /\ n + 1 \in 1..Len(as) /\ (n + 1) - 1 = n
    BY <1>2
  <2>2. SubSeq(as, 1, n + 1) = SubSeq(as, 1, (n + 1) - 1) \o <<as[n + 1]>>
    BY <1>2, <2>1, SubSeqRecursiveSecond
  <2>3. Append(SubSeq(as, 1, n), as[n + 1]) = SubSeq(as, 1, n) \o <<as[n + 1]>>
    BY <1>3, <1>4, AppendIsConcat
  <2> QED
    BY <2>1, <2>2, <2>3, Zenon
<1>6. FlattenSeq(Append(SubSeq(as, 1, n), as[n + 1])) = FlattenSeq(SubSeq(as, 1, n)) \o as[n + 1]
  BY <1>3, <1>4, FlattenAppend
<1> QED
  BY <1>1, <1>3, <1>5, <1>6, Zenon DEF GotOf

\* At the beginning nothing has arrived, and at the end what HeadersArrive asks for.
LEMMA GotEnds ==
  ASSUME NEW hs \in Seq(Settable)
  PROVE  /\ GotOf(hs, 0) = <<>>
         /\ GotOf(hs, Len(hs)) = FlattenSeq([k \in DOMAIN hs |-> Arrives(hs[k])])
<1>1. SubSeq(ArrivalsOf(hs), 1, 0) = <<>>
  BY SubSeqEmpty
<1>2. FlattenSeq(<<>>) = <<>>
  BY DEF FlattenSeq
<1>3. SubSeq(ArrivalsOf(hs), 1, Len(hs)) = ArrivalsOf(hs)
  BY LinesType, SubSeqFull
<1> QED
  BY <1>1, <1>2, <1>3, Zenon DEF GotOf, ArrivalsOf

\* What WriteHead writes is the head.
LEMMA HeadWritten ==
  ASSUME NEW hs \in Seq(Settable)
  PROVE  /\ WholeOf(hs) \in Seq(Octets)
         /\ <<OtherStatus>> \o LineEnd \o write_headers(hs) \in Seq(Octets)
         /\ (<<OtherStatus>> \o LineEnd \o write_headers(hs)) \o Behind = WholeOf(hs)
<1>1. \A k \in DOMAIN hs : write_format(header_line(hs[k])) = header_line(hs[k])
  BY LineShape, FormatExact
<1>2. [k \in DOMAIN hs |-> write_format(header_line(hs[k]))] = LinesOf(hs)
  BY <1>1, Zenon DEF LinesOf
<1>3. PICK flat : flat = FlattenSeq(LinesOf(hs))
  OBVIOUS
<1>4. flat \in Seq(Octets)
  BY <1>3, LinesType, FlattenType
<1>5. write_headers(hs) = flat \o LineEnd
  BY <1>2, <1>3, Zenon DEF write_headers
<1>6. LineEnd \in Seq(Octets) /\ Behind \in Seq(Octets) /\ FirstLine \in Seq(Octets)
  BY FixedLines
<1>7. PICK first : first = FirstLine
  OBVIOUS
<1>8. flat \o LineEnd \in Seq(Octets)
  BY <1>4, <1>6, ConcatProperties
<1>9. PICK lines : lines = flat \o LineEnd
  OBVIOUS
<1>10. lines \in Seq(Octets) /\ first \in Seq(Octets)
  BY <1>6, <1>7, <1>8, <1>9, Zenon
<1>11. lines \o Behind \in Seq(Octets) /\ first \o lines \in Seq(Octets)
  BY <1>6, <1>10, ConcatProperties
<1>12. first \o (lines \o Behind) \in Seq(Octets)
  BY <1>10, <1>11, ConcatProperties
<1>13. (first \o lines) \o Behind = first \o (lines \o Behind)
  <2>1. Regroups(Seq(Octets))
    BY SeqRegroups
  <2> QED
    BY <1>6, <1>10, <2>1, ZenonT(40) DEF Regroups
<1>14. LeftOf(hs, 0) = lines \o Behind
  <2>1. 0 + 1 = 1
    OBVIOUS
  <2>2. SubSeq(LinesOf(hs), 1, Len(hs)) = LinesOf(hs)
    BY LinesType, SubSeqFull
  <2> QED
    BY <1>3, <1>9, <2>1, <2>2, Zenon DEF LeftOf
<1> QED
  BY <1>5, <1>7, <1>9, <1>11, <1>12, <1>13, <1>14, Zenon DEF WholeOf, FirstLine

\* The types that the other parts of the invariant need.
HeadTypeOK ==
    /\ fields \in Seq(Settable)
    /\ link \in Seq(Octets) /\ pending \in Seq(Octets)
    /\ fixed_buffer_ \in Seq(Octets) /\ glowable_buffer_ \in Seq(Octets)
    /\ hungUp \in BOOLEAN /\ cut \in BOOLEAN

\* The line that is read: the second buffer is used when the first is full, and a
\* line ends at its first LF.
LineInv ==
    /\ glowable_buffer_ # <<>> => Len(fixed_buffer_) >= bufsiz - 1
    /\ \A k \in 1..(Len(TheLine) - 1) : TheLine[k] # Lf
    /\ scanner = "ok" => TheLine = <<>>

\* While the handler runs: nothing was sent but "100 Continue".
Announced(text) ==
    /\ found = <<>>
    /\ \/ scanner = "first" /\ text \in {<<>>, ContinueLine \o LineEnd}
       \/ scanner = "blank" /\ text = LineEnd
       \/ scanner = "next" /\ text = <<>>

\* What is to be sent, with the body.
Coming ==
    IF sender = "sending" THEN pending \o Behind
    ELSE IF sender = "body" THEN Behind ELSE <<>>

\* What follows on the way; when the connection is closed, what would have: a part of
\* the head and the body, or nothing.
Unsent(t) ==
    /\ hungUp \/ t = Coming
    /\ t = <<>> \/ \E p \in Seq(Octets) : t = p \o Behind

\* The text that is still to be read, and what has been read.
Expected(text) ==
    \/ /\ scanner = "first" /\ found = <<>>
       /\ text \in {WholeOf(fields), ContinueLine \o (LineEnd \o WholeOf(fields))}
    \/ scanner = "blank" /\ found = <<>> /\ text = LineEnd \o WholeOf(fields)
    \/ scanner = "next" /\ found = <<>> /\ text = WholeOf(fields)
    \/ scanner = "headers" /\ \E n \in 0..Len(fields) :
            found = GotOf(fields, n) /\ text = LeftOf(fields, n)
    \/ scanner = "ok" /\ found = GotOf(fields, Len(fields)) /\ text = Behind

\* A line was read that was cut off: nothing comes any more.
Lost == scanner # "ok" /\ hungUp /\ link = <<>> /\ TheLine = <<>>

\* Where sender and scanner are, when text has been sent and is not yet read.
Place(text) ==
    /\ sender \in {"setting", "sending"} => ~cut
    /\ sender = "setting" => scanner = "failed" \/ Announced(text)
    /\ sender # "setting" /\ ~cut =>
          \/ scanner = "failed" \/ Lost
          \/ \E t \in Seq(Octets) : Unsent(t) /\ Expected(text \o t)

PlaceInv == Place(TheLine \o link)

\* The inductive invariant.
HeadInv == HeadTypeOK /\ LineInv /\ PlaceInv

\* It holds at the beginning.
LEMMA HeadInitInv == HeadInit => HeadInv
<1> SUFFICES ASSUME HeadInit PROVE HeadInv
  OBVIOUS
<1>1. HeadTypeOK
  <2>1. <<>> \in Seq(Octets) /\ <<>> \in Seq(Settable)
    BY EmptySeq
  <2> QED
    BY <2>1 DEF HeadInit, HeadTypeOK
<1>2. TheLine = <<>> /\ link = <<>> /\ found = <<>> /\ scanner = "first"
  BY DEF HeadInit, TheLine
<1>3. LineInv
  BY <1>2, EmptySeq DEF HeadInit, LineInv
<1>4. PlaceInv
  <2>1. <<>> \o <<>> = <<>>
    BY EmptySeq, ConcatEmptySeq
  <2>2. Announced(<<>> \o <<>>)
    BY <1>2, <2>1 DEF Announced
  <2> QED
    BY <1>2, <2>2 DEF HeadInit, PlaceInv, Place
<1> QED
  BY <1>1, <1>3, <1>4 DEF HeadInv

\* Every step keeps the types.
LEMMA HeadTypeStep == HeadInv /\ [HeadNext]_headVars => HeadTypeOK'
<1> SUFFICES ASSUME HeadInv, [HeadNext]_headVars PROVE HeadTypeOK'
  OBVIOUS
<1>0. HeadTypeOK
  BY DEF HeadInv
<1>t. TheLine \in Seq(Octets)
  BY <1>0 DEF HeadTypeOK, TheLine
<1>e. <<>> \in Seq(Octets)
  BY EmptySeq
<1>1. CASE SetHeader
  <2>1. fields' \in Seq(Settable)
    BY <1>0, <1>1, SetHeaderType DEF SetHeader, HeadTypeOK
  <2> QED
    BY <1>0, <1>1, <2>1 DEF SetHeader, Scan, HeadTypeOK
<1>2. CASE Continue
  <2>1. ContinueLine \o LineEnd \in Seq(Octets)
    BY FixedLines, ConcatProperties
  <2>2. link \o (ContinueLine \o LineEnd) \in Seq(Octets)
    BY <1>0, <2>1, ConcatProperties DEF HeadTypeOK
  <2>3. link' \in Seq(Octets)
    BY <1>0, <1>2, <2>2 DEF Continue, Reaches, HeadTypeOK, ContinueLine
  <2> QED
    BY <1>0, <1>2, <2>3 DEF Continue, Scan, HeadTypeOK
<1>3. CASE WriteHead
  <2>1. pending' \in Seq(Octets)
    BY <1>0, <1>3, HeadWritten, Zenon DEF WriteHead, HeadTypeOK
  <2> QED
    BY <1>0, <1>3, <2>1 DEF WriteHead, Scan, HeadTypeOK
<1>4. CASE SendHead
  <2>1. PICK n \in 1..Len(pending) :
           /\ Reaches(SubSeq(pending, 1, n))
           /\ pending' = SubSeq(pending, n + 1, Len(pending))
           /\ cut' = (server /\ pending' # <<>>)
    BY <1>4 DEF SendHead
  <2>2. pending \in Seq(Octets) /\ n \in 0..Len(pending)
    BY <1>0 DEF HeadTypeOK
  <2>3. SubSeq(pending, 1, n) \in Seq(Octets) /\ SubSeq(pending, n + 1, Len(pending)) \in Seq(Octets)
    BY <2>2, CutSeq
  <2>4. link \o SubSeq(pending, 1, n) \in Seq(Octets)
    BY <1>0, <2>3, ConcatProperties DEF HeadTypeOK
  <2>5. link' \in Seq(Octets) /\ pending' \in Seq(Octets) /\ cut' \in BOOLEAN
    BY <1>0, <2>1, <2>3, <2>4 DEF Reaches, HeadTypeOK
  <2> QED
    BY <1>0, <1>4, <2>5 DEF SendHead, Scan, HeadTypeOK
<1>5. CASE SendFails
  BY <1>0, <1>5 DEF SendFails, Scan, HeadTypeOK
<1>6. CASE SendBody
  <2>1. link \o Behind \in Seq(Octets)
    BY <1>0, FixedLines, ConcatProperties DEF HeadTypeOK
  <2>2. link' \in Seq(Octets)
    BY <1>0, <1>6, <2>1 DEF SendBody, Reaches, HeadTypeOK
  <2> QED
    BY <1>0, <1>6, <2>2 DEF SendBody, Scan, HeadTypeOK
<1>7. CASE HangUp
  BY <1>0, <1>7 DEF HangUp, Scan, HeadTypeOK
<1>8. CASE AppendByte
  <2>1. Head(link) \in Octets /\ Tail(link) \in Seq(Octets)
    BY <1>0, <1>8, HeadTailProperties DEF AppendByte, HeadTypeOK
  <2>2. /\ Append(fixed_buffer_, Head(link)) \in Seq(Octets)
        /\ Append(TheLine, Head(link)) \in Seq(Octets)
    BY <1>0, <1>t, <2>1, AppendProperties DEF HeadTypeOK
  <2> QED
    BY <1>0, <1>8, <2>1, <2>2 DEF AppendByte, Sends, HeadTypeOK
<1>9. CASE GetLineFails
  BY <1>0, <1>9 DEF GetLineFails, Sends, HeadTypeOK
<1>10. CASE ReadFirstLine
  BY <1>0, <1>e, <1>10 DEF ReadFirstLine, NextLine, Sends, HeadTypeOK
<1>11. CASE ReadBlankLine
  BY <1>0, <1>e, <1>11 DEF ReadBlankLine, NextLine, Sends, HeadTypeOK
<1>12. CASE ReadHeader
  BY <1>0, <1>e, <1>12 DEF ReadHeader, NextLine, Sends, HeadTypeOK
<1>13. CASE UNCHANGED headVars
  BY <1>0, <1>13 DEF headVars, HeadTypeOK
<1> QED
  BY <1>1, <1>2, <1>3, <1>4, <1>5, <1>6, <1>7, <1>8, <1>9, <1>10, <1>11, <1>12, <1>13 DEF HeadNext

\* A byte goes from the stream to the end of the line, whichever buffer has it.
LEMMA ByteAppended ==
  ASSUME HeadInv, AppendByte
  PROVE  /\ (TheLine \o link)' = TheLine \o link
         /\ LineInv' /\ TheLine' # <<>>
<1>1. HeadTypeOK /\ LineInv
  BY DEF HeadInv
<1>2. PICK line, x, more : line = TheLine /\ x = Head(link) /\ more = Tail(link)
  OBVIOUS
<1>3. line \in Seq(Octets)
  BY <1>1, <1>2 DEF HeadTypeOK, TheLine
<1>4. x \in Octets /\ more \in Seq(Octets) /\ link = <<x>> \o more
  <2>1. link \in Seq(Octets) /\ link # <<>>
    BY <1>1 DEF HeadTypeOK, AppendByte
  <2>2. Len(link) \in Nat \ {0}
    BY <2>1, EmptySeq
  <2>3. link = <<link[1]>> \o SubSeq(link, 1 + 1, Len(link))
    <3>1. 1 \in 1..Len(link) /\ Len(link) \in 1..Len(link)
      BY <2>2
    <3>2. SubSeq(link, 1, Len(link)) = <<link[1]>> \o SubSeq(link, 1 + 1, Len(link))
      BY <2>1, <3>1, SubSeqRecursiveFirst
    <3> QED
      BY <2>1, <3>2, SubSeqFull
  <2>4. Tail(link) = SubSeq(link, 2, Len(link)) /\ 1 + 1 = 2
    BY <2>1, TailIsSubSeq
  <2>5. Head(link) = link[1]
    BY <2>1
  <2>6. link = <<Head(link)>> \o Tail(link)
    BY <2>3, <2>4, <2>5, Zenon
  <2>7. Head(link) \in Octets /\ Tail(link) \in Seq(Octets)
    BY <2>1, HeadTailProperties
  <2> QED
    BY <1>2, <2>6, <2>7
<1>5. Append(line, x) \in Seq(Octets) /\ Append(line, x) # <<>>
  BY <1>3, <1>4, AppendProperties
<1>6. /\ TheLine' = Append(line, x)
      /\ glowable_buffer_' # <<>> => Len(fixed_buffer_') >= bufsiz - 1
  <2>1. CASE Len(fixed_buffer_) < bufsiz - 1
    <3>1. glowable_buffer_ = <<>>
      <4>1. Len(fixed_buffer_) \in Nat
        BY <1>1 DEF HeadTypeOK
      <4> QED
        BY <1>1, <2>1, <4>1, HeadersAssumption DEF LineInv
    <3>2. fixed_buffer_' = Append(line, x) /\ glowable_buffer_' = <<>>
      BY <1>2, <2>1, <3>1 DEF AppendByte, TheLine
    <3> QED
      BY <3>2 DEF TheLine
  <2>2. CASE ~(Len(fixed_buffer_) < bufsiz - 1)
    <3>1. glowable_buffer_' = Append(line, x) /\ fixed_buffer_' = fixed_buffer_
      BY <1>2, <2>2 DEF AppendByte
    <3>2. Len(fixed_buffer_) \in Nat
      BY <1>1 DEF HeadTypeOK
    <3> QED
      BY <1>5, <2>2, <3>1, <3>2, HeadersAssumption DEF TheLine
  <2> QED
    BY <2>1, <2>2
<1>7. Append(line, x) \o more = line \o (<<x>> \o more)
  <2>1. Append(line, x) = line \o <<x>>
    BY <1>3, <1>4, AppendIsConcat
  <2>2. <<x>> \in Seq(Octets)
    BY <1>4
  <2>3. (line \o <<x>>) \o more = line \o (<<x>> \o more)
    BY <1>3, <1>4, <2>2, ConcatAssociative
  <2> QED
    BY <2>1, <2>3, Zenon
<1>8. link' = more
  BY <1>2 DEF AppendByte
<1>9. \A k \in 1..Len(line) : line[k] # Lf
  <2>1. \A k \in 1..(Len(line) - 1) : line[k] # Lf
    BY <1>1, <1>2 DEF LineInv
  <2>2. line # <<>> => line[Len(line)] # Lf
    BY <1>2 DEF AppendByte, LineIsRead, Last
  <2>3. Len(line) \in Nat /\ (line = <<>> => Len(line) = 0)
    BY <1>3, EmptySeq
  <2>4. \A k \in 1..Len(line) : k \in 1..(Len(line) - 1) \/ k = Len(line)
    BY <2>3
  <2> QED
    BY <2>1, <2>2, <2>3, <2>4
<1>10. \A k \in 1..(Len(Append(line, x)) - 1) : Append(line, x)[k] # Lf
  <2>1. PICK all : all = Append(line, x)
    OBVIOUS
  <2>2. Len(all) = Len(line) + 1 /\ \A k \in 1..Len(line) : all[k] = line[k]
    BY <1>3, <1>4, <2>1, AppendProperties
  <2>3. Len(line) \in Nat
    BY <1>3
  <2> QED
    BY <1>9, <2>1, <2>2, <2>3
<1>11. scanner' # "ok"
  BY DEF AppendByte, Scanning
<1> QED
  BY <1>2, <1>4, <1>5, <1>6, <1>7, <1>8, <1>10, <1>11, Zenon DEF LineInv

\* PlaceInv of a step that leads to a text that is known.
LEMMA PlaceOf ==
  ASSUME NEW text, (TheLine \o link)' = text, Place(text)'
  PROVE  PlaceInv'
BY Zenon DEF PlaceInv, Place, Announced, Expected

\* A byte that is read changes nothing else.
LEMMA AppendByteInv ==
  ASSUME HeadInv, AppendByte
  PROVE  LineInv' /\ PlaceInv'
<1>1. (TheLine \o link)' = TheLine \o link /\ LineInv'
  BY ByteAppended
<1>2. link # <<>>
  BY DEF AppendByte
<1>3. UNCHANGED <<fields, sender, pending, hungUp, cut, scanner, found>>
  BY DEF AppendByte, Sends
<1>4. PICK text : text = TheLine \o link
  OBVIOUS
<1>5. Announced(text) => Announced(text)'
  BY <1>3 DEF Announced
<1>6. ASSUME NEW t, Unsent(t), Expected(text \o t)
      PROVE  Unsent(t)' /\ Expected(text \o t)'
  <2>1. Unsent(t)'
    BY <1>3, <1>6, Zenon DEF Unsent, Coming
  <2>2. Expected(text \o t)'
    BY <1>3, <1>6, Zenon DEF Expected
  <2> QED
    BY <2>1, <2>2
<1>7. PlaceInv
  BY DEF HeadInv
<1>8. ~Lost
  BY <1>2 DEF Lost
<1>9. Place(text)'
  <2>1. sender' \in {"setting", "sending"} => ~cut'
    BY <1>3, <1>7 DEF PlaceInv, Place
  <2>2. sender' = "setting" => scanner' = "failed" \/ Announced(text)'
    BY <1>3, <1>4, <1>5, <1>7, Zenon DEF PlaceInv, Place
  <2>3. ASSUME sender' # "setting", ~cut', scanner' # "failed"
        PROVE  \E t \in Seq(Octets) : Unsent(t)' /\ Expected(text \o t)'
    <3>1. PICK t \in Seq(Octets) : Unsent(t) /\ Expected(text \o t)
      BY <1>3, <1>4, <1>7, <1>8, <2>3 DEF PlaceInv, Place
    <3> QED
      BY <1>6, <3>1
  <2> QED
    BY <2>1, <2>2, <2>3, Zenon DEF Place
<1> QED
  BY <1>1, <1>4, <1>9, PlaceOf

\* A sender's step leaves the line that is read.
LEMMA LineKept ==
  ASSUME HeadInv, UNCHANGED Scan
  PROVE  LineInv' /\ TheLine' = TheLine
BY DEF HeadInv, LineInv, TheLine, Scan

\* What was sent and is to be read are bytes.
LEMMA TextType ==
  ASSUME HeadInv
  PROVE  /\ TheLine \in Seq(Octets) /\ link \in Seq(Octets) /\ pending \in Seq(Octets)
         /\ TheLine \o link \in Seq(Octets) /\ fields \in Seq(Settable)
<1>1. TheLine \in Seq(Octets) /\ link \in Seq(Octets)
  BY DEF HeadInv, HeadTypeOK, TheLine
<1> QED
  BY <1>1, ConcatProperties DEF HeadInv, HeadTypeOK

\* SetHeader changes what will be sent, and nothing was.
LEMMA SetHeaderInv ==
  ASSUME HeadInv, SetHeader
  PROVE  LineInv' /\ PlaceInv'
<1>1. LineInv' /\ TheLine' = TheLine /\ link' = link
  BY LineKept DEF SetHeader
<1>2. PICK text : text = TheLine \o link
  OBVIOUS
<1>3. UNCHANGED <<sender, cut, scanner, found>> /\ sender = "setting"
  BY DEF SetHeader, Scan
<1>4. Place(text)
  BY <1>2 DEF HeadInv, PlaceInv
<1>5. Place(text)'
  BY <1>3, <1>4, Zenon DEF Place, Announced
<1>6. (TheLine \o link)' = text
  BY <1>1, <1>2, Zenon
<1> QED
  BY <1>1, <1>5, <1>6, PlaceOf

\* Continue is sent when nothing is on the way and no line is begun.
LEMMA ContinueInv ==
  ASSUME HeadInv, Continue
  PROVE  LineInv' /\ PlaceInv'
<1>1. LineInv' /\ TheLine' = TheLine
  BY LineKept DEF Continue
<1>2. UNCHANGED <<sender, cut, scanner, found>> /\ sender = "setting" /\ scanner = "first"
  BY DEF Continue, Scan
<1>3. link = <<>>
  BY DEF Continue
<1>4. TheLine \in Seq(Octets)
  BY TextType
<1>5. TheLine \o link = TheLine
  BY <1>3, <1>4, ConcatEmptySeq
<1>6. Announced(TheLine) /\ ~cut
  BY <1>2, <1>5 DEF HeadInv, PlaceInv, Place
<1>7. PICK two : two = ContinueLine \o LineEnd
  OBVIOUS
<1>8. two \in Seq(Octets)
  BY <1>7, FixedLines, ConcatProperties
<1>9. TheLine # two
  <2>1. SUFFICES ASSUME TheLine = two PROVE FALSE
    OBVIOUS
  <2>2. IsJoin(two, ContinueLine, LineEnd)
    BY <1>7, FixedLines, JoinedSeqs
  <2>3. /\ Len(ContinueLine) \in Nat /\ Len(ContinueLine) # 0 /\ Len(LineEnd) = 2
        /\ ContinueLine[Len(ContinueLine)] = Lf
    BY FixedLines, EmptySeq DEF OneLine
  <2>4. /\ Len(two) = Len(ContinueLine) + 2
        /\ two[Len(ContinueLine)] = Lf
    BY <2>2, <2>3 DEF IsJoin
  <2>5. \A k \in 1..(Len(two) - 1) : two[k] # Lf
    BY <2>1 DEF HeadInv, LineInv
  <2>6. Len(ContinueLine) \in 1..(Len(two) - 1)
    BY <2>3, <2>4
  <2> QED
    BY <2>4, <2>5, <2>6
<1>10. TheLine = <<>> /\ found = <<>>
  BY <1>2, <1>6, <1>7, <1>9 DEF Announced
<1>11. link' \in {<<>>, two}
  <2>1. <<>> \o two = two
    BY <1>8, ConcatEmptySeq
  <2>2. Reaches(two)
    BY <1>7 DEF Continue, ContinueLine
  <2> QED
    BY <1>3, <2>1, <2>2, Zenon DEF Reaches
<1>12. link' \in Seq(Octets)
  BY <1>8, <1>11, EmptySeq
<1>13. (TheLine \o link)' = link'
  <2>1. <<>> \o link' = link'
    BY <1>12, ConcatEmptySeq
  <2> QED
    BY <1>1, <1>10, <2>1, Zenon
<1>14. PICK text : text = link'
  OBVIOUS
<1>15. Place(text)'
  <2>1. Announced(text)'
    BY <1>2, <1>7, <1>10, <1>11, <1>14, Zenon DEF Announced
  <2> QED
    BY <1>2, <1>6, <2>1, Zenon DEF Place
<1> QED
  BY <1>1, <1>13, <1>14, <1>15, PlaceOf

\* WriteHead: from here on the text is the whole head and the body.
LEMMA WriteHeadInv ==
  ASSUME HeadInv, WriteHead
  PROVE  LineInv' /\ PlaceInv'
<1>1. LineInv' /\ TheLine' = TheLine /\ link' = link
  BY LineKept DEF WriteHead
<1>2. PICK text : text = TheLine \o link
  OBVIOUS
<1>3. UNCHANGED <<fields, hungUp, cut, scanner, found>> /\ sender = "setting" /\ sender' = "sending"
  BY DEF WriteHead, Scan
<1>4. ~cut /\ (scanner = "failed" \/ Announced(text))
  BY <1>2, <1>3 DEF HeadInv, PlaceInv, Place
<1>5. (TheLine \o link)' = text
  BY <1>1, <1>2, Zenon
<1>6. PICK w : w = WholeOf(fields)
  OBVIOUS
<1>7. fields \in Seq(Settable)
  BY TextType
<1>8. pending' \in Seq(Octets) /\ pending' \o Behind = w /\ w \in Seq(Octets)
  BY <1>6, <1>7, HeadWritten, Zenon DEF WriteHead
<1>9. Unsent(w)'
  BY <1>3, <1>8, Zenon DEF Unsent, Coming
<1>10. ASSUME scanner # "failed" PROVE Expected(text \o w)'
  <2>1. Announced(text)
    BY <1>4, <1>10
  <2>2. <<>> \o w = w
    BY <1>8, ConcatEmptySeq
  <2>3. (ContinueLine \o LineEnd) \o w = ContinueLine \o (LineEnd \o w)
    <3>1. Regroups(Seq(Octets))
      BY SeqRegroups
    <3>2. ContinueLine \in Seq(Octets) /\ LineEnd \in Seq(Octets)
      BY FixedLines
    <3> QED
      BY <1>8, <3>1, <3>2, ZenonT(40) DEF Regroups
  <2> QED
    BY <1>3, <1>6, <2>1, <2>2, <2>3, Zenon DEF Announced, Expected
<1>11. Place(text)'
  BY <1>3, <1>4, <1>8, <1>9, <1>10, Zenon DEF Place
<1> QED
  BY <1>1, <1>5, <1>11, PlaceOf

\* Bytes of what is to be sent are on the way.
LEMMA TextGrows ==
  ASSUME HeadInv, UNCHANGED Scan, NEW bytes \in Seq(Octets), NEW t \in Seq(Octets),
         link' = link \o bytes, NEW text, text = TheLine \o link
  PROVE  /\ (TheLine \o link)' = text \o bytes
         /\ (text \o bytes) \o t = text \o (bytes \o t)
<1>1. TheLine \in Seq(Octets) /\ link \in Seq(Octets) /\ text \in Seq(Octets)
  BY TextType
<1>2. TheLine' = TheLine
  BY LineKept
<1>r. Regroups(Seq(Octets))
  BY SeqRegroups
<1>3. TheLine \o (link \o bytes) = (TheLine \o link) \o bytes
  <2>1. \A u, v \in Seq(Octets) : u \o (v \o bytes) = (u \o v) \o bytes
    BY <1>r, ZenonT(40) DEF Regroups
  <2> QED
    BY <1>1, <2>1
<1>4. (text \o bytes) \o t = text \o (bytes \o t)
  <2>1. \A u \in Seq(Octets) : (u \o bytes) \o t = u \o (bytes \o t)
    BY <1>r, ZenonT(40) DEF Regroups
  <2> QED
    BY <1>1, <2>1
<1> QED
  BY <1>2, <1>3, <1>4, Zenon

\* SendHead moves bytes from what is to be sent to what is on the way; those of a
\* connection that is closed are lost.
LEMMA SendHeadInv ==
  ASSUME HeadInv, SendHead
  PROVE  LineInv' /\ PlaceInv'
<1>1. LineInv' /\ TheLine' = TheLine /\ UNCHANGED Scan
  BY LineKept DEF SendHead
<1>2. PICK n \in 1..Len(pending) :
           /\ Reaches(SubSeq(pending, 1, n))
           /\ pending' = SubSeq(pending, n + 1, Len(pending))
           /\ sender' = IF server \/ pending' = <<>> THEN "body" ELSE "sending"
           /\ cut' = (server /\ pending' # <<>>)
  BY DEF SendHead
<1>3. PICK a, b, all : /\ a = SubSeq(pending, 1, n) /\ all = pending
                       /\ b = SubSeq(pending, n + 1, Len(pending))
  OBVIOUS
<1>4. a \in Seq(Octets) /\ b \in Seq(Octets) /\ a \o b = all
  <2>1. pending \in Seq(Octets) /\ n \in 0..Len(pending)
    BY TextType
  <2> QED
    BY <1>3, <2>1, CutSeq
<1>5. UNCHANGED <<fields, hungUp, scanner, found>> /\ sender = "sending"
  BY DEF SendHead, Scan
<1>6. ~cut
  BY <1>5 DEF HeadInv, PlaceInv, Place
<1>7. PICK text : text = TheLine \o link
  OBVIOUS
<1>8. scanner = "failed" \/ Lost \/ \E t \in Seq(Octets) : Unsent(t) /\ Expected(text \o t)
  BY <1>5, <1>6, <1>7, Zenon DEF HeadInv, PlaceInv, Place
<1>9. sender' # "setting" /\ (sender' \in {"setting", "sending"} => ~cut')
  BY <1>2
<1>10. CASE hungUp
  <2>1. link' = link
    BY <1>2, <1>10, Zenon DEF Reaches
  <2>2. Lost => Lost'
    BY <1>1, <1>5, <2>1, Zenon DEF Lost
  <2>3. \A t : Unsent(t) /\ Expected(text \o t) => Unsent(t)' /\ Expected(text \o t)'
    BY <1>5, <1>10, Zenon DEF Unsent, Expected
  <2>4. Place(text)'
    BY <1>5, <1>8, <1>9, <2>2, <2>3, Zenon DEF Place
  <2>5. (TheLine \o link)' = text
    BY <1>1, <1>7, <2>1, Zenon
  <2> QED
    BY <1>1, <2>4, <2>5, PlaceOf
<1>11. CASE ~hungUp
  <2>1. link' = link \o a
    BY <1>2, <1>3, <1>11, Zenon DEF Reaches
  <2>2. (TheLine \o link)' = text \o a
    BY <1>1, <1>4, <1>7, <2>1, TextGrows, EmptySeq
  <2>3. PICK remains : remains = b \o Behind
    OBVIOUS
  <2>4. remains \in Seq(Octets)
    BY <1>4, <2>3, FixedLines, ConcatProperties
  <2>5. ~cut' => Unsent(remains)'
    <3>1. sender' = "sending" => remains = Coming'
      BY <1>2, <1>3, <2>3, Zenon DEF Coming
    <3>2. ASSUME ~cut', sender' = "body" PROVE remains = Coming'
      <4>1. b = <<>>
        BY <1>2, <1>3, <3>2, Zenon
      <4>2. <<>> \o Behind = Behind
        BY FixedLines, ConcatEmptySeq
      <4> QED
        BY <2>3, <3>2, <4>1, <4>2, Zenon DEF Coming
    <3>3. sender' \in {"sending", "body"}
      BY <1>2
    <3> QED
      BY <1>4, <2>3, <3>1, <3>2, <3>3, Zenon DEF Unsent
  <2>6. ASSUME NEW t \in Seq(Octets), Unsent(t), Expected(text \o t)
        PROVE  Expected((text \o a) \o remains)'
    <3>1. t = all \o Behind
      BY <1>3, <1>5, <1>11, <2>6, Zenon DEF Unsent, Coming
    <3>2. (a \o b) \o Behind = a \o remains
      <4>1. Regroups(Seq(Octets)) /\ Behind \in Seq(Octets)
        BY SeqRegroups, FixedLines
      <4> QED
        BY <1>4, <2>3, <4>1, ZenonT(40) DEF Regroups
    <3>3. (text \o a) \o remains = text \o (a \o remains)
      <4>1. text \in Seq(Octets)
        BY <1>7, TextType
      <4>2. Regroups(Seq(Octets))
        BY SeqRegroups
      <4>3. \A u \in Seq(Octets) : (u \o a) \o remains = u \o (a \o remains)
        BY <1>4, <2>4, <4>2, ZenonT(40) DEF Regroups
      <4> QED
        BY <4>1, <4>3
    <3>4. (text \o a) \o remains = text \o t
      BY <1>4, <3>1, <3>2, <3>3, Zenon
    <3>5. Expected(text \o t)'
      BY <1>5, <2>6, Zenon DEF Expected
    <3> QED
      BY <3>4, <3>5, Zenon
  <2>7. ~Lost
    BY <1>11 DEF Lost
  <2>8. Place(text \o a)'
    BY <1>5, <1>8, <1>9, <2>4, <2>5, <2>6, <2>7, Zenon DEF Place
  <2> QED
    BY <1>1, <2>2, <2>8, PlaceOf
<1> QED
  BY <1>10, <1>11

\* SendFails: the server has cut the head, the client hangs up.
LEMMA SendFailsInv ==
  ASSUME HeadInv, SendFails
  PROVE  LineInv' /\ PlaceInv'
<1>1. LineInv' /\ TheLine' = TheLine /\ link' = link
  BY LineKept DEF SendFails
<1>2. PICK text : text = TheLine \o link
  OBVIOUS
<1>3. (TheLine \o link)' = text
  BY <1>1, <1>2, Zenon
<1>4. UNCHANGED <<fields, scanner, found>> /\ sender = "sending"
  BY DEF SendFails, Scan
<1>5. scanner = "failed" \/ Lost \/ (\E t \in Seq(Octets) : Unsent(t) /\ Expected(text \o t)) \/ cut
  BY <1>2, <1>4, Zenon DEF HeadInv, PlaceInv, Place
<1>6. CASE server
  <2>1. sender' = "body" /\ cut' = TRUE
    BY <1>6 DEF SendFails
  <2>2. Place(text)'
    BY <2>1 DEF Place
  <2> QED
    BY <1>1, <1>3, <2>2, PlaceOf
<1>7. CASE ~server
  <2>1. sender' = "failed" /\ hungUp' = TRUE /\ cut' = cut
    BY <1>7 DEF SendFails
  <2>2. Lost => Lost'
    BY <1>1, <1>4, <2>1, Zenon DEF Lost
  <2>3. \A t : Unsent(t) /\ Expected(text \o t) => Unsent(t)' /\ Expected(text \o t)'
    BY <1>4, <2>1, Zenon DEF Unsent, Expected
  <2>4. sender' \notin {"setting", "sending"}
    BY <2>1
  <2>5. Place(text)'
    BY <1>4, <1>5, <2>1, <2>2, <2>3, <2>4, Zenon DEF Place
  <2> QED
    BY <1>1, <1>3, <2>5, PlaceOf
<1> QED
  BY <1>6, <1>7

\* SendBody sends what is left.
LEMMA SendBodyInv ==
  ASSUME HeadInv, SendBody
  PROVE  LineInv' /\ PlaceInv'
<1>1. LineInv' /\ TheLine' = TheLine /\ UNCHANGED Scan
  BY LineKept DEF SendBody
<1>2. PICK text : text = TheLine \o link
  OBVIOUS
<1>3. UNCHANGED <<fields, hungUp, cut, scanner, found>> /\ sender = "body" /\ sender' = "done"
  BY DEF SendBody, Scan
<1>4. scanner = "failed" \/ Lost \/ (\E t \in Seq(Octets) : Unsent(t) /\ Expected(text \o t)) \/ cut
  BY <1>2, <1>3, Zenon DEF HeadInv, PlaceInv, Place
<1>5. sender' \notin {"setting", "sending"}
  BY <1>3
<1>6. CASE hungUp
  <2>1. link' = link
    BY <1>6 DEF SendBody, Reaches
  <2>2. Lost => Lost'
    BY <1>1, <1>3, <2>1, Zenon DEF Lost
  <2>3. \A t : Unsent(t) /\ Expected(text \o t) => Unsent(t)' /\ Expected(text \o t)'
    BY <1>3, <1>6, Zenon DEF Unsent, Expected
  <2>4. Place(text)'
    BY <1>3, <1>4, <1>5, <2>2, <2>3, Zenon DEF Place
  <2>5. (TheLine \o link)' = text
    BY <1>1, <1>2, <2>1, Zenon
  <2> QED
    BY <1>1, <2>4, <2>5, PlaceOf
<1>7. CASE ~hungUp
  <2>0. Behind \in Seq(Octets) /\ <<>> \in Seq(Octets)
    BY FixedLines, EmptySeq
  <2>1. link' = link \o Behind
    BY <1>7 DEF SendBody, Reaches
  <2>2. (TheLine \o link)' = text \o Behind /\ (text \o Behind) \o <<>> = text \o (Behind \o <<>>)
    BY <1>1, <1>2, <2>0, <2>1, TextGrows
  <2>3. Behind \o <<>> = Behind
    BY <2>0, ConcatEmptySeq
  <2>4. Unsent(<<>>)'
    BY <1>3, Zenon DEF Unsent, Coming
  <2>5. ASSUME NEW t, Unsent(t), Expected(text \o t)
        PROVE  Expected((text \o Behind) \o <<>>)'
    <3>1. t = Behind
      BY <1>3, <1>7, <2>5, Zenon DEF Unsent, Coming
    <3> QED
      BY <1>3, <2>2, <2>3, <2>5, <3>1, Zenon DEF Expected
  <2>6. ~Lost
    BY <1>7 DEF Lost
  <2>7. Place(text \o Behind)'
    BY <1>3, <1>4, <1>5, <2>0, <2>4, <2>5, <2>6, Zenon DEF Place
  <2> QED
    BY <1>1, <2>2, <2>7, PlaceOf
<1> QED
  BY <1>6, <1>7

\* HangUp leaves what is on the way.
LEMMA HangUpInv ==
  ASSUME HeadInv, HangUp
  PROVE  LineInv' /\ PlaceInv'
<1>1. LineInv' /\ TheLine' = TheLine /\ link' = link
  BY LineKept DEF HangUp
<1>2. PICK text : text = TheLine \o link
  OBVIOUS
<1>3. (TheLine \o link)' = text
  BY <1>1, <1>2, Zenon
<1>4. UNCHANGED <<fields, sender, cut, scanner, found>> /\ hungUp' = TRUE
  BY DEF HangUp, Scan
<1>5. Place(text)
  BY <1>2 DEF HeadInv, PlaceInv
<1>6. Lost => Lost'
  BY <1>1, <1>4, Zenon DEF Lost
<1>7. \A t : Unsent(t) /\ Expected(text \o t) => Unsent(t)' /\ Expected(text \o t)'
  BY <1>4, Zenon DEF Unsent, Expected
<1>8. Announced(text) => Announced(text)'
  BY <1>4, Zenon DEF Announced
<1>9. Place(text)'
  BY <1>4, <1>5, <1>6, <1>7, <1>8, Zenon DEF Place
<1> QED
  BY <1>1, <1>3, <1>9, PlaceOf

\* GetLineFails: nothing more is read.
LEMMA GetLineFailsInv ==
  ASSUME HeadInv, GetLineFails
  PROVE  LineInv' /\ PlaceInv'
<1>1. UNCHANGED <<sender, cut, link, fixed_buffer_, glowable_buffer_>> /\ scanner' = "failed"
  BY DEF GetLineFails, Sends
<1>2. LineInv'
  BY <1>1 DEF HeadInv, LineInv, TheLine
<1>3. PICK text : text = TheLine \o link
  OBVIOUS
<1>4. (TheLine \o link)' = text
  BY <1>1, <1>3 DEF TheLine
<1>5. Place(text)'
  BY <1>1 DEF HeadInv, PlaceInv, Place
<1> QED
  BY <1>2, <1>4, <1>5, PlaceOf

-----------------------------------------------------------------------------
\* After a line was taken, the text is what is left of the stream.
LEMMA LineTaken ==
  ASSUME HeadInv, LineIsRead, NextLine, UNCHANGED <<Sends, link>>
  PROVE  /\ LineInv' /\ TheLine' = <<>> /\ (TheLine \o link)' = link
         /\ TheLine # <<>>
         /\ OneLine(TheLine) \/ (link = <<>> /\ hungUp /\ \A k \in 1..Len(TheLine) : TheLine[k] # Lf)
<1>1. TheLine' = <<>> /\ glowable_buffer_' = <<>>
  BY DEF NextLine, TheLine
<1>2. LineInv'
  BY <1>1, EmptySeq DEF LineInv
<1>3. <<>> \o link = link
  BY TextType, ConcatEmptySeq
<1>4. (TheLine \o link)' = link
  BY <1>1, <1>3, Zenon
<1>5. PICK line : line = TheLine
  OBVIOUS
<1>6. line \in Seq(Octets) /\ line # <<>> /\ \A k \in 1..(Len(line) - 1) : line[k] # Lf
  BY <1>5, TextType DEF HeadInv, LineInv, LineIsRead
<1>7. CASE line[Len(line)] = Lf
  BY <1>1, <1>2, <1>4, <1>5, <1>6, <1>7 DEF OneLine
<1>8. CASE line[Len(line)] # Lf
  <2>1. link = <<>> /\ hungUp
    BY <1>5, <1>8 DEF LineIsRead, Last
  <2>2. \A k \in 1..Len(line) : line[k] # Lf
    <3>1. \A k \in 1..Len(line) : k \in 1..(Len(line) - 1) \/ k = Len(line)
      BY <1>6
    <3> QED
      BY <1>6, <1>8, <3>1
  <2> QED
    BY <1>1, <1>2, <1>4, <1>5, <1>6, <2>1, <2>2
<1> QED
  BY <1>7, <1>8

\* A text that begins with a line has an LF.
LEMMA LineHasEnd ==
  ASSUME NEW s \in Seq(Octets), NEW first \in Seq(Octets), NEW more \in Seq(Octets),
         OneLine(first), s = first \o more
  PROVE  \E k \in 1..Len(s) : s[k] = Lf
<1>1. IsJoin(s, first, more)
  BY JoinedSeqs
<1>2. Len(first) \in Nat /\ Len(first) # 0 /\ first[Len(first)] = Lf /\ Len(more) \in Nat
  BY EmptySeq DEF OneLine
<1>3. Len(first) \in 1..Len(s) /\ s[Len(first)] = Lf
  BY <1>1, <1>2 DEF IsJoin
<1> QED
  BY <1>3

\* While the handler runs, the line that is read is the first that was announced.
LEMMA LineAnnounced ==
  ASSUME HeadInv, LineIsRead, NEW text, text = TheLine \o link, Announced(text),
         OneLine(TheLine) \/ (link = <<>> /\ \A k \in 1..Len(TheLine) : TheLine[k] # Lf)
  PROVE  \/ scanner = "first" /\ TheLine = ContinueLine /\ link = LineEnd
         \/ scanner = "blank" /\ TheLine = LineEnd /\ link = <<>>
<1>1. PICK line, behind : line = TheLine /\ behind = link
  OBVIOUS
<1>2. line \in Seq(Octets) /\ behind \in Seq(Octets) /\ line # <<>>
  BY <1>1, TextType DEF LineIsRead
<1>3. ASSUME NEW first \in Seq(Octets), NEW more \in Seq(Octets), OneLine(first), text = first \o more
      PROVE  line = first /\ behind = more
  <2>1. line \o behind = first \o more
    BY <1>1, <1>3
  <2>2. CASE OneLine(line)
    BY <1>2, <1>3, <2>1, <2>2, SameLine
  <2>3. CASE behind = <<>> /\ \A k \in 1..Len(line) : line[k] # Lf
    <3>1. line = first \o more
      BY <1>2, <2>1, <2>3, ConcatEmptySeq
    <3> QED
      BY <1>2, <1>3, <2>3, <3>1, LineHasEnd
  <2> QED
    BY <1>1, <2>2, <2>3
<1>4. text # <<>>
  <2>1. Len(line \o behind) = Len(line) + Len(behind)
    BY <1>2, ConcatProperties
  <2>2. Len(line) \in Nat /\ Len(line) # 0 /\ Len(behind) \in Nat
    BY <1>2, EmptySeq
  <2>3. Len(line \o behind) # 0
    BY <2>1, <2>2
  <2> QED
    BY <1>1, <2>3, EmptySeq
<1>5. CASE scanner = "first" /\ text = ContinueLine \o LineEnd
  BY <1>1, <1>3, <1>5, FixedLines
<1>6. CASE scanner = "blank" /\ text = LineEnd
  <2>1. text = LineEnd \o <<>> /\ <<>> \in Seq(Octets)
    BY <1>6, FixedLines, ConcatEmptySeq, EmptySeq
  <2> QED
    BY <1>1, <1>3, <1>6, <2>1, FixedLines
<1> QED
  BY <1>4, <1>5, <1>6, Zenon DEF Announced

\* A text begins with a line.
Begins(s, first, more) == s = first \o more

\* There is only one line with which a text begins.
LEMMA BeginsOnce ==
  ASSUME NEW a \in Seq(Octets), NEW b \in Seq(Octets), NEW c \in Seq(Octets),
         NEW d \in Seq(Octets), NEW s, OneLine(a), OneLine(c), Begins(s, a, b), Begins(s, c, d)
  PROVE  a = c /\ b = d
<1>1. a \o b = c \o d
  BY Zenon DEF Begins
<1> QED
  BY <1>1, SameLine

\* The line that is read is the one with which what is left begins.
LEMMA TextBegins ==
  ASSUME HeadInv, OneLine(TheLine), NEW t \in Seq(Octets),
         NEW first \in Seq(Octets), NEW more \in Seq(Octets),
         OneLine(first), Begins((TheLine \o link) \o t, first, more)
  PROVE  TheLine = first /\ link \o t = more
<1>1. PICK line, behind : line = TheLine /\ behind = link
  OBVIOUS
<1>2. line \in Seq(Octets) /\ behind \in Seq(Octets) /\ OneLine(line)
  BY <1>1, TextType
<1>3. (line \o behind) \o t = first \o more
  BY <1>1, Zenon DEF Begins
<1>4. line \o (behind \o t) = first \o more
  <2>1. Regroups(Seq(Octets))
    BY SeqRegroups
  <2> QED
    BY <1>2, <1>3, <2>1, ZenonT(40) DEF Regroups
<1>5. behind \o t \in Seq(Octets)
  BY <1>2, ConcatProperties
<1>6. PICK remains : remains = behind \o t
  OBVIOUS
<1>7. remains \in Seq(Octets) /\ line \o remains = first \o more
  BY <1>4, <1>5, <1>6, Zenon
<1>8. line = first /\ remains = more
  <2>1. Begins(line \o remains, line, remains) /\ Begins(line \o remains, first, more)
    BY <1>7, Zenon DEF Begins
  <2> QED
    BY <1>2, <1>7, <2>1, BeginsOnce
<1> QED
  BY <1>1, <1>6, <1>8

\* ReadFirstLine takes the first line of the head, or that of "100 Continue".
LEMMA ReadFirstLineInv ==
  ASSUME HeadInv, ReadFirstLine
  PROVE  LineInv' /\ PlaceInv'
<1>0. LineIsRead /\ NextLine /\ UNCHANGED <<Sends, link>>
  BY DEF ReadFirstLine
<1>1. /\ LineInv' /\ TheLine' = <<>> /\ (TheLine \o link)' = link
      /\ TheLine # <<>>
      /\ OneLine(TheLine) \/ (link = <<>> /\ hungUp /\ \A k \in 1..Len(TheLine) : TheLine[k] # Lf)
  BY <1>0, LineTaken
<1>2. UNCHANGED <<fields, sender, pending, hungUp, cut, link, found>>
  BY DEF ReadFirstLine, Sends
<1>3. /\ TheLine = FirstLine => scanner' = "headers"
      /\ TheLine = ContinueLine => scanner' = "blank"
      /\ scanner' \in {"headers", "blank", "failed"}
  BY FixedLines DEF ReadFirstLine, FirstLine, ContinueLine
<1>4. scanner \in {"first", "next"}
  BY DEF ReadFirstLine
<1>5. PICK text, behind : text = TheLine \o link /\ behind = link
  OBVIOUS
<1>6. Place(text)
  BY <1>5 DEF HeadInv, PlaceInv
<1>7. ASSUME sender' = "setting" PROVE Announced(behind)'
  <2>1. Announced(text)
    BY <1>2, <1>4, <1>6, <1>7 DEF Place
  <2>2. scanner = "first" /\ TheLine = ContinueLine /\ link = LineEnd
    BY <1>0, <1>1, <1>4, <1>5, <2>1, LineAnnounced
  <2> QED
    BY <1>2, <1>3, <1>5, <2>1, <2>2 DEF Announced
<1>8. ASSUME sender' # "setting", ~cut'
      PROVE  Lost' \/ \E t \in Seq(Octets) : Unsent(t)' /\ Expected(behind \o t)'
  <2>1. CASE ~OneLine(TheLine)
    BY <1>1, <1>2, <1>3, <2>1 DEF Lost
  <2>2. CASE OneLine(TheLine)
    <3>1. PICK t \in Seq(Octets) : Unsent(t) /\ Expected(text \o t)
      BY <1>1, <1>2, <1>4, <1>5, <1>6, <1>8 DEF Place, Lost
    <3>2. Unsent(t)'
      BY <1>2, <3>1, Zenon DEF Unsent, Coming
    <3>3. fields \in Seq(Settable)
      BY TextType
    <3>4. PICK whole, left : whole = WholeOf(fields) /\ left = LeftOf(fields, 0)
      OBVIOUS
    <3>5. whole \in Seq(Octets) /\ left \in Seq(Octets) /\ whole = FirstLine \o left
      <4>1. 0 \in 0..Len(fields)
        BY <3>3
      <4> QED
        BY <3>3, <3>4, <4>1, HeadWritten, LeftType DEF WholeOf
    <3>6. ASSUME NEW first \in Seq(Octets), NEW more \in Seq(Octets), OneLine(first),
                 text \o t = first \o more
          PROVE  TheLine = first /\ behind \o t = more
      <4>1. Begins((TheLine \o link) \o t, first, more)
        BY <1>5, <3>6, Zenon DEF Begins
      <4>2. TheLine = first /\ link \o t = more
        BY <2>2, <3>6, <4>1, TextBegins
      <4> QED
        BY <1>5, <4>2, Zenon
    <3>7. CASE found = <<>> /\ text \o t = whole
      <4>1. TheLine = FirstLine /\ behind \o t = left
        BY <3>5, <3>6, <3>7, FixedLines
      <4>2. GotOf(fields, 0) = <<>>
        BY <3>3, GotEnds
      <4>2a. 0 \in 0..Len(fields)
        BY <3>3
      <4>3. Expected(behind \o t)'
        BY <1>2, <1>3, <3>4, <3>7, <4>1, <4>2, <4>2a, Zenon DEF Expected
      <4> QED
        BY <3>2, <4>3
    <3>8. CASE found = <<>> /\ text \o t = ContinueLine \o (LineEnd \o whole)
      <4>1. LineEnd \o whole \in Seq(Octets)
        BY <3>5, FixedLines, ConcatProperties
      <4>2. TheLine = ContinueLine /\ behind \o t = LineEnd \o whole
        BY <3>6, <3>8, <4>1, FixedLines
      <4>3. Expected(behind \o t)'
        BY <1>2, <1>3, <3>4, <3>8, <4>2, Zenon DEF Expected
      <4> QED
        BY <3>2, <4>3
    <3> QED
      BY <1>4, <3>1, <3>4, <3>7, <3>8 DEF Expected
  <2> QED
    BY <2>1, <2>2
<1>9. Place(behind)'
  BY <1>2, <1>6, <1>7, <1>8, Zenon DEF Place
<1> QED
  BY <1>1, <1>5, <1>9, PlaceOf

\* ReadBlankLine takes the line behind "100 Continue".
LEMMA ReadBlankLineInv ==
  ASSUME HeadInv, ReadBlankLine
  PROVE  LineInv' /\ PlaceInv'
<1>0. LineIsRead /\ NextLine /\ UNCHANGED <<Sends, link>>
  BY DEF ReadBlankLine
<1>1. /\ LineInv' /\ TheLine' = <<>> /\ (TheLine \o link)' = link
      /\ TheLine # <<>>
      /\ OneLine(TheLine) \/ (link = <<>> /\ hungUp /\ \A k \in 1..Len(TheLine) : TheLine[k] # Lf)
  BY <1>0, LineTaken
<1>2. /\ UNCHANGED <<fields, sender, pending, hungUp, cut, link, found>>
      /\ scanner = "blank" /\ scanner' = "next"
  BY DEF ReadBlankLine, Sends
<1>5. PICK text, behind : text = TheLine \o link /\ behind = link
  OBVIOUS
<1>6. Place(text)
  BY <1>5 DEF HeadInv, PlaceInv
<1>7. ASSUME sender' = "setting" PROVE Announced(behind)'
  <2>1. Announced(text)
    BY <1>2, <1>6, <1>7 DEF Place
  <2>2. link = <<>>
    BY <1>0, <1>1, <1>2, <1>5, <2>1, LineAnnounced
  <2> QED
    BY <1>2, <1>5, <2>1, <2>2 DEF Announced
<1>8. ASSUME sender' # "setting", ~cut'
      PROVE  Lost' \/ \E t \in Seq(Octets) : Unsent(t)' /\ Expected(behind \o t)'
  <2>1. CASE ~OneLine(TheLine)
    BY <1>1, <1>2, <2>1 DEF Lost
  <2>2. CASE OneLine(TheLine)
    <3>1. PICK t \in Seq(Octets) : Unsent(t) /\ Expected(text \o t)
      BY <1>1, <1>2, <1>5, <1>6, <1>8 DEF Place, Lost
    <3>2. Unsent(t)'
      BY <1>2, <3>1, Zenon DEF Unsent, Coming
    <3>3. PICK whole : whole = WholeOf(fields)
      OBVIOUS
    <3>4. whole \in Seq(Octets)
      BY <3>3, TextType, HeadWritten, Zenon
    <3>5. found = <<>> /\ text \o t = LineEnd \o whole
      BY <1>2, <3>1, <3>3 DEF Expected
    <3>6. behind \o t = whole
      <4>1. Begins((TheLine \o link) \o t, LineEnd, whole)
        BY <1>5, <3>5, Zenon DEF Begins
      <4>2. link \o t = whole
        BY <2>2, <3>4, <4>1, FixedLines, TextBegins
      <4> QED
        BY <1>5, <4>2, Zenon
    <3>7. Expected(behind \o t)'
      BY <1>2, <3>3, <3>5, <3>6, Zenon DEF Expected
    <3> QED
      BY <3>2, <3>7
  <2> QED
    BY <2>1, <2>2
<1>9. Place(behind)'
  BY <1>2, <1>6, <1>7, <1>8, Zenon DEF Place
<1> QED
  BY <1>1, <1>5, <1>9, PlaceOf

\* ReadHeader takes the line of the next header, or the line end of the head.
LEMMA ReadHeaderInv ==
  ASSUME HeadInv, ReadHeader
  PROVE  LineInv' /\ PlaceInv'
<1>0. LineIsRead /\ NextLine /\ UNCHANGED <<Sends, link>>
  BY DEF ReadHeader
<1>1. /\ LineInv' /\ TheLine' = <<>> /\ (TheLine \o link)' = link
      /\ TheLine # <<>>
      /\ OneLine(TheLine) \/ (link = <<>> /\ hungUp /\ \A k \in 1..Len(TheLine) : TheLine[k] # Lf)
  BY <1>0, LineTaken
<1>2. /\ UNCHANGED <<fields, sender, pending, hungUp, cut, link>>
      /\ scanner = "headers"
  BY DEF ReadHeader, Sends
<1>5. PICK text, behind : text = TheLine \o link /\ behind = link
  OBVIOUS
<1>6. Place(text)
  BY <1>5 DEF HeadInv, PlaceInv
<1>7. sender' # "setting"
  BY <1>2, <1>6 DEF Place, Announced
<1>8. ASSUME ~cut' PROVE Lost' \/ \E t \in Seq(Octets) : Unsent(t)' /\ Expected(behind \o t)'
  <2>1. CASE ~OneLine(TheLine)
    <3>1. PICK line : line = TheLine
      OBVIOUS
    <3>2. line \in Seq(Octets) /\ ~end_with_crlf(line)
      <4>1. SUFFICES ASSUME line \in Seq(Octets), end_with_crlf(line) PROVE FALSE
        BY <3>1, TextType
      <4>2. \A k \in 1..Len(line) : line[k] # Lf
        BY <1>1, <2>1, <3>1
      <4>3. Len(line) \in Nat /\ Len(line) >= 2 /\ SubSeq(line, Len(line) - 1, Len(line)) = LineEnd
        BY <4>1 DEF end_with_crlf
      <4>4. SubSeq(line, Len(line) - 1, Len(line))[2] = line[(Len(line) - 1) + 2 - 1]
        BY <4>1, <4>3, SubSeqProperties
      <4>5. (Len(line) - 1) + 2 - 1 = Len(line) /\ Len(line) \in 1..Len(line)
        BY <4>3
      <4>6. LineEnd[2] = Lf
        BY DEF LineEnd
      <4> QED
        BY <4>2, <4>3, <4>4, <4>5, <4>6
    <3>3. scanner' = scanner
      BY <3>1, <3>2 DEF ReadHeader
    <3> QED
      BY <1>1, <1>2, <2>1, <3>3 DEF Lost
  <2>2. CASE OneLine(TheLine)
    <3>1. PICK t \in Seq(Octets) : Unsent(t) /\ Expected(text \o t)
      BY <1>1, <1>2, <1>5, <1>6, <1>7, <1>8 DEF Place, Lost
    <3>2. Unsent(t)'
      BY <1>2, <3>1, Zenon DEF Unsent, Coming
    <3>3. fields \in Seq(Settable)
      BY TextType
    <3>4. PICK n \in 0..Len(fields) : found = GotOf(fields, n) /\ text \o t = LeftOf(fields, n)
      BY <1>2, <3>1 DEF Expected
    <3>5. ASSUME NEW first \in Seq(Octets), NEW more \in Seq(Octets), OneLine(first),
                 text \o t = first \o more
          PROVE  TheLine = first /\ behind \o t = more
      <4>1. Begins((TheLine \o link) \o t, first, more)
        BY <1>5, <3>5, Zenon DEF Begins
      <4>2. TheLine = first /\ link \o t = more
        BY <2>2, <3>5, <4>1, TextBegins
      <4> QED
        BY <1>5, <4>2, Zenon
    <3>6. CASE n = Len(fields)
      <4>1. text \o t = LineEnd \o Behind
        BY <3>3, <3>4, <3>6, LeftEnd
      <4>2. TheLine = LineEnd /\ behind \o t = Behind
        BY <3>5, <4>1, FixedLines
      <4>3. scanner' = "ok" /\ found' = found
        BY <4>2, FixedLines DEF ReadHeader
      <4>4. Expected(behind \o t)'
        BY <1>2, <3>4, <3>6, <4>2, <4>3, Zenon DEF Expected
      <4> QED
        BY <3>2, <4>4
    <3>7. CASE n # Len(fields)
      <4>1. n \in 0..(Len(fields) - 1) /\ n + 1 \in 0..Len(fields) /\ n + 1 \in 1..Len(fields)
        BY <3>3, <3>7
      <4>2. PICK h, line, more : /\ h = fields[n + 1] /\ line = header_line(h)
                                 /\ more = LeftOf(fields, n + 1)
        OBVIOUS
      <4>3. h \in Settable
        BY <3>3, <4>1, <4>2, ElementOfSeq
      <4>4. PICK key, val0 : key = h.key /\ val0 = c_str(h.val)
        OBVIOUS
      <4>5. /\ line \in Seq(Octets) /\ IsHeaderLine(line, key, val0)
            /\ key \in Seq(Octets) /\ val0 \in Seq(Octets)
        BY <4>2, <4>3, <4>4, LineShape
      <4>6. OneLine(line) /\ Len(line) # 2 /\ end_with_crlf(line)
        BY <4>5, LineIsOne
      <4>7. more \in Seq(Octets)
        BY <3>3, <4>1, <4>2, LeftType
      <4>8. text \o t = line \o more
        BY <3>3, <3>4, <4>1, <4>2, LeftSplit, Zenon
      <4>9. TheLine = line /\ behind \o t = more
        BY <3>5, <4>5, <4>6, <4>7, <4>8
      <4>10. scanner' = "headers" /\ found' = found \o parse_header(SubSeq(line, 1, Len(line) - 2))
        <5>1. end_with_crlf(TheLine) /\ Len(TheLine) # 2
          BY <4>6, <4>9, Zenon
        <5> QED
          BY <1>2, <4>9, <5>1, Zenon DEF ReadHeader
      <4>11. parse_header(SubSeq(line, 1, Len(line) - 2)) = Arrives(h)
        BY <4>4, <4>5, LineArrives
      <4>12. found' = GotOf(fields, n + 1)
        BY <3>3, <3>4, <4>1, <4>2, <4>10, <4>11, GotSplit, Zenon
      <4>13. Expected(behind \o t)'
        BY <1>2, <4>1, <4>2, <4>9, <4>10, <4>12, Zenon DEF Expected
      <4> QED
        BY <3>2, <4>13
    <3> QED
      BY <3>6, <3>7
  <2> QED
    BY <2>1, <2>2
<1>9. Place(behind)'
  BY <1>2, <1>6, <1>7, <1>8, Zenon DEF Place
<1> QED
  BY <1>1, <1>5, <1>9, PlaceOf

\* Nothing happens.
LEMMA HeadStutterInv ==
  ASSUME HeadInv, UNCHANGED headVars
  PROVE  LineInv' /\ PlaceInv'
<1>1. UNCHANGED <<fields, sender, pending, hungUp, cut, link, found, scanner>> /\ UNCHANGED Scan
  BY DEF headVars, Scan
<1>2. LineInv' /\ TheLine' = TheLine
  BY <1>1, LineKept
<1>3. PICK text : text = TheLine \o link
  OBVIOUS
<1>4. (TheLine \o link)' = text
  BY <1>1, <1>2, <1>3, Zenon
<1>5. Place(text)
  BY <1>3 DEF HeadInv, PlaceInv
<1>6. Lost => Lost'
  BY <1>1, <1>2, Zenon DEF Lost
<1>7. \A t : Unsent(t) /\ Expected(text \o t) => Unsent(t)' /\ Expected(text \o t)'
  BY <1>1, Zenon DEF Unsent, Coming, Expected
<1>8. Announced(text) => Announced(text)'
  BY <1>1, Zenon DEF Announced
<1>9. Place(text)'
  BY <1>1, <1>5, <1>6, <1>7, <1>8, Zenon DEF Place
<1> QED
  BY <1>2, <1>4, <1>9, PlaceOf

\* In every state what is read, on the way and to be sent make up the head and the
\* body behind it (write_headers, SocketStream::write, stream_line_reader::getline,
\* read_headers), for any headers and any buffer.
THEOREM HeadInvariance == HeadSpec => []HeadInv
<1>1. HeadInv /\ [HeadNext]_headVars => HeadInv'
  <2> SUFFICES ASSUME HeadInv, [HeadNext]_headVars PROVE HeadInv'
    OBVIOUS
  <2>1. LineInv' /\ PlaceInv'
    BY SetHeaderInv, ContinueInv, WriteHeadInv, SendHeadInv, SendFailsInv, SendBodyInv,
       HangUpInv, AppendByteInv, GetLineFailsInv, ReadFirstLineInv, ReadBlankLineInv,
       ReadHeaderInv, HeadStutterInv DEF HeadNext
  <2>2. HeadTypeOK'
    BY HeadTypeStep
  <2> QED
    BY <2>1, <2>2 DEF HeadInv
<1> QED
  BY <1>1, HeadInitInv, PTL DEF HeadSpec

\* Then a head that was read to its end is the one that was set.
LEMMA HeadInvGives == HeadInv => HeadersArrive
<1> SUFFICES ASSUME HeadInv, scanner = "ok", ~cut
             PROVE  /\ found = FlattenSeq([k \in DOMAIN fields |-> Arrives(fields[k])])
                    /\ link \in {<<>>, Behind}
  BY Zenon DEF HeadersArrive
<1>1. PlaceInv /\ TheLine = <<>>
  BY DEF HeadInv, LineInv
<1>2. link \in Seq(Octets) /\ fields \in Seq(Settable)
  BY TextType
<1>3. TheLine \o link = link
  BY <1>1, <1>2, ConcatEmptySeq
<1>4. PICK t \in Seq(Octets) : Unsent(t) /\ Expected(link \o t)
  BY <1>1, <1>3 DEF PlaceInv, Place, Announced, Lost
<1>5. found = GotOf(fields, Len(fields)) /\ link \o t = Behind
  BY <1>4 DEF Expected
<1>6. found = FlattenSeq([k \in DOMAIN fields |-> Arrives(fields[k])])
  BY <1>2, <1>5, GotEnds, Zenon
<1>7. link \in {<<>>, Behind}
  <2>1. CASE t = <<>>
    BY <1>2, <1>5, <2>1, ConcatEmptySeq
  <2>2. ASSUME NEW p \in Seq(Octets), t = p \o Behind PROVE link = <<>>
    <3>1. Behind \in Seq(Octets) /\ Len(Behind) \in Nat
      BY FixedLines
    <3>2. Len(link \o t) = Len(link) + Len(t) /\ Len(p \o Behind) = Len(p) + Len(Behind)
      BY <1>2, <3>1, ConcatProperties
    <3>3. Len(Behind) = Len(link) + (Len(p) + Len(Behind))
      BY <1>5, <2>2, <3>2, Zenon
    <3>4. Len(link) = 0
      <4>1. Len(link) \in Nat /\ Len(p) \in Nat
        BY <1>2
      <4> QED
        BY <3>1, <3>3, <4>1
    <3> QED
      BY <1>2, <3>4, EmptySeq
  <2> QED
    BY <1>4, <2>1, <2>2 DEF Unsent
<1> QED
  BY <1>6, <1>7

\* The other side reads the headers that were set, in their order, and leaves what is
\* behind the head in the stream: however many headers there are and however long, for
\* any size of the buffers of write_format and getline, wherever the stream is cut, and
\* with or without "100 Continue" before the head.
THEOREM HeadersAlwaysArrive == HeadSpec => []HeadersArrive
BY HeadInvariance, HeadInvGives, PTL
-----------------------------------------------------------------------------
\* Three sequences, regrouped.
ThreeGrouped(s, t, u) == (s \o t) \o u = s \o (t \o u)

\* They can be.
LEMMA GroupAnyThree ==
  ASSUME NEW s \in Seq(Chars), NEW t \in Seq(Chars), NEW u \in Seq(Chars)
  PROVE  ThreeGrouped(s, t, u)
<1>1. Regroups(Seq(Chars))
  BY SeqRegroups
<1> QED
  BY <1>1, Zenon DEF Regroups, ThreeGrouped

\* A text in two ways, and what is left of it.
SameText(b, r, p, u) == b \o r = p \o u
Took(b, r, p, u) == SubSeq(b, 1, Len(p)) = p /\ erase(b, Len(p)) \o r = u

\* A text that begins with p, of which enough is in the buffer.
LEMMA TakeFront ==
  ASSUME NEW b \in Seq(Chars), NEW r \in Seq(Chars), NEW p \in Seq(Chars), NEW u \in Seq(Chars),
         SameText(b, r, p, u), Len(p) <= Len(b)
  PROVE  Took(b, r, p, u) /\ Len(b) = Len(p) + Len(erase(b, Len(p)))
<1>1. PICK n \in Nat : n = Len(p)
  OBVIOUS
<1>2. PICK f, e : f = SubSeq(b, 1, n) /\ e = SubSeq(b, n + 1, Len(b))
  OBVIOUS
<1>3. f \in Seq(Chars) /\ e \in Seq(Chars) /\ f \o e = b /\ Len(f) = n
  <2>1. n \in 0..Len(b)
    BY <1>1
  <2> QED
    BY <1>2, <2>1, CutSeq
<1>4. f \o (e \o r) = p \o u
  <2>0. b \o r = p \o u
    BY Zenon DEF SameText
  <2>1. ThreeGrouped(f, e, r)
    BY <1>3, GroupAnyThree
  <2>2. (f \o e) \o r = f \o (e \o r)
    BY <2>1, Zenon DEF ThreeGrouped
  <2> QED
    BY <1>3, <2>0, <2>2, Zenon
<1>5. e \o r \in Seq(Chars)
  BY <1>3, ConcatProperties
<1>6. f = p /\ e \o r = u
  BY <1>1, <1>3, <1>4, <1>5, SameCut
<1>7. Len(b) = Len(f) + Len(e)
  BY <1>3, ConcatProperties
<1>8. erase(b, n) = e
  BY <1>2 DEF erase
<1> QED
  BY <1>1, <1>2, <1>3, <1>6, <1>7, <1>8, Zenon DEF Took

\* What the bytes of a buffer are, when it and what has not arrived are d and u.
IsFront(b, d, u) ==
    /\ \A k \in 1..Len(b) : k <= Len(d) => b[k] = d[k]
    /\ \A k \in 1..Len(u) : Len(d) + k <= Len(b) => b[Len(d) + k] = u[k]

\* They are those of d and then those of u.
LEMMA FrontOf ==
  ASSUME NEW b \in Seq(Chars), NEW r \in Seq(Chars), NEW d \in Seq(Chars), NEW u \in Seq(Chars),
         SameText(b, r, d, u)
  PROVE  IsFront(b, d, u) /\ Len(b) + Len(r) = Len(d) + Len(u)
<1>1. PICK s : s = b \o r /\ s = d \o u
  BY DEF SameText
<1>2. IsJoin(s, b, r) /\ IsJoin(s, d, u)
  BY <1>1, JoinedSeqs
<1>3. Len(b) \in Nat /\ Len(d) \in Nat /\ Len(u) \in Nat /\ Len(r) \in Nat
  OBVIOUS
<1>4. \A k \in 1..Len(b) : k <= Len(d) => b[k] = d[k]
  BY <1>2, <1>3 DEF IsJoin
<1>5. ASSUME NEW k \in 1..Len(u), Len(d) + k <= Len(b) PROVE b[Len(d) + k] = u[k]
  <2>1. s[Len(d) + k] = u[k]
    BY <1>2 DEF IsJoin
  <2>2. Len(d) + k \in 1..Len(b)
    BY <1>3, <1>5
  <2> QED
    BY <1>2, <2>1, <2>2 DEF IsJoin
<1>6. Len(b) + Len(r) = Len(d) + Len(u)
  BY <1>2 DEF IsJoin
<1> QED
  BY <1>4, <1>5, <1>6 DEF IsFront

\* StartsAt, byte by byte.
LEMMA StartsAtIs ==
  ASSUME NEW s \in Seq(Chars), NEW p \in Seq(Chars), NEW q \in 1..Len(s)
  PROVE  StartsAt(s, q, p) <=> /\ q + Len(p) - 1 <= Len(s)
                               /\ \A j \in 1..Len(p) : s[q + j - 1] = p[j]
<1>1. SUFFICES ASSUME q + Len(p) - 1 <= Len(s)
               PROVE  SubSeq(s, q, q + Len(p) - 1) = p <=> \A j \in 1..Len(p) : s[q + j - 1] = p[j]
  BY DEF StartsAt
<1>2. PICK n \in Nat : n = Len(p)
  OBVIOUS
<1>3. PICK c : c = SubSeq(s, q, q + n - 1)
  OBVIOUS
<1>4. c \in Seq(Chars) /\ Len(c) = n /\ \A j \in 1..n : c[j] = s[q + j - 1]
  <2>1. \A k \in q..(q + n - 1) : s[k] \in Chars
    BY <1>1, <1>2, ElementOfSeq
  <2>2. q \in Int /\ q + n - 1 \in Int /\ (q + n - 1) - q + 1 = n
    BY <1>2
  <2>3. /\ SubSeq(s, q, q + n - 1) \in Seq(Chars)
        /\ Len(SubSeq(s, q, q + n - 1)) = IF q <= q + n - 1 THEN (q + n - 1) - q + 1 ELSE 0
        /\ \A k \in 1..((q + n - 1) - q + 1) : SubSeq(s, q, q + n - 1)[k] = s[q + k - 1]
    BY <2>1, <2>2, SubSeqProperties
  <2>4. Len(c) = n
    BY <1>2, <1>3, <2>2, <2>3
  <2> QED
    BY <1>3, <2>2, <2>3, <2>4
<1>5. c = p => \A j \in 1..n : s[q + j - 1] = p[j]
  BY <1>4
<1>6. (\A j \in 1..n : s[q + j - 1] = p[j]) => c = p
  <2> SUFFICES ASSUME \A j \in 1..n : s[q + j - 1] = p[j] PROVE c = p
    OBVIOUS
  <2>1. \A j \in 1..Len(c) : c[j] = p[j]
    BY <1>4
  <2> QED
    BY <1>2, <1>4, <2>1, SeqEqual
<1> QED
  BY <1>2, <1>3, <1>5, <1>6

\* Where find finds.
LEMMA FindIs ==
  ASSUME NEW s \in Seq(Chars), NEW p, NEW m \in 1..Len(s), StartsAt(s, m, p),
         \A q \in 1..(m - 1) : ~StartsAt(s, q, p)
  PROVE  find(s, p) = m - 1
<1> DEFINE S == {pos \in 1..Len(s) : StartsAt(s, pos, p)}
<1>1. m \in S /\ S \in SUBSET Int
  OBVIOUS
<1>2. \A x \in S : m <= x
  OBVIOUS
<1>3. find(s, p) = IF S = {} THEN Len(s) ELSE Min(S) - 1
  BY DEF find
<1> HIDE DEF S
<1>4. Min(S) = m
  BY <1>1, <1>2, MinIs
<1> QED
  BY <1>1, <1>3, <1>4

\* What is nowhere is not found.
LEMMA FindNone ==
  ASSUME NEW s \in Seq(Chars), NEW p, \A q \in 1..Len(s) : ~StartsAt(s, q, p)
  PROVE  find(s, p) = Len(s)
BY DEF find

\* A pattern q is not found before the end of d: neither in it nor across its end, as
\* what is behind begins with a byte that q only begins with.
LEMMA NoEarlier ==
  ASSUME NEW b \in Seq(Chars), NEW d \in Seq(Chars), NEW u \in Seq(Chars), NEW q \in Seq(Chars),
         IsFront(b, d, u), u # <<>>, q # <<>>, \A k \in 2..Len(q) : q[k] # u[1], ~Holds(d, q),
         NEW m \in 1..Len(d), m <= Len(b)
  PROVE  ~StartsAt(b, m, q)
<1> SUFFICES ASSUME StartsAt(b, m, q) PROVE FALSE
  OBVIOUS
<1>1. Len(b) \in Nat /\ Len(d) \in Nat /\ Len(u) \in Nat \ {0} /\ Len(q) \in Nat \ {0}
  BY EmptySeq
<1>2. m \in 1..Len(b)
  BY <1>1
<1>3. m + Len(q) - 1 <= Len(b) /\ \A j \in 1..Len(q) : b[m + j - 1] = q[j]
  BY <1>2, StartsAtIs
<1>4. CASE m + Len(q) - 1 <= Len(d)
  <2>1. ASSUME NEW j \in 1..Len(q) PROVE d[m + j - 1] = q[j]
    <3>1. m + j - 1 \in 1..Len(b) /\ m + j - 1 <= Len(d)
      BY <1>1, <1>3, <1>4
    <3>2. b[m + j - 1] = d[m + j - 1]
      BY <3>1 DEF IsFront
    <3> QED
      BY <1>3, <3>2
  <2>2. StartsAt(d, m, q)
    BY <1>4, <2>1, StartsAtIs
  <2>3. m \in DOMAIN d
    OBVIOUS
  <2> QED
    BY <2>2, <2>3 DEF Holds
<1>5. CASE ~(m + Len(q) - 1 <= Len(d))
  <2>1. PICK j : j = Len(d) + 2 - m
    OBVIOUS
  <2>2. j \in 2..Len(q) /\ j \in 1..Len(q) /\ m + j - 1 = Len(d) + 1 /\ Len(d) + 1 <= Len(b)
    BY <1>1, <1>3, <1>5, <2>1
  <2>3. b[Len(d) + 1] = q[j]
    BY <1>3, <2>2
  <2>4. 1 \in 1..Len(u)
    BY <1>1
  <2>5. b[Len(d) + 1] = u[1]
    BY <2>2, <2>4 DEF IsFront
  <2> QED
    BY <2>2, <2>3, <2>5
<1> QED
  BY <1>4, <1>5

\* find, of a pattern that ends a text, as far as it has arrived.
LEMMA FindFirst ==
  ASSUME NEW b \in Seq(Chars), NEW r \in Seq(Chars), NEW d \in Seq(Chars), NEW p \in Seq(Chars),
         NEW u \in Seq(Chars), p # <<>>, \A k \in 2..Len(p) : p[k] # p[1], ~Holds(d, p),
         SameText(b, r, d, p \o u)
  PROVE  IF Len(d) + Len(p) <= Len(b) THEN find(b, p) = Len(d) ELSE find(b, p) = Len(b)
<1>1. PICK v : v = p \o u
  OBVIOUS
<1>2. v \in Seq(Chars) /\ IsJoin(v, p, u)
  BY <1>1, JoinedSeqs
<1>3. Len(b) \in Nat /\ Len(d) \in Nat /\ Len(u) \in Nat /\ Len(p) \in Nat \ {0} /\ Len(v) = Len(p) + Len(u)
  BY <1>2, EmptySeq DEF IsJoin
<1>4. v # <<>> /\ v[1] = p[1]
  <2>1. 1 \in 1..Len(p) /\ Len(v) # 0
    BY <1>3
  <2> QED
    BY <1>2, <2>1, EmptySeq DEF IsJoin
<1>5. IsFront(b, d, v)
  <2>1. SameText(b, r, d, v)
    BY <1>1, Zenon
  <2> QED
    BY <1>2, <2>1, FrontOf, Zenon
<1>6. ASSUME NEW m \in 1..Len(d), m <= Len(b) PROVE ~StartsAt(b, m, p)
  BY <1>2, <1>4, <1>5, <1>6, NoEarlier
<1>7. CASE Len(d) + Len(p) <= Len(b)
  <2>1. Len(d) + 1 \in 1..Len(b)
    BY <1>3, <1>7
  <2>2. ASSUME NEW j \in 1..Len(p) PROVE b[(Len(d) + 1) + j - 1] = p[j]
    <3>1. (Len(d) + 1) + j - 1 = Len(d) + j /\ Len(d) + j <= Len(b) /\ j \in 1..Len(v)
      BY <1>3, <1>7
    <3>2. b[Len(d) + j] = v[j]
      BY <1>5, <3>1 DEF IsFront
    <3>3. v[j] = p[j]
      BY <1>2 DEF IsJoin
    <3> QED
      BY <3>1, <3>2, <3>3
  <2>3. (Len(d) + 1) + Len(p) - 1 <= Len(b)
    BY <1>3, <1>7
  <2>4. StartsAt(b, Len(d) + 1, p)
    BY <2>1, <2>2, <2>3, StartsAtIs
  <2>5. \A m \in 1..((Len(d) + 1) - 1) : ~StartsAt(b, m, p)
    BY <1>3, <1>6, <2>1
  <2>6. find(b, p) = (Len(d) + 1) - 1
    BY <2>1, <2>4, <2>5, FindIs
  <2> QED
    BY <1>3, <1>7, <2>6
<1>8. CASE ~(Len(d) + Len(p) <= Len(b))
  <2>1. ASSUME NEW m \in 1..Len(b), StartsAt(b, m, p) PROVE FALSE
    <3>1. m + Len(p) - 1 <= Len(b)
      BY <2>1 DEF StartsAt
    <3>2. m \in 1..Len(d)
      BY <1>3, <1>8, <3>1
    <3>3. m <= Len(b)
      BY <1>3
    <3> QED
      BY <1>6, <2>1, <3>2, <3>3
  <2>2. find(b, p) = Len(b)
    BY <2>1, FindNone
  <2> QED
    BY <1>8, <2>2
<1> QED
  BY <1>7, <1>8

\* find_string goes no further than to the end of d, where the pattern begins, and no
\* further than what has arrived.
LEMMA FindStringInside ==
  ASSUME NEW b \in Seq(Chars), NEW r \in Seq(Chars), NEW d \in Seq(Chars), NEW q \in Seq(Chars),
         NEW u \in Seq(Chars), q # <<>>, SameText(b, r, d, q \o u)
  PROVE  /\ find_string(b, q) \in 0..Len(b) /\ find_string(b, q) <= Len(d)
         /\ ~Holds(d, q) /\ (\A k \in 2..Len(q) : q[k] # q[1])
            /\ Len(b) - find_string(b, q) >= Len(q) => find_string(b, q) = Len(d)
<1> DEFINE S == {pos \in 1..Len(b) : /\ b[pos] = Head(q)
                                     /\ Len(q) > Len(b) - pos + 1 \/ StartsAt(b, pos, q)}
<1>1. PICK v : v = q \o u
  OBVIOUS
<1>2. v \in Seq(Chars) /\ IsJoin(v, q, u)
  BY <1>1, JoinedSeqs
<1>3. /\ Len(b) \in Nat /\ Len(d) \in Nat /\ Len(u) \in Nat /\ Len(q) \in Nat \ {0}
      /\ Len(v) = Len(q) + Len(u)
  BY <1>2, EmptySeq DEF IsJoin
<1>4. v # <<>> /\ v[1] = q[1] /\ Head(q) = q[1]
  <2>1. 1 \in 1..Len(q) /\ Len(v) # 0
    BY <1>3
  <2> QED
    BY <1>2, <2>1, EmptySeq DEF IsJoin
<1>5. IsFront(b, d, v)
  <2>1. SameText(b, r, d, v)
    BY <1>1, Zenon
  <2> QED
    BY <1>2, <2>1, FrontOf, Zenon
<1>6. find_string(b, q) = IF S = {} THEN Len(b) ELSE Min(S) - 1
  BY DEF find_string
<1>7. S \in SUBSET Nat /\ S \subseteq 1..Len(b)
  OBVIOUS
<1>8. Len(d) < Len(b) => Len(d) + 1 \in S
  <2> SUFFICES ASSUME Len(d) < Len(b) PROVE Len(d) + 1 \in S
    OBVIOUS
  <2>1. Len(d) + 1 \in 1..Len(b)
    BY <1>3
  <2>2. b[Len(d) + 1] = v[1]
    <3>1. 1 \in 1..Len(v) /\ Len(d) + 1 <= Len(b)
      BY <1>3
    <3> QED
      BY <1>5, <3>1 DEF IsFront
  <2>3. Len(q) > Len(b) - (Len(d) + 1) + 1 \/ StartsAt(b, Len(d) + 1, q)
    <3> SUFFICES ASSUME Len(q) + Len(d) <= Len(b) PROVE StartsAt(b, Len(d) + 1, q)
      BY <1>3
    <3>1. ASSUME NEW j \in 1..Len(q) PROVE b[(Len(d) + 1) + j - 1] = q[j]
      <4>1. (Len(d) + 1) + j - 1 = Len(d) + j /\ Len(d) + j <= Len(b) /\ j \in 1..Len(v)
        BY <1>3
      <4>2. b[Len(d) + j] = v[j]
        BY <1>5, <4>1 DEF IsFront
      <4>3. v[j] = q[j]
        BY <1>2 DEF IsJoin
      <4> QED
        BY <4>1, <4>2, <4>3
    <3>2. (Len(d) + 1) + Len(q) - 1 <= Len(b)
      BY <1>3
    <3> QED
      BY <2>1, <3>1, <3>2, StartsAtIs
  <2> QED
    BY <1>4, <2>1, <2>2, <2>3
<1>9. ASSUME NEW m \in S, ~(Len(q) > Len(b) - m + 1)
      PROVE  StartsAt(b, m, q)
  BY <1>9
<1> HIDE DEF S
<1>10. PICK f : f = find_string(b, q)
  OBVIOUS
<1>11. CASE S = {}
  <2>1. f = Len(b)
    BY <1>6, <1>10, <1>11
  <2> QED
    BY <1>3, <1>8, <1>10, <1>11, <2>1
<1>12. CASE S # {}
  <2>1. PICK m : m = Min(S)
    OBVIOUS
  <2>2. m \in S /\ \A x \in S : m <= x
    BY <1>7, <1>12, <2>1, MinNat
  <2>3. f = m - 1 /\ m \in 1..Len(b)
    BY <1>6, <1>7, <1>10, <1>12, <2>1, <2>2
  <2>4. f \in 0..Len(b) /\ f <= Len(d)
    BY <1>3, <1>8, <2>2, <2>3
  <2>5. ASSUME ~Holds(d, q), \A k \in 2..Len(q) : q[k] # q[1], Len(b) - f >= Len(q), f # Len(d)
        PROVE  FALSE
    <3>0. f = m - 1 /\ m \in 1..Len(b) /\ f <= Len(d) /\ f # Len(d) /\ Len(b) - f >= Len(q)
      BY <2>3, <2>4, <2>5, Zenon
    <3>1. m \in 1..Len(d) /\ m <= Len(b)
      <4>1. PICK x, y : x = Len(d) /\ y = Len(b)
        OBVIOUS
      <4>2. x \in Nat /\ y \in Nat
        BY <1>3, <4>1, Zenon
      <4>3. f = m - 1 /\ m \in 1..y /\ f <= x /\ f # x
        BY <3>0, <4>1, Zenon
      <4>4. m \in 1..x /\ m <= y
        BY <4>2, <4>3
      <4> QED
        BY <4>1, <4>4, Zenon
    <3>2. ~(Len(q) > Len(b) - m + 1)
      BY <1>3, <3>0
    <3>3. StartsAt(b, m, q)
      BY <1>9, <2>2, <3>2
    <3>4. \A k \in 2..Len(q) : q[k] # v[1]
      BY <1>4, <2>5
    <3> QED
      BY <1>2, <1>4, <1>5, <2>5, <3>1, <3>3, <3>4, NoEarlier
  <2> QED
    BY <1>10, <2>4, <2>5
<1> QED
  BY <1>11, <1>12

Opening == dash_ \o boundary_ \o crlf_
BorderBegins == crlf_ \o dash_
End == dash_ \o crlf_

\* A pattern begins with the CR and holds no other.
Unlike(p) == p[1] = CR /\ \A k \in 2..Len(p) : p[k] # p[1]

\* What the patterns that the parser looks for consist of.
LEMMA Patterns ==
  /\ crlf_ \in Seq(Chars) /\ Len(crlf_) = 2 /\ Unlike(crlf_)
  /\ dash_ \in Seq(Chars) /\ Len(dash_) = 2 /\ dash_[1] = Dash
  /\ boundary_ \in Seq(Chars) /\ Len(boundary_) \in Nat \ {0}
  /\ BorderBegins \in Seq(Chars) /\ Len(BorderBegins) = 4 /\ Unlike(BorderBegins)
  /\ Border \in Seq(Chars) /\ Len(Border) = 4 + Len(boundary_) /\ Unlike(Border)
  /\ Border = BorderBegins \o boundary_
  /\ End \in Seq(Chars) /\ Len(End) = 4 /\ End[1] = Dash
  /\ CR # Dash
<1>1. /\ crlf_ \in Seq(Chars) /\ Len(crlf_) = 2 /\ crlf_[1] = CR /\ crlf_[2] = LF
      /\ dash_ \in Seq(Chars) /\ Len(dash_) = 2 /\ dash_[1] = Dash /\ dash_[2] = Dash
      /\ CR # Dash /\ CR # LF
  <2>1. CR \in Chars /\ LF \in Chars /\ Dash \in Chars
    BY FormAssumption
  <2>2. CR # Dash /\ CR # LF
    BY DEF CR, LF, Dash
  <2>3. \A x, y \in Chars : <<x, y>> \in Seq(Chars) /\ Len(<<x, y>>) = 2 /\ <<x, y>>[1] = x /\ <<x, y>>[2] = y
    OBVIOUS
  <2>4. crlf_ = <<CR, LF>> /\ dash_ = <<Dash, Dash>>
    BY DEF crlf_, dash_
  <2> QED
    BY <2>1, <2>2, <2>3, <2>4, Zenon
<1>2. boundary_ \in Seq(Chars) /\ Len(boundary_) \in Nat \ {0} /\ \A k \in 1..Len(boundary_) : boundary_[k] # CR
  <2>1. boundary_ \in Seq(Chars) /\ boundary_ # <<>> /\ \A k \in DOMAIN boundary_ : boundary_[k] # CR
    BY FormAssumption
  <2> QED
    BY <2>1, EmptySeq
<1>3. PICK q, e : q = crlf_ \o dash_ /\ e = dash_ \o crlf_
  OBVIOUS
<1>4. q \in Seq(Chars) /\ IsJoin(q, crlf_, dash_) /\ e \in Seq(Chars) /\ IsJoin(e, dash_, crlf_)
  BY <1>1, <1>3, JoinedSeqs
<1>5. Len(q) = 4 /\ q[1] = CR /\ q[2] = LF /\ q[2 + 1] = Dash /\ q[2 + 2] = Dash
  BY <1>1, <1>4 DEF IsJoin
<1>6. Len(e) = 4 /\ e[1] = Dash
  BY <1>1, <1>4 DEF IsJoin
<1>7. q[1] = CR /\ \A k \in 2..4 : q[k] # CR
  <2>1. \A k \in 2..4 : k = 2 \/ k = 2 + 1 \/ k = 2 + 2
    OBVIOUS
  <2> QED
    BY <1>1, <1>5, <2>1
<1>8. PICK w : w = q \o boundary_
  OBVIOUS
<1>9. w \in Seq(Chars) /\ IsJoin(w, q, boundary_)
  BY <1>2, <1>4, <1>8, JoinedSeqs
<1>10. Len(w) = 4 + Len(boundary_) /\ w[1] = CR
  BY <1>5, <1>9 DEF IsJoin
<1>11. ASSUME NEW k \in 2..Len(w) PROVE w[k] # CR
  <2>1. CASE k <= 4
    <3>1. k \in 1..Len(q) /\ k \in 2..4
      BY <1>5, <2>1
    <3> QED
      BY <1>7, <1>9, <3>1 DEF IsJoin
  <2>2. CASE ~(k <= 4)
    <3>1. PICK j : j = k - 4
      OBVIOUS
    <3>2. j \in 1..Len(boundary_) /\ Len(q) + j = k
      BY <1>2, <1>5, <1>10, <2>2, <3>1
    <3>3. w[Len(q) + j] = boundary_[j]
      BY <1>9, <3>2 DEF IsJoin
    <3> QED
      BY <1>2, <3>2, <3>3
  <2> QED
    BY <2>1, <2>2
<1>12. Unlike(q) /\ Unlike(w)
  BY <1>5, <1>7, <1>10, <1>11 DEF Unlike
<1>13. Unlike(crlf_)
  <2>1. \A k \in 2..2 : k = 2
    OBVIOUS
  <2> QED
    BY <1>1, <2>1 DEF Unlike
<1>14. Border = w /\ BorderBegins = q /\ End = e
  BY <1>3, <1>8 DEF Border, BorderBegins, End
<1> QED
  BY <1>1, <1>2, <1>3, <1>4, <1>5, <1>6, <1>8, <1>9, <1>10, <1>12, <1>13, <1>14, Zenon
-----------------------------------------------------------------------------
\* What is behind the first n of sequences that were put together.
TailOf(seqs, n) == FlattenSeq(SubSeq(seqs, n + 1, Len(seqs)))

\* It begins with the next of them.
LEMMA TailSplit ==
  ASSUME NEW T, NEW seqs \in Seq(Seq(T))
  PROVE  /\ TailOf(seqs, 0) = FlattenSeq(seqs)
         /\ TailOf(seqs, Len(seqs)) = <<>>
         /\ \A n \in 0..Len(seqs) : TailOf(seqs, n) \in Seq(T)
         /\ \A n \in 0..(Len(seqs) - 1) : TailOf(seqs, n) = seqs[n + 1] \o TailOf(seqs, n + 1)
<1>0. PICK len \in Nat : len = Len(seqs)
  OBVIOUS
<1>1. TailOf(seqs, 0) = FlattenSeq(seqs)
  <2>1. 0 + 1 = 1 /\ SubSeq(seqs, 1, Len(seqs)) = seqs
    BY SubSeqFull
  <2> QED
    BY <2>1, Zenon DEF TailOf
<1>2. TailOf(seqs, Len(seqs)) = <<>>
  <2>1. SubSeq(seqs, len + 1, len) = <<>>
    BY SubSeqEmpty
  <2>2. FlattenSeq(<<>>) = <<>>
    BY DEF FlattenSeq
  <2> QED
    BY <1>0, <2>1, <2>2, Zenon DEF TailOf
<1>3. ASSUME NEW n \in 0..Len(seqs) PROVE TailOf(seqs, n) \in Seq(T)
  <2>1. SubSeq(seqs, n + 1, Len(seqs)) \in Seq(Seq(T))
    BY CutSeq
  <2> QED
    BY <2>1, FlattenType DEF TailOf
<1>4. ASSUME NEW n \in 0..(Len(seqs) - 1)
      PROVE  TailOf(seqs, n) = seqs[n + 1] \o TailOf(seqs, n + 1)
  <2>1. n + 1 \in 1..len /\ n + 1 \in 0..Len(seqs) /\ len \in (n + 1)..Len(seqs) /\ n + 1 \in 1..Len(seqs)
    BY <1>0
  <2>2. PICK first, tail : first = seqs[n + 1] /\ tail = SubSeq(seqs, (n + 1) + 1, Len(seqs))
    OBVIOUS
  <2>3. first \in Seq(T) /\ tail \in Seq(Seq(T))
    BY <2>1, <2>2, ElementOfSeq, CutSeq
  <2>4. SubSeq(seqs, n + 1, Len(seqs)) = <<first>> \o tail
    BY <1>0, <2>1, <2>2, SubSeqRecursiveFirst
  <2>5. FlattenSeq(<<first>> \o tail) = first \o FlattenSeq(tail)
    BY <2>3, FlattenCons
  <2> QED
    BY <2>2, <2>4, <2>5, Zenon DEF TailOf
<1> QED
  BY <1>1, <1>2, <1>3, <1>4

\* Six sequences, regrouped.
SixGrouped(a, b, c, d, e, f) ==
    ((((a \o b) \o c) \o d) \o e) \o f = a \o (b \o (c \o (d \o (e \o f))))

\* They can be.
LEMMA GroupAnySix ==
  ASSUME NEW a \in Seq(Chars), NEW b \in Seq(Chars), NEW c \in Seq(Chars), NEW d \in Seq(Chars),
         NEW e \in Seq(Chars), NEW f \in Seq(Chars)
  PROVE  SixGrouped(a, b, c, d, e, f)
<1>1. PICK ab, abc, abcd, ef, def, cdef :
          /\ ab = a \o b /\ abc = ab \o c /\ abcd = abc \o d
          /\ ef = e \o f /\ def = d \o ef /\ cdef = c \o def
  OBVIOUS
<1>2. ab \in Seq(Chars) /\ ef \in Seq(Chars)
  BY <1>1, ConcatProperties
<1>3. abc \in Seq(Chars) /\ def \in Seq(Chars)
  BY <1>1, <1>2, ConcatProperties
<1>4. abcd \in Seq(Chars) /\ cdef \in Seq(Chars)
  BY <1>1, <1>3, ConcatProperties
<1>5. /\ ThreeGrouped(abcd, e, f) /\ ThreeGrouped(abc, d, ef) /\ ThreeGrouped(ab, c, def)
      /\ ThreeGrouped(a, b, cdef)
  <2>1. ThreeGrouped(abcd, e, f)
    BY <1>4, GroupAnyThree, Zenon
  <2>2. ThreeGrouped(abc, d, ef)
    BY <1>2, <1>3, GroupAnyThree, Zenon
  <2>3. ThreeGrouped(ab, c, def)
    BY <1>2, <1>3, GroupAnyThree, Zenon
  <2>4. ThreeGrouped(a, b, cdef)
    BY <1>4, GroupAnyThree, Zenon
  <2> QED
    BY <2>1, <2>2, <2>3, <2>4
<1> QED
  BY <1>1, <1>5, Zenon DEF ThreeGrouped, SixGrouped

Parts == [file : Seq(Seq(Chars)), content : Seq(Chars)]
WrittenParts(ps) == [k \in DOMAIN ps |-> FormPart(ps[k])]
WrittenLines(file) == [k \in DOMAIN file |-> file[k] \o crlf_]

\* The text behind the n-th border, the opening one being the first; and behind the
\* m-th line of a part.
After(ps, n) == TailOf(WrittenParts(ps), n) \o End
PartLeft(p, m, after) ==
    TailOf(WrittenLines(p.file), m) \o (crlf_ \o (p.content \o (Border \o after)))

\* What the header lines of a part are written as.
LEMMA LinesLeft ==
  ASSUME NEW file \in Seq(Seq(Chars))
  PROVE  /\ WrittenLines(file) \in Seq(Seq(Chars)) /\ Len(WrittenLines(file)) = Len(file)
         /\ \A k \in 1..Len(file) : WrittenLines(file)[k] = file[k] \o crlf_
         /\ Lines(file) = TailOf(WrittenLines(file), 0) /\ Lines(file) \in Seq(Chars)
<1>1. \A k \in 1..Len(file) : file[k] \o crlf_ \in Seq(Chars)
  BY ElementOfSeq, Patterns, ConcatProperties
<1>2. DOMAIN file = 1..Len(file) /\ Len(file) \in Nat
  OBVIOUS
<1>3. WrittenLines(file) \in [1..Len(file) -> Seq(Chars)]
  BY <1>1, <1>2 DEF WrittenLines
<1>4. WrittenLines(file) \in Seq(Seq(Chars)) /\ Len(WrittenLines(file)) = Len(file)
  BY <1>2, <1>3
<1>5. \A k \in 1..Len(file) : WrittenLines(file)[k] = file[k] \o crlf_
  BY <1>2 DEF WrittenLines
<1>6. Lines(file) = FlattenSeq(WrittenLines(file))
  BY DEF Lines, WrittenLines
<1>7. FlattenSeq(WrittenLines(file)) \in Seq(Chars)
  BY <1>4, FlattenType
<1> QED
  BY <1>4, <1>5, <1>6, <1>7, TailSplit

\* What a part is with what is behind it.
LEMMA PartWritten ==
  ASSUME NEW p \in Parts, NEW after \in Seq(Chars)
  PROVE  /\ FormPart(p) \in Seq(Chars)
         /\ FormPart(p) \o after = crlf_ \o PartLeft(p, 0, after)
         /\ p.content \in Seq(Chars) /\ p.file \in Seq(Seq(Chars))
<1>1. p.content \in Seq(Chars) /\ p.file \in Seq(Seq(Chars))
  BY DEF Parts
<1>2. PICK lines, text, line0, end : /\ lines = Lines(p.file) /\ text = p.content
                                     /\ line0 = crlf_ /\ end = Border
  OBVIOUS
<1>3. lines \in Seq(Chars) /\ text \in Seq(Chars) /\ line0 \in Seq(Chars) /\ end \in Seq(Chars)
  BY <1>1, <1>2, LinesLeft, Patterns, Zenon
<1>4. line0 \o lines \in Seq(Chars)
  BY <1>3, ConcatProperties
<1>5. (line0 \o lines) \o line0 \in Seq(Chars)
  BY <1>3, <1>4, ConcatProperties
<1>6. ((line0 \o lines) \o line0) \o text \in Seq(Chars)
  BY <1>3, <1>5, ConcatProperties
<1>7. (((line0 \o lines) \o line0) \o text) \o end \in Seq(Chars)
  BY <1>3, <1>6, ConcatProperties
<1>8. FormPart(p) = (((line0 \o lines) \o line0) \o text) \o end
  BY <1>2, Zenon DEF FormPart
<1>9. ((((line0 \o lines) \o line0) \o text) \o end) \o after
         = line0 \o (lines \o (line0 \o (text \o (end \o after))))
  <2>1. SixGrouped(line0, lines, line0, text, end, after)
    BY <1>3, GroupAnySix
  <2> QED
    BY <2>1, Zenon DEF SixGrouped
<1>10. lines = TailOf(WrittenLines(p.file), 0)
  BY <1>1, <1>2, LinesLeft, Zenon
<1>11. PartLeft(p, 0, after) = lines \o (line0 \o (text \o (end \o after)))
  BY <1>2, <1>10, Zenon DEF PartLeft
<1> QED
  BY <1>1, <1>2, <1>7, <1>8, <1>9, <1>11, Zenon

\* What is left of a part is its next line, or the blank line, the content and the
\* border.
LEMMA PartIs ==
  ASSUME NEW p \in Parts, NEW after \in Seq(Chars)
  PROVE  /\ \A m \in 0..Len(p.file) : PartLeft(p, m, after) \in Seq(Chars)
         /\ \A m \in 0..(Len(p.file) - 1) :
               /\ p.file[m + 1] \in Seq(Chars)
               /\ PartLeft(p, m, after) = p.file[m + 1] \o (crlf_ \o PartLeft(p, m + 1, after))
         /\ PartLeft(p, Len(p.file), after) = crlf_ \o (p.content \o (Border \o after))
         /\ p.content \o (Border \o after) \in Seq(Chars) /\ Border \o after \in Seq(Chars)
<1>1. PICK lines, back, nl, file : /\ lines = WrittenLines(p.file) /\ file = p.file
                                   /\ back = crlf_ \o (p.content \o (Border \o after)) /\ nl = crlf_
  OBVIOUS
<1>2. file \in Seq(Seq(Chars)) /\ p.content \in Seq(Chars) /\ Border \in Seq(Chars) /\ nl \in Seq(Chars)
  BY <1>1, PartWritten, Patterns, Zenon
<1>3. Border \o after \in Seq(Chars)
  BY <1>2, ConcatProperties
<1>4. p.content \o (Border \o after) \in Seq(Chars)
  BY <1>2, <1>3, ConcatProperties
<1>5. back \in Seq(Chars)
  <2>1. nl \o (p.content \o (Border \o after)) \in Seq(Chars)
    BY <1>2, <1>4, ConcatProperties
  <2> QED
    BY <1>1, <2>1
<1>6. /\ lines \in Seq(Seq(Chars)) /\ Len(lines) = Len(file)
      /\ \A k \in 1..Len(file) : lines[k] = file[k] \o nl
  BY <1>1, <1>2, LinesLeft, Zenon
<1>7. \A m : PartLeft(p, m, after) = TailOf(lines, m) \o back
  BY <1>1, Zenon DEF PartLeft
<1>8. ASSUME NEW m \in 0..Len(file) PROVE PartLeft(p, m, after) \in Seq(Chars)
  <2>1. TailOf(lines, m) \in Seq(Chars)
    BY <1>6, TailSplit
  <2>2. TailOf(lines, m) \o back \in Seq(Chars)
    BY <1>5, <2>1, ConcatProperties
  <2> QED
    BY <1>7, <2>2, Zenon
<1>9. ASSUME NEW m \in 0..(Len(file) - 1)
      PROVE  /\ file[m + 1] \in Seq(Chars)
             /\ PartLeft(p, m, after) = file[m + 1] \o (nl \o PartLeft(p, m + 1, after))
  <2>1. m + 1 \in 1..Len(file) /\ m + 1 \in 0..Len(lines) /\ m \in 0..(Len(lines) - 1)
    BY <1>2, <1>6
  <2>2. PICK line, tail : line = file[m + 1] /\ tail = TailOf(lines, m + 1)
    OBVIOUS
  <2>3. line \in Seq(Chars) /\ tail \in Seq(Chars)
    BY <1>2, <1>6, <2>1, <2>2, ElementOfSeq, TailSplit
  <2>4. TailOf(lines, m) = lines[m + 1] \o tail
    BY <1>6, <2>1, <2>2, TailSplit
  <2>5. lines[m + 1] = line \o nl
    BY <1>6, <2>1, <2>2
  <2>6. nl \o tail \in Seq(Chars) /\ line \o nl \in Seq(Chars)
    BY <1>2, <2>3, ConcatProperties
  <2>7. ThreeGrouped(line \o nl, tail, back) /\ ThreeGrouped(line, nl, tail \o back)
    <3>1. tail \o back \in Seq(Chars)
      BY <1>5, <2>3, ConcatProperties
    <3> QED
      BY <1>2, <1>5, <2>3, <2>6, <3>1, GroupAnyThree
  <2>8. PartLeft(p, m, after) = line \o (nl \o (tail \o back))
    BY <1>7, <2>4, <2>5, <2>7, Zenon DEF ThreeGrouped
  <2> QED
    BY <1>7, <2>2, <2>3, <2>8, Zenon
<1>10. PartLeft(p, Len(file), after) = back
  <2>1. TailOf(lines, Len(file)) = <<>>
    BY <1>6, TailSplit
  <2>2. <<>> \o back = back
    BY <1>5, ConcatEmptySeq
  <2> QED
    BY <1>7, <2>1, <2>2, Zenon
<1> QED
  BY <1>1, <1>3, <1>4, <1>8, <1>9, <1>10, Zenon

\* What is behind a border is the next part or the end.
LEMMA AfterIs ==
  ASSUME NEW ps \in Seq(Parts)
  PROVE  /\ \A n \in 0..Len(ps) : After(ps, n) \in Seq(Chars)
         /\ After(ps, Len(ps)) = End
         /\ \A n \in 0..(Len(ps) - 1) : 
               /\ ps[n + 1] \in Parts
               /\ After(ps, n) = crlf_ \o PartLeft(ps[n + 1], 0, After(ps, n + 1))
         /\ Form(ps) = (dash_ \o boundary_) \o After(ps, 0)
         /\ dash_ \o boundary_ \in Seq(Chars) /\ Len(dash_ \o boundary_) = 2 + Len(boundary_)
<1>1. PICK texts, end, front : texts = WrittenParts(ps) /\ end = End /\ front = dash_ \o boundary_
  OBVIOUS
<1>2. end \in Seq(Chars) /\ front \in Seq(Chars) /\ Len(front) = 2 + Len(boundary_)
  <2>1. /\ End \in Seq(Chars) /\ dash_ \in Seq(Chars) /\ boundary_ \in Seq(Chars)
        /\ Len(dash_) = 2 /\ Len(boundary_) \in Nat
    BY Patterns
  <2>2. dash_ \o boundary_ \in Seq(Chars) /\ IsJoin(dash_ \o boundary_, dash_, boundary_)
    BY <2>1, JoinedSeqs
  <2>3. Len(dash_ \o boundary_) = 2 + Len(boundary_)
    BY <2>1, <2>2 DEF IsJoin
  <2> QED
    BY <1>1, <2>1, <2>2, <2>3, Zenon
<1>3. \A k \in 1..Len(ps) : ps[k] \in Parts /\ FormPart(ps[k]) \in Seq(Chars)
  <2>1. \A k \in 1..Len(ps) : ps[k] \in Parts
    BY ElementOfSeq
  <2>2. <<>> \in Seq(Chars)
    BY EmptySeq
  <2> QED
    BY <2>1, <2>2, PartWritten
<1>4. DOMAIN ps = 1..Len(ps) /\ Len(ps) \in Nat
  OBVIOUS
<1>5. texts \in [1..Len(ps) -> Seq(Chars)] /\ \A k \in 1..Len(ps) : texts[k] = FormPart(ps[k])
  BY <1>1, <1>3, <1>4 DEF WrittenParts
<1>6. texts \in Seq(Seq(Chars)) /\ Len(texts) = Len(ps)
  BY <1>4, <1>5
<1>7. \A n : After(ps, n) = TailOf(texts, n) \o end
  BY <1>1, Zenon DEF After
<1>8. ASSUME NEW n \in 0..Len(ps) PROVE After(ps, n) \in Seq(Chars)
  <2>1. TailOf(texts, n) \in Seq(Chars)
    BY <1>6, TailSplit
  <2>2. TailOf(texts, n) \o end \in Seq(Chars)
    BY <1>2, <2>1, ConcatProperties
  <2> QED
    BY <1>7, <2>2, Zenon
<1>9. After(ps, Len(ps)) = end
  <2>1. TailOf(texts, Len(ps)) = <<>>
    BY <1>6, TailSplit
  <2>2. <<>> \o end = end
    BY <1>2, ConcatEmptySeq
  <2> QED
    BY <1>7, <2>1, <2>2, Zenon
<1>10. ASSUME NEW n \in 0..(Len(ps) - 1)
       PROVE  After(ps, n) = crlf_ \o PartLeft(ps[n + 1], 0, After(ps, n + 1))
  <2>1. n + 1 \in 1..Len(ps) /\ n + 1 \in 0..Len(ps) /\ n \in 0..(Len(texts) - 1) /\ n + 1 \in 0..Len(texts)
    BY <1>4, <1>6
  <2>2. PICK text, tail, p : text = FormPart(ps[n + 1]) /\ tail = TailOf(texts, n + 1) /\ p = ps[n + 1]
    OBVIOUS
  <2>3. text \in Seq(Chars) /\ p \in Parts
    BY <1>3, <2>1, <2>2
  <2>4. tail \in Seq(Chars)
    BY <1>6, <2>1, <2>2, TailSplit
  <2>5. TailOf(texts, n) = text \o tail
    BY <1>5, <1>6, <2>1, <2>2, TailSplit
  <2>6. ThreeGrouped(text, tail, end)
    BY <1>2, <2>3, <2>4, GroupAnyThree
  <2>7. After(ps, n) = text \o After(ps, n + 1)
    BY <1>7, <2>2, <2>5, <2>6, Zenon DEF ThreeGrouped
  <2>8. FormPart(p) \o After(ps, n + 1) = crlf_ \o PartLeft(p, 0, After(ps, n + 1))
    BY <1>8, <2>1, <2>3, PartWritten
  <2> QED
    BY <2>2, <2>7, <2>8, Zenon
<1>11. Form(ps) = front \o After(ps, 0)
  <2>1. PICK flat : flat = FlattenSeq(texts)
    OBVIOUS
  <2>2. flat \in Seq(Chars) /\ flat = TailOf(texts, 0)
    BY <1>6, <2>1, FlattenType, TailSplit
  <2>3. front \o flat \in Seq(Chars) /\ dash_ \in Seq(Chars) /\ crlf_ \in Seq(Chars)
    BY <1>2, <2>2, Patterns, ConcatProperties
  <2>4. ThreeGrouped(front \o flat, dash_, crlf_) /\ ThreeGrouped(front, flat, end)
    BY <1>2, <2>2, <2>3, GroupAnyThree
  <2>5. Form(ps) = ((front \o flat) \o dash_) \o crlf_
    BY <1>1, <2>1, Zenon DEF Form, WrittenParts
  <2>6. end = dash_ \o crlf_
    BY <1>1 DEF End
  <2> QED
    BY <1>7, <2>2, <2>4, <2>5, <2>6, Zenon DEF ThreeGrouped
<1>12. \A n \in 0..(Len(ps) - 1) : n + 1 \in 1..Len(ps)
  BY <1>4
<1> QED
  BY <1>1, <1>2, <1>3, <1>8, <1>9, <1>10, <1>11, <1>12, Zenon

\* A buffer that is not empty and begins with what is found.
LEMMA FindZero ==
  ASSUME NEW s \in Seq(Chars), NEW p, s # <<>>, find(s, p) = 0
  PROVE  StartsAt(s, 1, p)
<1> DEFINE S == {pos \in 1..Len(s) : StartsAt(s, pos, p)}
<1>1. find(s, p) = IF S = {} THEN Len(s) ELSE Min(S) - 1
  BY DEF find
<1>2. S \in SUBSET Nat /\ \A x \in S : StartsAt(s, x, p)
  OBVIOUS
<1> HIDE DEF S
<1>3. Len(s) \in Nat /\ Len(s) # 0
  BY EmptySeq
<1>4. S # {} /\ Min(S) - 1 = 0
  BY <1>1, <1>3
<1>5. Min(S) \in S
  BY <1>2, <1>4, MinNat
<1>6. Min(S) = 1
  BY <1>2, <1>4, <1>5
<1> QED
  BY <1>2, <1>5, <1>6, Zenon
-----------------------------------------------------------------------------
\* What is left when bytes are taken from the front of a buffer.
LEMMA EraseType ==
  ASSUME NEW s \in Seq(Chars), NEW n \in Nat
  PROVE  erase(s, n) \in Seq(Chars)
<1>1. CASE n <= Len(s)
  <2>1. n \in 0..Len(s)
    BY <1>1
  <2> QED
    BY <2>1, CutSeq, Zenon DEF erase
<1>2. CASE ~(n <= Len(s))
  <2>1. SubSeq(s, n + 1, Len(s)) = <<>>
    BY <1>2, SubSeqEmpty
  <2>2. <<>> \in Seq(Chars)
    BY EmptySeq
  <2> QED
    BY <2>1, <2>2, Zenon DEF erase
<1> QED
  BY <1>1, <1>2

\* The results of find and find_string.
LEMMA FindType ==
  ASSUME NEW s \in Seq(Chars), NEW p
  PROVE  find(s, p) \in 0..Len(s) /\ find_string(s, p) \in 0..Len(s)
<1> DEFINE S == {pos \in 1..Len(s) : StartsAt(s, pos, p)}
           U == {pos \in 1..Len(s) : /\ s[pos] = Head(p)
                                     /\ Len(p) > Len(s) - pos + 1 \/ StartsAt(s, pos, p)}
<1>1. /\ find(s, p) = IF S = {} THEN Len(s) ELSE Min(S) - 1
      /\ find_string(s, p) = IF U = {} THEN Len(s) ELSE Min(U) - 1
  BY DEF find, find_string
<1>2. S \in SUBSET Nat /\ S \subseteq 1..Len(s) /\ U \in SUBSET Nat /\ U \subseteq 1..Len(s)
  OBVIOUS
<1> HIDE DEF S, U
<1>3. S # {} => Min(S) \in S
  BY <1>2, MinNat
<1>4. U # {} => Min(U) \in U
  BY <1>2, MinNat
<1>5. Len(s) \in Nat
  OBVIOUS
<1>6. find(s, p) \in 0..Len(s)
  <2>1. CASE S = {}
    BY <1>1, <1>5, <2>1
  <2>2. CASE S # {}
    <3>1. PICK m : m = Min(S)
      OBVIOUS
    <3>2. m \in 1..Len(s)
      BY <1>2, <1>3, <2>2, <3>1
    <3> QED
      BY <1>1, <1>5, <2>2, <3>1, <3>2
  <2> QED
    BY <2>1, <2>2
<1>7. find_string(s, p) \in 0..Len(s)
  <2>1. CASE U = {}
    BY <1>1, <1>5, <2>1
  <2>2. CASE U # {}
    <3>1. PICK m : m = Min(U)
      OBVIOUS
    <3>2. m \in 1..Len(s)
      BY <1>2, <1>4, <2>2, <3>1
    <3> QED
      BY <1>1, <1>5, <2>2, <3>1, <3>2
  <2> QED
    BY <2>1, <2>2
<1> QED
  BY <1>6, <1>7

\* What the end of a text holds, the text holds.
LEMMA HoldsBehind ==
  ASSUME NEW s \in Seq(Chars), NEW t \in Seq(Chars), NEW q \in Seq(Chars), Holds(t, q)
  PROVE  Holds(s \o t, q)
<1>1. PICK u : u = s \o t
  OBVIOUS
<1>2. u \in Seq(Chars) /\ IsJoin(u, s, t)
  BY <1>1, JoinedSeqs
<1>3. DOMAIN t = 1..Len(t) /\ DOMAIN u = 1..Len(u) /\ Len(t) \in Nat /\ Len(s) \in Nat /\ Len(q) \in Nat
  BY <1>2
<1>4. PICK k \in 1..Len(t) : StartsAt(t, k, q)
  BY <1>3 DEF Holds
<1>5. k + Len(q) - 1 <= Len(t) /\ \A j \in 1..Len(q) : t[k + j - 1] = q[j]
  BY <1>4, StartsAtIs
<1>6. PICK m : m = Len(s) + k
  OBVIOUS
<1>7. m \in 1..Len(u) /\ m + Len(q) - 1 <= Len(u)
  BY <1>2, <1>3, <1>5, <1>6 DEF IsJoin
<1>8. ASSUME NEW j \in 1..Len(q) PROVE u[m + j - 1] = q[j]
  <2>1. PICK at : at = k + j - 1
    OBVIOUS
  <2>2. at \in 1..Len(t) /\ m + j - 1 = Len(s) + at
    BY <1>3, <1>5, <1>6, <2>1
  <2>3. u[Len(s) + at] = t[at]
    BY <1>2, <2>2 DEF IsJoin
  <2> QED
    BY <1>5, <2>1, <2>2, <2>3
<1>9. StartsAt(u, m, q)
  BY <1>2, <1>7, <1>8, StartsAtIs
<1> QED
  BY <1>1, <1>3, <1>7, <1>9 DEF Holds

\* The empty text holds nothing.
LEMMA HoldsNothing ==
  ASSUME NEW q
  PROVE  ~Holds(<<>>, q)
BY DEF Holds

\* In the state 2, what is in the buffer and what has not arrived are what is left of
\* the part p behind m lines; and what the next CR LF in the buffer then shows.
AtLine(p, m, after, b, r) ==
    b \o r = PartLeft(p, m, after) /\ \A j \in DOMAIN p.file : IsLine(p.file[j])
LineRead(p, m, after, b, r) ==
    LET pos == find(b, crlf_) IN
    /\ pos = Len(b) => r # <<>>
    /\ pos # Len(b) /\ pos = 0 =>
          m = Len(p.file) /\ erase(b, pos + 2) \o r = p.content \o (Border \o after)
    /\ pos # Len(b) /\ pos # 0 =>
          /\ m < Len(p.file) /\ SubSeq(b, 1, pos) = p.file[m + 1]
          /\ erase(b, pos + 2) \o r = PartLeft(p, m + 1, after)

\* It shows that.
LEMMA LineStep ==
  ASSUME NEW p \in Parts, NEW after \in Seq(Chars), NEW m \in 0..Len(p.file),
         NEW b \in Seq(Chars), NEW r \in Seq(Chars), AtLine(p, m, after, b, r)
  PROVE  LineRead(p, m, after, b, r)
<1>0. b \o r = PartLeft(p, m, after) /\ \A j \in DOMAIN p.file : IsLine(p.file[j])
  BY Zenon DEF AtLine
<1>1. PICK pos, len, nl : pos = find(b, crlf_) /\ len = Len(p.file) /\ nl = crlf_
  OBVIOUS
<1>2. /\ nl \in Seq(Chars) /\ Len(nl) = 2 /\ \A k \in 2..Len(nl) : nl[k] # nl[1]
      /\ p.file \in Seq(Seq(Chars)) /\ len \in Nat /\ m \in 0..len
  <2>1. p.file \in Seq(Seq(Chars))
    BY PartWritten
  <2>2. Len(p.file) \in Nat
    BY <2>1
  <2>3. crlf_ \in Seq(Chars) /\ Len(crlf_) = 2 /\ Unlike(crlf_)
    BY Patterns
  <2>4. nl \in Seq(Chars) /\ Len(nl) = 2 /\ Unlike(nl)
    BY <1>1, <2>3, Zenon
  <2>5. \A k \in 2..Len(nl) : nl[k] # nl[1]
    BY <2>4, Zenon DEF Unlike
  <2> QED
    BY <1>1, <2>1, <2>2, <2>4, <2>5, Zenon
<1>3. nl # <<>> /\ DOMAIN p.file = 1..len
  <2>1. Len(<<>>) = 0 /\ Len(nl) # 0
    BY <1>2
  <2>2. nl # <<>>
    BY <2>1, Zenon
  <2>3. DOMAIN p.file = 1..Len(p.file)
    BY <1>2
  <2> QED
    BY <1>1, <2>2, <2>3, Zenon
<1>4. PICK d, u : /\ d \in Seq(Chars) /\ u \in Seq(Chars) /\ ~Holds(d, nl) /\ b \o r = d \o (nl \o u)
                  /\ m < len => d = p.file[m + 1] /\ d # <<>> /\ u = PartLeft(p, m + 1, after)
                  /\ m = len => d = <<>> /\ u = p.content \o (Border \o after)
  <2>1. CASE m < len
    <3>1. m \in 0..(Len(p.file) - 1) /\ m + 1 \in 0..Len(p.file) /\ m + 1 \in DOMAIN p.file
      BY <1>1, <1>2, <1>3, <2>1
    <3>2. p.file[m + 1] \in Seq(Chars) /\ PartLeft(p, m, after) = p.file[m + 1] \o (crlf_ \o PartLeft(p, m + 1, after))
      <4>1. \A n \in 0..(Len(p.file) - 1) :
               /\ p.file[n + 1] \in Seq(Chars)
               /\ PartLeft(p, n, after) = p.file[n + 1] \o (crlf_ \o PartLeft(p, n + 1, after))
        BY PartIs
      <4> QED
        BY <3>1, <4>1, Zenon
    <3>3. PartLeft(p, m + 1, after) \in Seq(Chars)
      <4>1. PICK k : k = m + 1
        OBVIOUS
      <4>2. \A n \in 0..Len(p.file) : PartLeft(p, n, after) \in Seq(Chars)
        BY PartIs
      <4> QED
        BY <3>1, <4>1, <4>2, Zenon
    <3>4. p.file[m + 1] # <<>> /\ ~Holds(p.file[m + 1], crlf_)
      BY <1>0, <3>1, Zenon DEF IsLine
    <3>5. ~(m = len)
      BY <1>2, <2>1
    <3> QED
      BY <1>0, <1>1, <3>2, <3>3, <3>4, <3>5
  <2>2. CASE ~(m < len)
    <3>1. m = Len(p.file) /\ m = len
      BY <1>1, <1>2, <2>2
    <3>2. PartLeft(p, m, after) = crlf_ \o (p.content \o (Border \o after)) /\ p.content \o (Border \o after) \in Seq(Chars)
      <4>1. /\ PartLeft(p, Len(p.file), after) = crlf_ \o (p.content \o (Border \o after))
            /\ p.content \o (Border \o after) \in Seq(Chars)
        BY PartIs
      <4> QED
        BY <3>1, <4>1, Zenon
    <3>3. PICK u : u = p.content \o (Border \o after)
      OBVIOUS
    <3>4. nl \o u \in Seq(Chars)
      BY <1>2, <3>2, <3>3, ConcatProperties
    <3>5. <<>> \o (nl \o u) = nl \o u /\ <<>> \in Seq(Chars)
      BY <3>4, ConcatEmptySeq, EmptySeq
    <3>6. b \o r = <<>> \o (nl \o u)
      BY <1>0, <1>1, <3>2, <3>3, <3>5, Zenon
    <3> QED
      BY <2>2, <3>2, <3>3, <3>5, <3>6, HoldsNothing
  <2> QED
    BY <2>1, <2>2
<1>5. IF Len(d) + Len(nl) <= Len(b) THEN pos = Len(d) ELSE pos = Len(b)
  <2>1. IF Len(d) + Len(nl) <= Len(b) THEN find(b, nl) = Len(d) ELSE find(b, nl) = Len(b)
    <3>1. /\ nl \in Seq(Chars) /\ nl # <<>> /\ \A k \in 2..Len(nl) : nl[k] # nl[1]
          /\ d \in Seq(Chars) /\ u \in Seq(Chars) /\ ~Holds(d, nl) /\ SameText(b, r, d, nl \o u)
      BY <1>2, <1>3, <1>4, Zenon DEF SameText
    <3> QED
      BY <3>1, FindFirst, Zenon
  <2> QED
    BY <1>1, <2>1, Zenon
<1>6. Len(b) \in Nat /\ Len(d) \in Nat /\ Len(u) \in Nat
  BY <1>4
<1>7. ASSUME r = <<>> PROVE Len(d) + 2 <= Len(b)
  <2>1. nl \o u \in Seq(Chars) /\ Len(nl \o u) = Len(nl) + Len(u)
    BY <1>2, <1>4, ConcatProperties
  <2>2. Len(d \o (nl \o u)) = Len(d) + Len(nl \o u)
    BY <1>4, <2>1, ConcatProperties
  <2>3. b \o r = b
    BY <1>7, ConcatEmptySeq
  <2> QED
    BY <1>2, <1>4, <1>6, <2>1, <2>2, <2>3
<1>8. pos = Len(b) => r # <<>>
  BY <1>2, <1>5, <1>6, <1>7
<1>9. ASSUME pos # Len(b)
      PROVE  pos = Len(d) /\ SubSeq(b, 1, pos) = d /\ erase(b, pos + 2) \o r = u
  <2>1. Len(d) + Len(nl) <= Len(b) /\ pos = Len(d) /\ Len(d) <= Len(b)
    BY <1>2, <1>5, <1>6, <1>9
  <2>2. nl \o u \in Seq(Chars) /\ d \o nl \in Seq(Chars) /\ Len(d \o nl) = pos + 2
    <3>1. nl \o u \in Seq(Chars)
      BY <1>2, <1>4, ConcatProperties
    <3>2. d \o nl \in Seq(Chars) /\ IsJoin(d \o nl, d, nl)
      BY <1>2, <1>4, JoinedSeqs
    <3>3. Len(d \o nl) = Len(d) + Len(nl)
      BY <3>2, Zenon DEF IsJoin
    <3> QED
      BY <1>2, <2>1, <3>1, <3>2, <3>3
  <2>3. SubSeq(b, 1, pos) = d
    <3>1. SameText(b, r, d, nl \o u)
      BY <1>4, Zenon DEF SameText
    <3>2. Took(b, r, d, nl \o u)
      BY <1>4, <2>1, <2>2, <3>1, TakeFront, Zenon
    <3> QED
      BY <2>1, <3>2, Zenon DEF Took
  <2>4. b \o r = (d \o nl) \o u
    <3>1. ThreeGrouped(d, nl, u)
      BY <1>2, <1>4, GroupAnyThree
    <3> QED
      BY <1>4, <3>1, Zenon DEF ThreeGrouped
  <2>5. Len(d \o nl) <= Len(b)
    BY <1>2, <2>1, <2>2
  <2>6. erase(b, pos + 2) \o r = u
    <3>1. erase(b, Len(d \o nl)) \o r = u
      <4>1. PICK q : q = d \o nl
        OBVIOUS
      <4>2. q \in Seq(Chars) /\ b \o r = q \o u /\ Len(q) <= Len(b) /\ u \in Seq(Chars)
        BY <1>4, <2>2, <2>4, <2>5, <4>1, Zenon
      <4>3. SameText(b, r, q, u)
        BY <4>2, Zenon DEF SameText
      <4>4. Took(b, r, q, u)
        BY <4>2, <4>3, TakeFront, Zenon
      <4> QED
        BY <4>1, <4>4, Zenon DEF Took
    <3> QED
      BY <2>2, <3>1, Zenon
  <2> QED
    BY <2>1, <2>3, <2>6
<1>10. Len(d) = 0 <=> d = <<>>
  BY <1>4, EmptySeq
<1>11. m < len \/ m = len
  BY <1>2
<1>12. pos # Len(b) /\ pos = 0 => m = len /\ erase(b, pos + 2) \o r = p.content \o (Border \o after)
  BY <1>4, <1>9, <1>10, <1>11, Zenon
<1>13. pos # Len(b) /\ pos # 0 =>
          m < len /\ SubSeq(b, 1, pos) = p.file[m + 1] /\ erase(b, pos + 2) \o r = PartLeft(p, m + 1, after)
  BY <1>4, <1>9, <1>10, <1>11, Zenon
<1> QED
  BY <1>1, <1>8, <1>12, <1>13, Zenon DEF LineRead

\* Behind a border is CR LF and a part, or the end.
LEMMA BehindBorder ==
  ASSUME NEW ps \in Seq(Parts), NEW n \in 0..Len(ps)
  PROVE  /\ Len(ps) \in Nat /\ After(ps, n) \in Seq(Chars)
         /\ n < Len(ps) => \E u \in Seq(Chars) : /\ u = PartLeft(ps[n + 1], 0, After(ps, n + 1))
                                                  /\ After(ps, n) = crlf_ \o u
         /\ ~(n < Len(ps)) => n = Len(ps) /\ After(ps, n) = End
<1>1. Len(ps) \in Nat
  OBVIOUS
<1>2. After(ps, n) \in Seq(Chars)
  BY AfterIs
<1>3. ASSUME n < Len(ps)
      PROVE  \E u \in Seq(Chars) : u = PartLeft(ps[n + 1], 0, After(ps, n + 1)) /\ After(ps, n) = crlf_ \o u
  <2>1. n \in 0..(Len(ps) - 1) /\ n + 1 \in 0..Len(ps)
    BY <1>1, <1>3
  <2>2. PICK after, p : after = After(ps, n + 1) /\ p = ps[n + 1]
    OBVIOUS
  <2>3. \A k \in 0..Len(ps) : After(ps, k) \in Seq(Chars)
    BY AfterIs
  <2>4. \A k \in 0..(Len(ps) - 1) : /\ ps[k + 1] \in Parts
                                    /\ After(ps, k) = crlf_ \o PartLeft(ps[k + 1], 0, After(ps, k + 1))
    BY AfterIs
  <2>5. after \in Seq(Chars) /\ p \in Parts /\ After(ps, n) = crlf_ \o PartLeft(p, 0, after)
    BY <2>1, <2>2, <2>3, <2>4, Zenon
  <2>6. 0 \in 0..Len(p.file)
    <3>1. p.file \in Seq(Seq(Chars))
      BY <2>5, PartWritten
    <3>2. Len(p.file) \in Nat
      BY <3>1
    <3> QED
      BY <3>2
  <2>7. PartLeft(p, 0, after) \in Seq(Chars)
    BY <2>5, <2>6, PartIs, Zenon
  <2> QED
    BY <2>2, <2>5, <2>7, Zenon
<1>4. ASSUME ~(n < Len(ps)) PROVE n = Len(ps) /\ After(ps, n) = End
  <2>1. n = Len(ps)
    BY <1>1, <1>4
  <2>2. After(ps, Len(ps)) = End
    BY AfterIs
  <2> QED
    BY <2>1, <2>2, Zenon
<1> QED
  BY <1>1, <1>2, <1>3, <1>4

\* The state 4: what is behind a border.
LEMMA BorderStep ==
  ASSUME NEW ps \in Seq(Parts), NEW n \in 0..Len(ps),
         NEW b \in Seq(Chars), NEW r \in Seq(Chars), b \o r = After(ps, n)
  PROVE  /\ Len(b) < 2 => r # <<>>
         /\ Len(b) >= 2 /\ StartsAt(b, 1, crlf_) =>
               n < Len(ps) /\ erase(b, 2) \o r = PartLeft(ps[n + 1], 0, After(ps, n + 1))
         /\ Len(b) >= 2 /\ ~StartsAt(b, 1, crlf_) /\ StartsAt(b, 1, End) =>
               n = Len(ps) /\ erase(b, 4) = <<>> /\ r = <<>>
         /\ Len(b) >= 2 /\ ~StartsAt(b, 1, crlf_) /\ ~StartsAt(b, 1, End) => r # <<>>
<1>0. PICK s, nl, end : s = b \o r /\ s = After(ps, n) /\ nl = crlf_ /\ end = End
  OBVIOUS
<1>1. s \in Seq(Chars) /\ IsJoin(s, b, r)
  BY <1>0, JoinedSeqs
<1>2. /\ nl \in Seq(Chars) /\ Len(nl) = 2 /\ nl[1] = CR
      /\ end \in Seq(Chars) /\ Len(end) = 4 /\ end[1] = Dash /\ CR # Dash
  BY <1>0, Patterns, Zenon DEF Unlike
<1>3. /\ Len(b) \in Nat /\ Len(r) \in Nat /\ Len(s) = Len(b) + Len(r)
      /\ \A k \in 1..Len(b) : s[k] = b[k]
  BY <1>1 DEF IsJoin
<1>4. Len(r) = 0 <=> r = <<>>
  BY EmptySeq
<1>5. Len(b) >= 2 => 1 \in 1..Len(b)
  BY <1>3
<1>6. ASSUME NEW p \in Seq(Chars), Len(b) >= 2
      PROVE  StartsAt(b, 1, p) <=> Len(p) <= Len(b) /\ \A j \in 1..Len(p) : b[j] = p[j]
  <2>1. StartsAt(b, 1, p) <=> /\ 1 + Len(p) - 1 <= Len(b)
                              /\ \A j \in 1..Len(p) : b[1 + j - 1] = p[j]
    BY <1>5, <1>6, StartsAtIs
  <2>2. 1 + Len(p) - 1 = Len(p) /\ \A j \in 1..Len(p) : 1 + j - 1 = j
    OBVIOUS
  <2> QED
    BY <2>1, <2>2
<1>7. CASE n < Len(ps)
  <2>1. PICK u \in Seq(Chars) : u = PartLeft(ps[n + 1], 0, After(ps, n + 1)) /\ After(ps, n) = crlf_ \o u
    BY <1>7, BehindBorder
  <2>2. s = nl \o u /\ b \o r = nl \o u
    BY <1>0, <2>1, Zenon
  <2>3. IsJoin(s, nl, u)
    BY <1>2, <2>2, JoinedSeqs
  <2>4. Len(s) >= 2 /\ s[1] = nl[1] /\ s[2] = nl[2]
    BY <1>2, <2>3 DEF IsJoin
  <2>5. Len(b) < 2 => r # <<>>
    BY <1>3, <1>4, <2>4
  <2>6. ASSUME Len(b) >= 2 PROVE StartsAt(b, 1, nl) /\ erase(b, 2) \o r = u
    <3>1. Len(nl) <= Len(b) /\ 1 \in 1..Len(b) /\ 2 \in 1..Len(b)
      BY <1>2, <1>3, <2>6
    <3>2. \A j \in 1..Len(nl) : j = 1 \/ j = 2
      BY <1>2
    <3>3. \A j \in 1..Len(nl) : b[j] = nl[j]
      BY <1>3, <2>4, <3>1, <3>2
    <3>4. StartsAt(b, 1, nl)
      BY <1>2, <1>6, <2>6, <3>1, <3>3
    <3>5. SameText(b, r, nl, u)
      BY <2>2, Zenon DEF SameText
    <3>6. Took(b, r, nl, u)
      BY <1>2, <3>1, <3>5, TakeFront, Zenon
    <3> QED
      BY <1>2, <3>4, <3>6, Zenon DEF Took
  <2> QED
    BY <1>0, <1>7, <2>1, <2>5, <2>6
<1>8. CASE ~(n < Len(ps))
  <2>1. n = Len(ps) /\ s = end
    BY <1>0, <1>8, BehindBorder, Zenon
  <2>2. Len(b) < 2 => r # <<>>
    BY <1>2, <1>3, <1>4, <2>1
  <2>3. Len(b) >= 2 => ~StartsAt(b, 1, nl)
    <3> SUFFICES ASSUME Len(b) >= 2, StartsAt(b, 1, nl) PROVE FALSE
      OBVIOUS
    <3>1. b[1] = nl[1]
      <4>1. 1 \in 1..Len(nl)
        BY <1>2
      <4> QED
        BY <1>2, <1>6, <4>1
    <3>2. b[1] = end[1]
      BY <1>3, <1>5, <2>1
    <3> QED
      BY <1>2, <3>1, <3>2
  <2>4. ASSUME Len(b) >= 2, StartsAt(b, 1, end) PROVE erase(b, 4) = <<>> /\ r = <<>>
    <3>1. Len(end) <= Len(b)
      BY <1>2, <1>6, <2>4
    <3>2. Len(b) = 4 /\ Len(r) = 0
      <4>1. Len(s) = 4
        BY <1>2, <2>1, Zenon
      <4>2. 4 <= Len(b)
        BY <1>2, <3>1, Zenon
      <4> QED
        BY <1>3, <4>1, <4>2
    <3>3. SubSeq(b, 5, 4) = <<>>
      BY SubSeqEmpty
    <3>4. 4 + 1 = 5
      OBVIOUS
    <3> QED
      BY <1>4, <3>2, <3>3, <3>4, Zenon DEF erase
  <2>5. ASSUME Len(b) >= 2, r = <<>> PROVE StartsAt(b, 1, end)
    <3>1. b = end
      BY <1>0, <2>1, <2>5, ConcatEmptySeq
    <3> QED
      BY <1>2, <1>3, <1>6, <2>5, <3>1
  <2> QED
    BY <1>0, <2>1, <2>2, <2>3, <2>4, <2>5
<1> QED
  BY <1>7, <1>8

\* The state 0: the opening border.
LEMMA OpeningStep ==
  ASSUME NEW ps \in Seq(Parts), NEW b \in Seq(Chars), NEW r \in Seq(Chars), b \o r = Form(ps)
  PROVE  /\ Len(Opening) \in Nat
         /\ Len(Opening) > Len(b) => r # <<>>
         /\ Len(Opening) <= Len(b) /\ find(b, Opening) = 0 =>
               /\ 0 < Len(ps)
               /\ erase(b, Len(Opening)) \o r = PartLeft(ps[0 + 1], 0, After(ps, 0 + 1))
<1>1. PICK front, nl, end, all, next, open :
          /\ front = dash_ \o boundary_ /\ nl = crlf_ /\ end = End /\ all = Form(ps)
          /\ next = After(ps, 0) /\ open = Opening
  OBVIOUS
<1>2. /\ nl \in Seq(Chars) /\ Len(nl) = 2 /\ nl[1] = CR /\ Len(boundary_) \in Nat
      /\ end \in Seq(Chars) /\ Len(end) = 4 /\ end[1] = Dash /\ CR # Dash
  BY <1>1, Patterns, Zenon DEF Unlike
<1>3. front \in Seq(Chars) /\ Len(front) = 2 + Len(boundary_) /\ all = front \o next
  BY <1>1, AfterIs, Zenon
<1>4. Len(ps) \in Nat /\ 0 \in 0..Len(ps)
  OBVIOUS
<1>5. /\ next \in Seq(Chars)
      /\ 0 < Len(ps) => \E u \in Seq(Chars) : /\ u = PartLeft(ps[0 + 1], 0, After(ps, 0 + 1))
                                               /\ next = nl \o u
      /\ ~(0 < Len(ps)) => next = end
  BY <1>1, <1>4, BehindBorder, Zenon
<1>6. open = front \o nl
  BY <1>1, Zenon DEF Opening
<1>7. open \in Seq(Chars) /\ IsJoin(open, front, nl)
  BY <1>2, <1>3, <1>6, JoinedSeqs
<1>8. Len(open) = Len(front) + 2 /\ open[Len(front) + 1] = CR /\ Len(open) \in Nat /\ Len(front) \in Nat
  BY <1>2, <1>3, <1>7 DEF IsJoin
<1>9. IsFront(b, front, next) /\ Len(b) + Len(r) = Len(front) + Len(next)
  <2>1. SameText(b, r, front, next)
    BY <1>1, <1>3, Zenon DEF SameText
  <2> QED
    <3>1. front \in Seq(Chars) /\ next \in Seq(Chars)
      BY <1>3, <1>5, Zenon
    <3>2. IsFront(b, front, next)
      BY <2>1, <3>1, FrontOf, Zenon
    <3>3. Len(b) + Len(r) = Len(front) + Len(next)
      BY <2>1, <3>1, FrontOf, SMTT(30)
    <3> QED
      BY <3>2, <3>3
<1>10. Len(next) >= 2
  <2>1. CASE 0 < Len(ps)
    <3>1. PICK u \in Seq(Chars) : next = nl \o u
      BY <1>5, <2>1
    <3>2. IsJoin(next, nl, u)
      BY <1>2, <3>1, JoinedSeqs
    <3> QED
      BY <1>2, <3>2 DEF IsJoin
  <2>2. CASE ~(0 < Len(ps))
    <3>1. Len(next) = 4
      BY <1>2, <1>5, <2>2, Zenon
    <3> QED
      BY <3>1
  <2> QED
    BY <2>1, <2>2
<1>11. Len(b) \in Nat /\ Len(r) \in Nat /\ Len(next) \in Nat
  BY <1>5
<1>12. Len(open) > Len(b) => r # <<>>
  <2>1. Len(open) > Len(b) => Len(r) # 0
    BY <1>8, <1>9, <1>10, <1>11
  <2> QED
    BY <2>1, EmptySeq
<1>13. ASSUME Len(open) <= Len(b), find(b, open) = 0
       PROVE  0 < Len(ps) /\ erase(b, Len(open)) \o r = PartLeft(ps[0 + 1], 0, After(ps, 0 + 1))
  <2>1. Len(b) # 0 /\ 1 \in 1..Len(b)
    BY <1>8, <1>11, <1>13
  <2>2. b # <<>>
    BY <2>1, EmptySeq
  <2>3. StartsAt(b, 1, open)
    BY <1>13, <2>2, FindZero
  <2>4. \A j \in 1..Len(open) : b[1 + j - 1] = open[j]
    BY <1>7, <2>1, <2>3, StartsAtIs
  <2>5. PICK j : j = Len(front) + 1
    OBVIOUS
  <2>6. j \in 1..Len(open) /\ 1 + j - 1 = j /\ 1 \in 1..Len(next) /\ Len(front) + 1 <= Len(b)
    BY <1>8, <1>10, <1>11, <1>13, <2>5
  <2>7. b[j] = CR /\ b[j] = next[1]
    <3>1. b[j] = open[j]
      BY <2>4, <2>6
    <3>2. b[Len(front) + 1] = next[1]
      BY <1>9, <2>6 DEF IsFront
    <3> QED
      BY <1>8, <2>5, <3>1, <3>2
  <2>8. 0 < Len(ps)
    BY <1>2, <1>5, <2>7
  <2>9. PICK u \in Seq(Chars) : u = PartLeft(ps[0 + 1], 0, After(ps, 0 + 1)) /\ next = nl \o u
    BY <1>5, <2>8
  <2>10. SameText(b, r, open, u)
    <3>1. ThreeGrouped(front, nl, u)
      BY <1>2, <1>3, GroupAnyThree
    <3> QED
      BY <1>1, <1>3, <1>6, <2>9, <3>1, Zenon DEF ThreeGrouped, SameText
  <2>11. Took(b, r, open, u)
    BY <1>7, <1>13, <2>10, TakeFront, Zenon
  <2> QED
    BY <2>8, <2>9, <2>11, Zenon DEF Took
<1> QED
  BY <1>1, <1>8, <1>12, <1>13, Zenon

\* The state 3 with a border that is whole in the buffer, behind the content d.
LEMMA WholeBorder ==
  ASSUME NEW b \in Seq(Chars), NEW r \in Seq(Chars), NEW d \in Seq(Chars), NEW after \in Seq(Chars),
         b \o r = d \o (Border \o after), ~Holds(d, Border), Len(d) + Len(Border) <= Len(b)
  PROVE  LET pos == find(b, Border) IN
         /\ pos # Len(b) /\ SubSeq(b, 1, pos) = d
         /\ erase(b, pos + Len(Border)) \o r = after
<1>1. PICK q : q = Border
  OBVIOUS
<1>2. q \in Seq(Chars) /\ Len(q) \in Nat \ {0} /\ \A k \in 2..Len(q) : q[k] # q[1]
  <2>1. Border \in Seq(Chars) /\ Unlike(Border) /\ Len(Border) = 4 + Len(boundary_) /\ Len(boundary_) \in Nat
    BY Patterns, Zenon
  <2>2. Len(Border) \in Nat \ {0}
    BY <2>1
  <2> QED
    BY <1>1, <2>1, <2>2, Zenon DEF Unlike
<1>3. q # <<>>
  BY <1>2, EmptySeq
<1>4. Len(b) \in Nat /\ Len(d) \in Nat
  OBVIOUS
<1>5. find(b, q) = Len(d)
  <2>1. SameText(b, r, d, q \o after) /\ ~Holds(d, q) /\ Len(d) + Len(q) <= Len(b)
    BY <1>1, Zenon DEF SameText
  <2>2. IF Len(d) + Len(q) <= Len(b) THEN find(b, q) = Len(d) ELSE find(b, q) = Len(b)
    BY <1>2, <1>3, <2>1, FindFirst, Zenon
  <2> QED
    BY <2>1, <2>2, Zenon
<1>6. Len(d) # Len(b) /\ Len(d) <= Len(b)
  BY <1>1, <1>2, <1>4
<1>7. q \o after \in Seq(Chars)
  BY <1>2, ConcatProperties
<1>8. SubSeq(b, 1, Len(d)) = d
  <2>1. SameText(b, r, d, q \o after)
    BY <1>1, Zenon DEF SameText
  <2>2. Took(b, r, d, q \o after)
    BY <1>6, <1>7, <2>1, TakeFront, Zenon
  <2> QED
    BY <2>2, Zenon DEF Took
<1>9. erase(b, Len(d) + Len(q)) \o r = after
  <2>1. PICK front : front = d \o q
    OBVIOUS
  <2>2. front \in Seq(Chars) /\ IsJoin(front, d, q)
    BY <1>2, <2>1, JoinedSeqs
  <2>3. Len(front) = Len(d) + Len(q)
    BY <2>2, Zenon DEF IsJoin
  <2>4. ThreeGrouped(d, q, after)
    BY <1>2, GroupAnyThree
  <2>5. SameText(b, r, front, after)
    BY <1>1, <2>1, <2>4, Zenon DEF SameText, ThreeGrouped
  <2>6. Len(front) <= Len(b)
    BY <1>1, <2>3, Zenon
  <2>7. Took(b, r, front, after)
    BY <2>2, <2>5, <2>6, TakeFront, Zenon
  <2> QED
    BY <2>3, <2>7, Zenon DEF Took
<1> QED
  BY <1>1, <1>5, <1>6, <1>8, <1>9, Zenon

\* In the state 3, d is what is left of the content; the parser takes what is in front
\* of what looks like a border, and of what is left then, t, what is in front of the
\* border.
AtBody(content, c, d, after, b, r) ==
    /\ content = c \o d /\ b \o r = d \o (Border \o after)
    /\ ~Holds(content, Border) /\ (~Holds(content, BorderBegins) \/ r = <<>>)
BodyRead(d, t, after, b, r) ==
    LET before == find_string(b, BorderBegins)
        buf    == erase(b, before)
        pos    == find(buf, Border)
    IN
    /\ SubSeq(b, 1, before) \in Seq(Chars)
    /\ d = SubSeq(b, 1, before) \o t /\ buf \o r = t \o (Border \o after)
    /\ Len(Border) > Len(buf) => r # <<>>
    /\ Len(Border) <= Len(buf) =>
          /\ pos # Len(buf) /\ SubSeq(buf, 1, pos) = t
          /\ erase(buf, pos + Len(Border)) \o r = after

\* Of a content that looks nowhere like a border, or is in the buffer with its border,
\* nothing behind it is taken for content.
LEMMA BodyStep ==
  ASSUME NEW b \in Seq(Chars), NEW r \in Seq(Chars), NEW after \in Seq(Chars),
         NEW content \in Seq(Chars), NEW c \in Seq(Chars), NEW d \in Seq(Chars),
         AtBody(content, c, d, after, b, r)
  PROVE  \E t \in Seq(Chars) : BodyRead(d, t, after, b, r)
<1>0. /\ content = c \o d /\ b \o r = d \o (Border \o after)
      /\ ~Holds(content, Border) /\ (~Holds(content, BorderBegins) \/ r = <<>>)
  BY Zenon DEF AtBody
<1>1. PICK n, e, back, q, g :
          /\ n = find_string(b, BorderBegins) /\ e = erase(b, n) /\ q = Border
          /\ back = Border \o after /\ g = BorderBegins
  OBVIOUS
<1>2. /\ q \in Seq(Chars) /\ Len(q) = 4 + Len(boundary_) /\ Len(boundary_) \in Nat
      /\ g \in Seq(Chars) /\ Len(g) = 4 /\ Unlike(g) /\ boundary_ \in Seq(Chars)
      /\ q = g \o boundary_
  BY <1>1, Patterns, Zenon
<1>3. g # <<>> /\ \A k \in 2..Len(g) : g[k] # g[1]
  <2>1. g # <<>>
    BY <1>2, EmptySeq
  <2> QED
    BY <1>2, <2>1, Zenon DEF Unlike
<1>4. back \in Seq(Chars) /\ IsJoin(back, q, after) /\ back = q \o after
  BY <1>1, <1>2, JoinedSeqs
<1>5. PICK u : u = boundary_ \o after
  OBVIOUS
<1>6. u \in Seq(Chars) /\ back = g \o u
  <2>1. boundary_ \o after \in Seq(Chars)
    BY <1>2, ConcatProperties
  <2>2. ThreeGrouped(g, boundary_, after)
    BY <1>2, GroupAnyThree
  <2> QED
    BY <1>1, <1>2, <1>5, <2>1, <2>2, Zenon DEF ThreeGrouped
<1>7. b \o r = d \o (g \o u)
  BY <1>0, <1>1, <1>6, Zenon
<1>8. /\ n \in 0..Len(b) /\ n <= Len(d)
      /\ ~Holds(d, g) /\ Len(b) - n >= 4 => n = Len(d)
  <2>1. /\ find_string(b, g) \in 0..Len(b) /\ find_string(b, g) <= Len(d)
        /\ ~Holds(d, g) /\ (\A k \in 2..Len(g) : g[k] # g[1])
           /\ Len(b) - find_string(b, g) >= Len(g) => find_string(b, g) = Len(d)
    <3>1. g \in Seq(Chars) /\ u \in Seq(Chars) /\ g # <<>> /\ SameText(b, r, d, g \o u)
      BY <1>2, <1>3, <1>6, <1>7, Zenon DEF SameText
    <3>2. find_string(b, g) \in 0..Len(b)
      BY FindType
    <3>3. find_string(b, g) <= Len(d)
      BY <3>1, FindStringInside, Zenon
    <3>4. ~Holds(d, g) /\ (\A k \in 2..Len(g) : g[k] # g[1])
             /\ Len(b) - find_string(b, g) >= Len(g) => find_string(b, g) = Len(d)
      BY <3>1, FindStringInside, Zenon
    <3> QED
      BY <3>2, <3>3, <3>4, Zenon
  <2>2. find_string(b, g) = n
    BY <1>1, Zenon
  <2> QED
    BY <1>2, <1>3, <2>1, <2>2, Zenon
<1>9. Len(b) \in Nat /\ Len(d) \in Nat /\ n \in Nat /\ n \in 0..Len(d) /\ Len(after) \in Nat
  BY <1>8
<1>10. PICK f, t : f = SubSeq(d, 1, n) /\ t = SubSeq(d, n + 1, Len(d))
  OBVIOUS
<1>11. f \in Seq(Chars) /\ Len(f) = n /\ t \in Seq(Chars) /\ d = f \o t /\ Len(t) = Len(d) - n
  <2>1. /\ SubSeq(d, 1, n) \in Seq(Chars) /\ Len(SubSeq(d, 1, n)) = n
        /\ SubSeq(d, n + 1, Len(d)) \in Seq(Chars)
        /\ Len(SubSeq(d, n + 1, Len(d))) = Len(d) - n
        /\ SubSeq(d, 1, n) \o SubSeq(d, n + 1, Len(d)) = d
    BY <1>9, CutSeq
  <2> QED
    BY <1>10, <2>1, Zenon
<1>12. t \o back \in Seq(Chars) /\ IsJoin(t \o back, t, back)
  BY <1>4, <1>11, JoinedSeqs
<1>13. SameText(b, r, f, t \o back)
  <2>1. ThreeGrouped(f, t, back)
    BY <1>4, <1>11, GroupAnyThree
  <2> QED
    BY <1>0, <1>1, <1>11, <2>1, Zenon DEF SameText, ThreeGrouped
<1>14. Took(b, r, f, t \o back) /\ Len(b) = n + Len(erase(b, n))
  <2>1. Len(f) <= Len(b)
    BY <1>8, <1>9, <1>11
  <2>2. Took(b, r, f, t \o back)
    BY <1>11, <1>12, <1>13, <2>1, TakeFront, Zenon
  <2>3. Len(b) = n + Len(erase(b, n))
    <3>1. Len(SubSeq(b, n + 1, Len(b))) = Len(b) - n
      BY <1>8, CutSeq
    <3> QED
      BY <1>9, <3>1 DEF erase
  <2> QED
    BY <2>2, <2>3
<1>15. SubSeq(b, 1, n) = f /\ e \o r = t \o back /\ Len(b) = n + Len(e)
  BY <1>1, <1>11, <1>14, Zenon DEF Took
<1>16. e \in Seq(Chars)
  BY <1>1, <1>9, EraseType
<1>17. Len(e) \in Nat /\ Len(t) \in Nat /\ Len(back) \in Nat /\ Len(r) \in Nat /\ Len(q) \in Nat
  <2>1. e \in Seq(Chars) /\ t \in Seq(Chars) /\ back \in Seq(Chars) /\ q \in Seq(Chars)
    BY <1>2, <1>4, <1>11, <1>16, Zenon
  <2> QED
    BY <2>1
<1>18. Len(e) + Len(r) = Len(t) + Len(back) /\ Len(back) = Len(q) + Len(after)
  <2>1. e \o r \in Seq(Chars) /\ IsJoin(e \o r, e, r)
    BY <1>16, JoinedSeqs
  <2>2. Len(e \o r) = Len(e) + Len(r)
    BY <2>1, Zenon DEF IsJoin
  <2>3. Len(t \o back) = Len(t) + Len(back)
    BY <1>12, Zenon DEF IsJoin
  <2>4. Len(back) = Len(q) + Len(after)
    BY <1>4, Zenon DEF IsJoin
  <2> QED
    BY <1>15, <2>2, <2>3, <2>4, Zenon
<1>19. Len(r) = 0 <=> r = <<>>
  BY EmptySeq
<1>20. Len(q) > Len(e) => r # <<>>
  BY <1>9, <1>17, <1>18, <1>19
<1>21. ~Holds(t, q)
  <2>1. ~Holds(d, q)
    BY <1>0, <1>1, <1>2, HoldsBehind, Zenon
  <2> QED
    BY <1>2, <1>11, <2>1, HoldsBehind, Zenon
<1>22. ASSUME Len(q) <= Len(e) PROVE Len(t) + Len(q) <= Len(e)
  <2>1. CASE r = <<>>
    BY <1>9, <1>17, <1>18, <1>19, <2>1
  <2>2. CASE ~Holds(content, BorderBegins)
    <3>1. ~Holds(d, g)
      BY <1>0, <1>1, <1>2, <2>2, HoldsBehind, Zenon
    <3>2. Len(b) - n >= 4
      BY <1>2, <1>9, <1>15, <1>17, <1>22
    <3>3. n = Len(d)
      BY <1>8, <3>1, <3>2, Zenon
    <3>4. Len(t) = 0
      BY <1>9, <1>11, <3>3
    <3> QED
      BY <1>17, <1>22, <3>4
  <2> QED
    BY <1>0, <2>1, <2>2
<1>23. ASSUME Len(Border) <= Len(e)
       PROVE  /\ find(e, Border) # Len(e) /\ SubSeq(e, 1, find(e, Border)) = t
              /\ erase(e, find(e, Border) + Len(Border)) \o r = after
  <2>1. Len(t) + Len(Border) <= Len(e) /\ ~Holds(t, Border) /\ e \o r = t \o (Border \o after)
    BY <1>1, <1>15, <1>21, <1>22, <1>23, Zenon
  <2> QED
    <3>1. e \in Seq(Chars) /\ t \in Seq(Chars)
      BY <1>11, <1>16, Zenon
    <3> QED
      BY <2>1, <3>1, WholeBorder
<1>24. Len(Border) > Len(e) => r # <<>>
  BY <1>1, <1>20, Zenon
<1> QED
  BY <1>1, <1>11, <1>15, <1>23, <1>24, Zenon DEF BodyRead
-----------------------------------------------------------------------------
\* Where in the form ps the parser is: text is what it has not gone through.
Position(ps, st, file, got, text) ==
    \/ st = 0 /\ got = <<>> /\ text = Form(ps)
    \/ st = 1 /\ \E n \in 0..(Len(ps) - 1) :
          got = SubSeq(ps, 1, n) /\ text = PartLeft(ps[n + 1], 0, After(ps, n + 1))
    \/ st = 2 /\ \E n \in 0..(Len(ps) - 1) : \E m \in 0..Len(ps[n + 1].file) :
          /\ got = SubSeq(ps, 1, n) /\ file = SubSeq(ps[n + 1].file, 1, m)
          /\ text = PartLeft(ps[n + 1], m, After(ps, n + 1))
    \/ st = 3 /\ \E n \in 0..(Len(ps) - 1) : \E c, d \in Seq(Chars) :
          /\ ps[n + 1].content = c \o d
          /\ got = Append(SubSeq(ps, 1, n), [file |-> ps[n + 1].file, content |-> c])
          /\ text = d \o (Border \o After(ps, n + 1))
    \/ st = 4 /\ \E n \in 0..Len(ps) : got = SubSeq(ps, 1, n) /\ text = After(ps, n)
    \/ st = 5 /\ got = ps /\ text = <<>>

FormTypeOK ==
    /\ form \in Forms /\ buf_ \in Seq(Chars) /\ rest \in Seq(Chars) /\ pieces \in 0..2
    /\ parsing \in BOOLEAN /\ is_valid_ \in BOOLEAN /\ refused \in BOOLEAN
    /\ pieces = 0 => rest # <<>> /\ ~parsing
Clean == \A k \in DOMAIN form.parts : ~Holds(form.parts[k].content, BorderBegins)
Whole == Clean \/ pieces = 0 \/ (pieces = 1 /\ rest = <<>>)
Going ==
    /\ Position(form.parts, state_, file_, parts, buf_ \o rest)
    /\ is_valid_ <=> state_ = 5
    /\ ~parsing => rest # <<>> \/ state_ = 5
FormInv == FormTypeOK /\ (Whole /\ ~refused => Going)

\* What is known of a form.
LEMMA FormIs ==
  ASSUME form \in Forms
  PROVE  /\ form.parts \in Seq(Parts) /\ form.text = Form(form.parts)
         /\ form.text \in Seq(Chars) /\ form.text # <<>>
         /\ Len(form.parts) \in Nat
         /\ \A n \in 0..(Len(form.parts) - 1) :
               /\ form.parts[n + 1] \in Parts /\ n + 1 \in DOMAIN form.parts /\ n + 1 \in 0..Len(form.parts)
               /\ \A j \in DOMAIN form.parts[n + 1].file : IsLine(form.parts[n + 1].file[j])
               /\ ~Holds(form.parts[n + 1].content, Border)
<1>1. PICK ps, text : ps = form.parts /\ text = form.text
  OBVIOUS
<1>2. /\ ps \in Seq(Parts) /\ text = Form(ps)
      /\ \A k \in DOMAIN ps : /\ \A j \in DOMAIN ps[k].file : IsLine(ps[k].file[j])
                              /\ ~Holds(ps[k].content, Border)
  BY <1>1, FormAssumption, Zenon DEF Parts
<1>3. Len(ps) \in Nat /\ DOMAIN ps = 1..Len(ps)
  BY <1>2
<1>4. \A n \in 0..(Len(ps) - 1) : n + 1 \in 1..Len(ps) /\ n + 1 \in 0..Len(ps)
  BY <1>3
<1>5. \A k \in 1..Len(ps) : ps[k] \in Parts
  BY <1>2, ElementOfSeq
<1>6. text \in Seq(Chars) /\ text # <<>>
  <2>1. PICK front, next : front = dash_ \o boundary_ /\ next = After(ps, 0)
    OBVIOUS
  <2>2. front \in Seq(Chars) /\ Len(front) = 2 + Len(boundary_) /\ text = front \o next
    BY <1>2, <2>1, AfterIs, Zenon
  <2>3. next \in Seq(Chars)
    <3>1. 0 \in 0..Len(ps)
      BY <1>3
    <3> QED
      BY <1>2, <2>1, <3>1, AfterIs, Zenon
  <2>4. text \in Seq(Chars) /\ IsJoin(text, front, next)
    BY <2>2, <2>3, JoinedSeqs
  <2>5. Len(text) = Len(front) + Len(next)
    BY <2>4, Zenon DEF IsJoin
  <2>6. Len(boundary_) \in Nat
    BY Patterns, Zenon
  <2>7. Len(next) \in Nat
    BY <2>3
  <2>8. Len(text) # 0
    BY <2>2, <2>5, <2>6, <2>7
  <2> QED
    BY <2>4, <2>8, EmptySeq
<1> QED
  BY <1>1, <1>2, <1>3, <1>4, <1>5, <1>6, Zenon

\* content_callback, called for the last part.
LEMMA GetsLast ==
  ASSUME NEW s \in Seq(Parts), NEW file \in Seq(Seq(Chars)), NEW c \in Seq(Chars), NEW x \in Seq(Chars)
  PROVE  Gets(Append(s, [file |-> file, content |-> c]), x)
            = Append(s, [file |-> file, content |-> c \o x])
<1>1. PICK more, got, p, q, n :
          /\ more = c \o x /\ p = [file |-> file, content |-> c]
          /\ q = [file |-> file, content |-> c \o x] /\ got = Append(s, p) /\ n = Len(s) + 1
  OBVIOUS
<1>2. more \in Seq(Chars)
  BY <1>1, ConcatProperties
<1>3. p \in Parts /\ q \in Parts
  BY <1>1, <1>2 DEF Parts
<1>4. [file |-> p.file, content |-> p.content \o x] = q
  BY <1>1
<1>5. /\ got \in Seq(Parts) /\ Len(got) = n /\ got[n] = p
      /\ \A k \in 1..Len(s) : got[k] = s[k]
  BY <1>1, <1>3, AppendProperties
<1>6. PICK new : new = [got EXCEPT ![n] = q]
  OBVIOUS
<1>7. Gets(got, x) = new
  BY <1>1, <1>4, <1>5, <1>6, Zenon DEF Gets
<1>8. Len(s) \in Nat /\ n \in 1..n
  BY <1>1
<1>9. /\ new \in Seq(Parts) /\ Len(new) = n /\ new[n] = q
      /\ \A k \in 1..Len(s) : new[k] = s[k]
  <2>1. got \in [1..n -> Parts]
    BY <1>5
  <2>2. new \in [1..n -> Parts] /\ new[n] = q /\ \A k \in 1..Len(s) : new[k] = got[k]
    <3>1. \A k \in 1..Len(s) : k \in 1..n /\ k # n
      BY <1>1, <1>8
    <3>2. n \in 1..n /\ q \in Parts
      BY <1>3, <1>8
    <3> HIDE DEF Parts
    <3> QED
      BY <1>6, <2>1, <3>1, <3>2
  <2>3. n \in Nat
    BY <1>1, <1>8
  <2>4. new \in Seq(Parts) /\ Len(new) = n
    BY <2>2, <2>3
  <2> QED
    BY <1>5, <2>2, <2>4, Zenon
<1>10. /\ Append(s, q) \in Seq(Parts) /\ Len(Append(s, q)) = n /\ Append(s, q)[n] = q
       /\ \A k \in 1..Len(s) : Append(s, q)[k] = s[k]
  BY <1>1, <1>3, AppendProperties
<1>11. \A k \in 1..n : k = n \/ k \in 1..Len(s)
  BY <1>1, <1>8
<1>12. new = Append(s, q)
  <2>1. PICK t : t = Append(s, q)
    OBVIOUS
  <2>2. \A k \in 1..Len(new) : new[k] = t[k]
    BY <1>9, <1>10, <1>11, <2>1, Zenon
  <2> QED
    BY <1>9, <1>10, <2>1, <2>2, SeqEqual
<1> QED
  BY <1>1, <1>7, <1>12, Zenon

\* The parts that have been read, with the next one.
LEMMA OneMore ==
  ASSUME NEW T, NEW s \in Seq(T), NEW n \in 0..(Len(s) - 1)
  PROVE  SubSeq(s, 1, n + 1) = Append(SubSeq(s, 1, n), s[n + 1]) /\ SubSeq(s, 1, n) \in Seq(T)
<1>1. n + 1 \in 1..Len(s) /\ n \in 0..Len(s) /\ (n + 1) - 1 = n
  OBVIOUS
<1>2. SubSeq(s, 1, n) \in Seq(T)
  BY <1>1, CutSeq
<1>3. SubSeq(s, 1, n + 1) = Append(SubSeq(s, 1, (n + 1) - 1), s[n + 1])
  OBVIOUS
<1> QED
  BY <1>1, <1>2, <1>3

\* A part is its header lines and its content.
LEMMA PartOf ==
  ASSUME NEW p \in Parts
  PROVE  [file |-> p.file, content |-> p.content] = p
BY DEF Parts
-----------------------------------------------------------------------------
\* Every step keeps the types.
LEMMA FormTypeStep ==
  ASSUME FormTypeOK, [MultipartNext]_multipartVars
  PROVE  FormTypeOK'
<1>0. /\ form \in Forms /\ buf_ \in Seq(Chars) /\ rest \in Seq(Chars) /\ pieces \in 0..2
      /\ parsing \in BOOLEAN /\ is_valid_ \in BOOLEAN /\ refused \in BOOLEAN
      /\ pieces = 0 => rest # <<>> /\ ~parsing
  BY DEF FormTypeOK
<1>1. CASE Piece
  <2>1. PICK n \in 1..Len(rest) : buf_' = buf_ \o SubSeq(rest, 1, n) /\ rest' = erase(rest, n)
    BY <1>1 DEF Piece
  <2>2. n \in 0..Len(rest) /\ n \in Nat
    BY <1>0
  <2>3. SubSeq(rest, 1, n) \in Seq(Chars) /\ rest' \in Seq(Chars)
    BY <1>0, <2>1, <2>2, CutSeq, EraseType
  <2>4. buf_' \in Seq(Chars)
    BY <1>0, <2>1, <2>3, ConcatProperties
  <2>5. pieces' \in 0..2 /\ pieces' # 0
    <3>1. pieces + 1 \in Int /\ 2 \in Int
      BY <1>0
    <3>2. Min({pieces + 1, 2}) = IF pieces + 1 <= 2 THEN pieces + 1 ELSE 2
      BY <3>1, MinTwo
    <3> QED
      BY <1>0, <1>1, <3>2 DEF Piece
  <2> QED
    BY <1>0, <1>1, <2>3, <2>4, <2>5 DEF Piece, FormTypeOK
<1>2. CASE Exhausted
  BY <1>0, <1>2 DEF Exhausted, FormTypeOK
<1>3. CASE InitialBoundary
  <2>1. \A n \in Nat : erase(buf_, n) \in Seq(Chars)
    BY <1>0, EraseType
  <2>2. Len(Opening) \in Nat
    <3>1. dash_ \o boundary_ \in Seq(Chars) /\ crlf_ \in Seq(Chars)
      BY Patterns, ConcatProperties
    <3>2. (dash_ \o boundary_) \o crlf_ \in Seq(Chars)
      BY <3>1, ConcatProperties
    <3> QED
      BY <3>2 DEF Opening
  <2>3. buf_' \in Seq(Chars)
    BY <1>0, <1>3, <2>1, <2>2, Zenon DEF InitialBoundary, Opening, Waits, Refuses
  <2>4. /\ form' = form /\ rest' = rest /\ pieces' = pieces /\ parsing
        /\ parsing' \in BOOLEAN /\ is_valid_' \in BOOLEAN /\ refused' \in BOOLEAN
    BY <1>0, <1>3 DEF InitialBoundary, Waits, Refuses, Reading
  <2> QED
    BY <1>0, <2>3, <2>4 DEF FormTypeOK
<1>4. CASE NewEntry
  BY <1>0, <1>4 DEF NewEntry, Reading, FormTypeOK
<1>5. CASE HeaderLine
  <2>1. \A n \in Nat : erase(buf_, n) \in Seq(Chars)
    BY <1>0, EraseType
  <2>2. PICK pos : pos = find(buf_, crlf_)
    OBVIOUS
  <2>3. pos \in Nat /\ pos + 2 \in Nat
    <3>1. pos \in 0..Len(buf_)
      BY <1>0, <2>2, FindType, Zenon
    <3> QED
      BY <1>0, <3>1
  <2>4. buf_' \in Seq(Chars)
    BY <1>0, <1>5, <2>1, <2>2, <2>3, Zenon DEF HeaderLine, Waits
  <2>5. /\ form' = form /\ rest' = rest /\ pieces' = pieces /\ parsing
        /\ parsing' \in BOOLEAN /\ is_valid_' = is_valid_ /\ refused' = refused
    BY <1>0, <1>5, Zenon DEF HeaderLine, Waits, Reading
  <2> QED
    BY <1>0, <2>4, <2>5 DEF FormTypeOK
<1>6. CASE Body
  <2>1. PICK n, b, pos : n = find_string(buf_, crlf_ \o dash_) /\ b = erase(buf_, n) /\ pos = find(b, Border)
    OBVIOUS
  <2>2. n \in Nat /\ b \in Seq(Chars)
    <3>1. n \in 0..Len(buf_)
      BY <1>0, <2>1, FindType, Zenon
    <3>2. n \in Nat
      BY <1>0, <3>1
    <3> QED
      BY <1>0, <2>1, <3>2, EraseType
  <2>3. pos + Len(Border) \in Nat /\ Len(Border) \in Nat
    <3>1. pos \in 0..Len(b)
      BY <2>1, <2>2, FindType, Zenon
    <3>2. Border \in Seq(Chars)
      BY Patterns, Zenon
    <3> QED
      BY <2>2, <3>1, <3>2
  <2>4. \A k \in Nat : erase(b, k) \in Seq(Chars)
    BY <2>2, EraseType
  <2>5. buf_' \in Seq(Chars)
    BY <1>0, <1>6, <2>1, <2>2, <2>3, <2>4, Zenon DEF Body, Waits
  <2>6. /\ form' = form /\ rest' = rest /\ pieces' = pieces /\ parsing
        /\ parsing' \in BOOLEAN /\ is_valid_' = is_valid_ /\ refused' = refused
    BY <1>0, <1>6, Zenon DEF Body, Waits, Reading
  <2> QED
    BY <1>0, <2>5, <2>6 DEF FormTypeOK
<1>7. CASE Boundary
  <2>1. erase(buf_, 2) \in Seq(Chars) /\ erase(buf_, 4) \in Seq(Chars)
    BY <1>0, EraseType
  <2>2. buf_' \in Seq(Chars)
    BY <1>0, <1>7, <2>1, Zenon DEF Boundary, Waits
  <2>3. /\ form' = form /\ rest' = rest /\ pieces' = pieces /\ parsing
        /\ parsing' \in BOOLEAN /\ is_valid_' \in BOOLEAN /\ refused' = refused
    BY <1>0, <1>7 DEF Boundary, Waits, Reading
  <2> QED
    BY <1>0, <2>2, <2>3 DEF FormTypeOK
<1>8. CASE Done
  BY <1>0, <1>8 DEF Done, Refuses, Reading, FormTypeOK
<1>9. CASE CallbackRefuses
  BY <1>0, <1>9 DEF CallbackRefuses, Refuses, FormTypeOK
<1>10. CASE UNCHANGED multipartVars
  BY <1>0, <1>10 DEF multipartVars, FormTypeOK
<1> QED
  BY <1>1, <1>2, <1>3, <1>4, <1>5, <1>6, <1>7, <1>8, <1>9, <1>10 DEF MultipartNext

\* A form that may be judged after a step was to be judged before it.
LEMMA WholeBefore ==
  ASSUME FormTypeOK, [MultipartNext]_multipartVars, Whole', ~refused'
  PROVE  Whole /\ ~refused
<1>1. /\ form' = form
      /\ \/ pieces' = pieces /\ rest' = rest /\ (refused => refused')
         \/ pieces' = Min({pieces + 1, 2}) /\ ~refused
  <2>1. CASE Piece
    BY <2>1 DEF Piece
  <2>2. CASE Exhausted
    BY <2>2 DEF Exhausted
  <2>3. CASE InitialBoundary
    BY <2>3, Zenon DEF InitialBoundary, Waits, Refuses, Reading
  <2>4. CASE NewEntry
    BY <2>4 DEF NewEntry, Reading
  <2>5. CASE HeaderLine
    BY <2>5, Zenon DEF HeaderLine, Waits, Reading
  <2>6. CASE Body
    BY <2>6, Zenon DEF Body, Waits, Reading
  <2>7. CASE Boundary
    BY <2>7, Zenon DEF Boundary, Waits, Reading
  <2>8. CASE Done
    BY <2>8 DEF Done, Refuses, Reading
  <2>9. CASE CallbackRefuses
    BY <2>9 DEF CallbackRefuses, Refuses
  <2>10. CASE UNCHANGED multipartVars
    BY <2>10 DEF multipartVars
  <2> QED
    BY <2>1, <2>2, <2>3, <2>4, <2>5, <2>6, <2>7, <2>8, <2>9, <2>10 DEF MultipartNext
<1>2. Clean' => Clean
  BY <1>1 DEF Clean
<1>3. CASE pieces' = pieces /\ rest' = rest /\ (refused => refused')
  BY <1>2, <1>3 DEF Whole
<1>4. CASE pieces' = Min({pieces + 1, 2}) /\ ~refused
  <2>1. pieces \in 0..2
    BY DEF FormTypeOK
  <2>2. Min({pieces + 1, 2}) = IF pieces + 1 <= 2 THEN pieces + 1 ELSE 2
    <3>1. pieces + 1 \in Int /\ 2 \in Int
      BY <2>1
    <3> QED
      BY <3>1, MinTwo
  <2>3. pieces' = 0 \/ pieces' = 1 => pieces = 0
    BY <1>4, <2>1, <2>2
  <2> QED
    BY <1>2, <1>4, <2>3 DEF Whole
<1> QED
  BY <1>1, <1>3, <1>4

\* Of a form there is something left until the end.
LEMMA TextLeft ==
  ASSUME form \in Forms, NEW st, NEW file, NEW got, NEW text \in Seq(Chars),
         Position(form.parts, st, file, got, text), st # 5
  PROVE  text # <<>>
<1>1. PICK ps, none : ps = form.parts /\ none = <<>>
  OBVIOUS
<1>2. /\ ps \in Seq(Parts) /\ Form(ps) # <<>>
      /\ \A n \in 0..(Len(ps) - 1) :
            /\ ps[n + 1] \in Parts /\ n + 1 \in 0..Len(ps)
            /\ \A j \in DOMAIN ps[n + 1].file : IsLine(ps[n + 1].file[j])
  BY <1>1, FormIs, Zenon
<1>3. none \in Seq(Chars) /\ Len(none) = 0 /\ none \o text = text
  BY <1>1, EmptySeq, ConcatEmptySeq
<1>4. \A n \in 0..Len(ps) : After(ps, n) \in Seq(Chars)
  BY <1>2, AfterIs
<1>5. ASSUME NEW n \in 0..(Len(ps) - 1), NEW m \in 0..Len(ps[n + 1].file),
             text = PartLeft(ps[n + 1], m, After(ps, n + 1))
      PROVE  text # <<>>
  <2>1. PICK p, after : p = ps[n + 1] /\ after = After(ps, n + 1)
    OBVIOUS
  <2>2. /\ p \in Parts /\ after \in Seq(Chars) /\ m \in 0..Len(p.file)
        /\ AtLine(p, m, after, none, text)
    BY <1>2, <1>3, <1>4, <1>5, <2>1, Zenon DEF AtLine
  <2>3. find(none, crlf_) = Len(none)
    <3>1. find(none, crlf_) \in 0..Len(none)
      BY <1>3, FindType, Zenon
    <3> QED
      BY <1>3, <3>1
  <2>4. LineRead(p, m, after, none, text)
    BY <1>3, <2>2, LineStep, Zenon
  <2> QED
    BY <2>3, <2>4, Zenon DEF LineRead
<1>6. CASE st = 0
  BY <1>1, <1>2, <1>6 DEF Position
<1>7. CASE st = 1
  <2>1. PICK n \in 0..(Len(ps) - 1) : text = PartLeft(ps[n + 1], 0, After(ps, n + 1))
    BY <1>1, <1>7 DEF Position
  <2>2. 0 \in 0..Len(ps[n + 1].file)
    <3>1. ps[n + 1].file \in Seq(Seq(Chars))
      BY <1>2, PartWritten, EmptySeq
    <3>2. Len(ps[n + 1].file) \in Nat
      BY <3>1
    <3> QED
      BY <3>2
  <2> QED
    BY <1>5, <2>1, <2>2
<1>8. CASE st = 2
  <2>1. PICK n \in 0..(Len(ps) - 1) : \E m \in 0..Len(ps[n + 1].file) :
            text = PartLeft(ps[n + 1], m, After(ps, n + 1))
    BY <1>1, <1>8 DEF Position
  <2> QED
    BY <1>5, <2>1
<1>9. CASE st = 3
  <2>1. PICK n \in 0..(Len(ps) - 1) : \E c, d \in Seq(Chars) :
            text = d \o (Border \o After(ps, n + 1))
    <3>1. st # 0 /\ st # 1 /\ st # 2 /\ st # 4 /\ st # 5
      BY <1>9
    <3> QED
      BY <1>1, <3>1, Zenon DEF Position
  <2>2. PICK d \in Seq(Chars) : text = d \o (Border \o After(ps, n + 1))
    BY <2>1
  <2>3. PICK after, back : after = After(ps, n + 1) /\ back = Border \o after
    OBVIOUS
  <2>4. after \in Seq(Chars) /\ Border \in Seq(Chars) /\ text = d \o back
    BY <1>2, <1>4, <2>2, <2>3, Patterns, Zenon
  <2>5. back \in Seq(Chars) /\ Len(back) = Len(Border) + Len(after)
    <3>1. Border \o after \in Seq(Chars) /\ IsJoin(Border \o after, Border, after)
      BY <2>4, JoinedSeqs
    <3> QED
      BY <2>3, <3>1, Zenon DEF IsJoin
  <2>6. Len(text) = Len(d) + Len(back)
    <3>1. IsJoin(d \o back, d, back)
      BY <2>5, JoinedSeqs
    <3> QED
      BY <2>4, <3>1, Zenon DEF IsJoin
  <2>7. Len(Border) = 4 + Len(boundary_) /\ Len(boundary_) \in Nat
    BY Patterns, Zenon
  <2>8. Len(text) # 0
    <3>1. Len(d) \in Nat /\ Len(after) \in Nat
      BY <2>4
    <3> QED
      BY <2>5, <2>6, <2>7, <3>1
  <2> QED
    BY <2>8, EmptySeq
<1>10. CASE st = 4
  <2>1. PICK n \in 0..Len(ps) : text = After(ps, n)
    BY <1>1, <1>10 DEF Position
  <2>2. none \o text = After(ps, n) /\ Len(none) < 2
    BY <1>3, <2>1
  <2> QED
    BY <1>2, <1>3, <2>2, BorderStep
<1> QED
  BY <1>6, <1>7, <1>8, <1>9, <1>10 DEF Position

\* A piece arrives.
LEMMA PieceStep ==
  ASSUME FormTypeOK, Going, Piece
  PROVE  Going'
<1>1. PICK n \in 1..Len(rest) : buf_' = buf_ \o SubSeq(rest, 1, n) /\ rest' = erase(rest, n)
  BY DEF Piece
<1>2. /\ form' = form /\ state_' = state_ /\ is_valid_' = is_valid_ /\ file_' = file_
      /\ parts' = parts /\ parsing' = TRUE
  BY DEF Piece
<1>3. buf_ \in Seq(Chars) /\ rest \in Seq(Chars)
  BY DEF FormTypeOK
<1>4. PICK f, e : f = SubSeq(rest, 1, n) /\ e = SubSeq(rest, n + 1, Len(rest))
  OBVIOUS
<1>5. f \in Seq(Chars) /\ e \in Seq(Chars) /\ f \o e = rest
  <2>1. n \in 0..Len(rest)
    BY <1>3
  <2> QED
    BY <1>3, <1>4, <2>1, CutSeq
<1>6. buf_' \o rest' = buf_ \o rest
  <2>1. ThreeGrouped(buf_, f, e)
    BY <1>3, <1>5, GroupAnyThree
  <2> QED
    BY <1>1, <1>4, <1>5, <2>1, Zenon DEF ThreeGrouped, erase
<1>7. Position(form.parts, state_, file_, parts, buf_ \o rest) /\ (is_valid_ <=> state_ = 5)
  BY DEF Going
<1>8. Position(form'.parts, state_', file_', parts', buf_' \o rest')
  BY <1>2, <1>6, <1>7, Zenon
<1> QED
  BY <1>2, <1>7, <1>8, Zenon DEF Going

\* The buffer is empty.
LEMMA ExhaustedStep ==
  ASSUME FormTypeOK, Going, Exhausted
  PROVE  Going'
<1>1. /\ form' = form /\ state_' = state_ /\ is_valid_' = is_valid_ /\ file_' = file_
      /\ parts' = parts /\ buf_' = buf_ /\ rest' = rest /\ buf_ = <<>>
  BY DEF Exhausted
<1>2. form \in Forms /\ rest \in Seq(Chars)
  BY DEF FormTypeOK
<1>3. buf_ \o rest = rest
  BY <1>1, <1>2, ConcatEmptySeq
<1>4. Position(form.parts, state_, file_, parts, buf_ \o rest) /\ (is_valid_ <=> state_ = 5)
  BY DEF Going
<1>5. Position(form'.parts, state_', file_', parts', buf_' \o rest')
  BY <1>1, <1>4, Zenon
<1>6. rest # <<>> \/ state_ = 5
  BY <1>2, <1>3, <1>4, TextLeft, Zenon
<1> QED
  BY <1>1, <1>4, <1>5, <1>6, Zenon DEF Going

\* The parser waits for more of a form of which there is more.
LEMMA WaitStep ==
  ASSUME Going, Waits, UNCHANGED <<form, rest, pieces>>, rest # <<>>
  PROVE  Going'
<1>1. /\ form' = form /\ state_' = state_ /\ is_valid_' = is_valid_ /\ file_' = file_
      /\ parts' = parts /\ buf_' = buf_ /\ rest' = rest
  BY DEF Waits
<1>2. Position(form.parts, state_, file_, parts, buf_ \o rest) /\ (is_valid_ <=> state_ = 5)
  BY DEF Going
<1>3. Position(form'.parts, state_', file_', parts', buf_' \o rest')
  BY <1>1, <1>2, Zenon
<1> QED
  BY <1>1, <1>2, <1>3, Zenon DEF Going

\* The opening border.
LEMMA InitialBoundaryStep ==
  ASSUME FormTypeOK, Going, InitialBoundary, ~refused'
  PROVE  Going'
<1>1. PICK ps : ps = form.parts
  OBVIOUS
<1>2. /\ form \in Forms /\ ps \in Seq(Parts) /\ buf_ \in Seq(Chars) /\ rest \in Seq(Chars)
  BY <1>1, FormIs DEF FormTypeOK
<1>3. /\ state_ = 0 /\ parsing = TRUE /\ form' = form /\ rest' = rest /\ pieces' = pieces
  BY DEF InitialBoundary, Reading, FormTypeOK
<1>4. Position(ps, 0, file_, parts, buf_ \o rest) /\ (is_valid_ <=> FALSE)
  BY <1>1, <1>3 DEF Going
<1>5. parts = <<>> /\ buf_ \o rest = Form(ps)
  BY <1>4 DEF Position
<1>6. /\ Len(Opening) \in Nat /\ Len(buf_) \in Nat
      /\ Len(Opening) > Len(buf_) => rest # <<>>
      /\ Len(Opening) <= Len(buf_) /\ find(buf_, Opening) = 0 =>
            /\ 0 < Len(ps)
            /\ erase(buf_, Len(Opening)) \o rest = PartLeft(ps[0 + 1], 0, After(ps, 0 + 1))
  <2>1. Len(buf_) \in Nat
    BY <1>2
  <2> QED
    BY <1>2, <1>5, <2>1, OpeningStep, Zenon
<1>7. CASE Len(Opening) > Len(buf_)
  <2>1. Waits
    BY <1>7, Zenon DEF InitialBoundary, Opening
  <2> QED
    BY <1>3, <1>6, <1>7, <2>1, WaitStep
<1>8. CASE ~(Len(Opening) > Len(buf_))
  <2>1. /\ find(buf_, Opening) = 0
        /\ buf_' = erase(buf_, Len(Opening)) /\ state_' = 1
        /\ UNCHANGED <<parsing, is_valid_, file_, parts, refused>>
    BY <1>8, Zenon DEF InitialBoundary, Opening, Refuses
  <2>2. 0 < Len(ps) /\ erase(buf_, Len(Opening)) \o rest = PartLeft(ps[0 + 1], 0, After(ps, 0 + 1))
    BY <1>6, <1>8, <2>1
  <2>3. 0 \in 0..(Len(ps) - 1) /\ SubSeq(ps, 1, 0) = <<>>
    <3>1. Len(ps) \in Nat
      BY <1>2
    <3> QED
      BY <2>2, <3>1, SubSeqEmpty
  <2>4. Position(ps, 1, file_, <<>>, PartLeft(ps[0 + 1], 0, After(ps, 0 + 1)))
    <3>1. \E n \in 0..(Len(ps) - 1) : /\ <<>> = SubSeq(ps, 1, n)
                                      /\ PartLeft(ps[0 + 1], 0, After(ps, 0 + 1)) = PartLeft(ps[n + 1], 0, After(ps, n + 1))
      BY <2>3, Zenon
    <3> QED
      BY <3>1, Zenon DEF Position
  <2>5. Position(form'.parts, state_', file_', parts', buf_' \o rest')
    BY <1>1, <1>3, <1>5, <2>1, <2>2, <2>4, Zenon
  <2>6. ~is_valid_' /\ state_' # 5 /\ parsing'
    BY <1>3, <1>4, <2>1
  <2> QED
    BY <2>5, <2>6, Zenon DEF Going
<1> QED
  BY <1>7, <1>8

\* A part begins.
LEMMA NewEntryStep ==
  ASSUME FormTypeOK, Going, NewEntry
  PROVE  Going'
<1>1. PICK ps : ps = form.parts
  OBVIOUS
<1>2. /\ state_ = 1 /\ parsing = TRUE /\ form' = form /\ rest' = rest /\ buf_' = buf_ /\ parts' = parts
      /\ file_' = <<>> /\ state_' = 2 /\ parsing' = parsing /\ is_valid_' = is_valid_
  BY DEF NewEntry, Reading, FormTypeOK
<1>3. Position(ps, 1, file_, parts, buf_ \o rest) /\ (is_valid_ <=> FALSE)
  BY <1>1, <1>2 DEF Going
<1>4. PICK n \in 0..(Len(ps) - 1) : parts = SubSeq(ps, 1, n) /\ buf_ \o rest = PartLeft(ps[n + 1], 0, After(ps, n + 1))
  BY <1>3 DEF Position
<1>5. 0 \in 0..Len(ps[n + 1].file) /\ SubSeq(ps[n + 1].file, 1, 0) = <<>>
  <2>1. ps[n + 1] \in Parts
    BY <1>1, <1>4, FormIs DEF FormTypeOK
  <2>2. ps[n + 1].file \in Seq(Seq(Chars))
    BY <2>1, PartWritten, EmptySeq
  <2>3. Len(ps[n + 1].file) \in Nat
    BY <2>2
  <2> QED
    BY <2>3, SubSeqEmpty
<1>6. Position(ps, 2, <<>>, parts, buf_ \o rest)
  <2>1. \E m \in 0..Len(ps[n + 1].file) :
           /\ parts = SubSeq(ps, 1, n) /\ <<>> = SubSeq(ps[n + 1].file, 1, m)
           /\ buf_ \o rest = PartLeft(ps[n + 1], m, After(ps, n + 1))
    BY <1>4, <1>5, Zenon
  <2> QED
    BY <2>1, Zenon DEF Position
<1>7. Position(form'.parts, state_', file_', parts', buf_' \o rest')
  BY <1>1, <1>2, <1>6, Zenon
<1>8. ~is_valid_' /\ state_' # 5 /\ parsing'
  BY <1>2, <1>3
<1> QED
  BY <1>7, <1>8, Zenon DEF Going

\* A header line, or the blank line behind them.
LEMMA HeaderLineStep ==
  ASSUME FormTypeOK, Going, HeaderLine
  PROVE  Going'
<1>1. PICK ps : ps = form.parts
  OBVIOUS
<1>2. /\ state_ = 2 /\ parsing = TRUE /\ form' = form /\ rest' = rest /\ pieces' = pieces
      /\ buf_ \in Seq(Chars) /\ rest \in Seq(Chars) /\ form \in Forms
  BY DEF HeaderLine, Reading, FormTypeOK
<1>3. Position(ps, 2, file_, parts, buf_ \o rest) /\ (is_valid_ <=> FALSE)
  BY <1>1, <1>2 DEF Going
<1>4. PICK n \in 0..(Len(ps) - 1) : \E m \in 0..Len(ps[n + 1].file) :
          /\ parts = SubSeq(ps, 1, n) /\ file_ = SubSeq(ps[n + 1].file, 1, m)
          /\ buf_ \o rest = PartLeft(ps[n + 1], m, After(ps, n + 1))
  <2>1. 2 # 0 /\ 2 # 1 /\ 2 # 3 /\ 2 # 4 /\ 2 # 5
    OBVIOUS
  <2> QED
    BY <1>3, <2>1, Zenon DEF Position
<1>5. PICK p, after : p = ps[n + 1] /\ after = After(ps, n + 1)
  OBVIOUS
<1>6. PICK m \in 0..Len(p.file) : /\ parts = SubSeq(ps, 1, n) /\ file_ = SubSeq(p.file, 1, m)
                                  /\ buf_ \o rest = PartLeft(p, m, after)
  BY <1>4, <1>5
<1>7. /\ ps \in Seq(Parts) /\ p \in Parts /\ n + 1 \in 0..Len(ps)
      /\ \A j \in DOMAIN p.file : IsLine(p.file[j])
  BY <1>1, <1>2, <1>5, FormIs, Zenon
<1>8. after \in Seq(Chars)
  BY <1>5, <1>7, AfterIs, Zenon
<1>9. LineRead(p, m, after, buf_, rest)
  <2>1. AtLine(p, m, after, buf_, rest)
    BY <1>6, <1>7, Zenon DEF AtLine
  <2> QED
    BY <1>2, <1>7, <1>8, <2>1, LineStep, Zenon
<1>10. PICK pos : pos = find(buf_, crlf_)
  OBVIOUS
<1>11. /\ p.file \in Seq(Seq(Chars)) /\ p.content \in Seq(Chars)
  BY <1>7, <1>8, PartWritten, Zenon
<1>12. CASE pos = Len(buf_)
  <2>1. Waits
    BY <1>10, <1>12, Zenon DEF HeaderLine
  <2>2. rest # <<>>
    BY <1>9, <1>10, <1>12, Zenon DEF LineRead
  <2> QED
    BY <1>2, <2>1, <2>2, WaitStep
<1>13. CASE pos # Len(buf_) /\ pos = 0
  <2>1. /\ buf_' = erase(buf_, pos + 2) /\ state_' = 3 /\ file_' = file_
        /\ parts' = Append(parts, [file |-> file_, content |-> <<>>])
        /\ UNCHANGED <<parsing, is_valid_, refused>>
    BY <1>10, <1>13, Zenon DEF HeaderLine
  <2>2. m = Len(p.file) /\ erase(buf_, pos + 2) \o rest = p.content \o (Border \o after)
    BY <1>9, <1>10, <1>13, Zenon DEF LineRead
  <2>3. file_ = p.file
    BY <1>6, <1>11, <2>2, SubSeqFull
  <2>4. <<>> \in Seq(Chars) /\ p.content = <<>> \o p.content
    BY <1>11, EmptySeq, ConcatEmptySeq
  <2>5. Position(ps, 3, file_, parts', buf_' \o rest)
    <3>1. \E c, d \in Seq(Chars) :
             /\ ps[n + 1].content = c \o d
             /\ parts' = Append(SubSeq(ps, 1, n), [file |-> ps[n + 1].file, content |-> c])
             /\ buf_' \o rest = d \o (Border \o After(ps, n + 1))
      BY <1>5, <1>6, <1>11, <2>1, <2>2, <2>3, <2>4, Zenon
    <3> QED
      BY <3>1, Zenon DEF Position
  <2>6. Position(form'.parts, state_', file_', parts', buf_' \o rest')
    BY <1>1, <1>2, <2>1, <2>5, Zenon
  <2>7. ~is_valid_' /\ state_' # 5 /\ parsing'
    BY <1>2, <1>3, <2>1
  <2> QED
    BY <2>6, <2>7, Zenon DEF Going
<1>14. CASE pos # Len(buf_) /\ pos # 0
  <2>1. /\ buf_' = erase(buf_, pos + 2) /\ state_' = state_ /\ parts' = parts
        /\ file_' = Append(file_, SubSeq(buf_, 1, pos))
        /\ UNCHANGED <<parsing, is_valid_, refused>>
    BY <1>10, <1>14, Zenon DEF HeaderLine
  <2>2. /\ m < Len(p.file) /\ SubSeq(buf_, 1, pos) = p.file[m + 1]
        /\ erase(buf_, pos + 2) \o rest = PartLeft(p, m + 1, after)
    BY <1>9, <1>10, <1>14, Zenon DEF LineRead
  <2>3. m \in 0..(Len(p.file) - 1) /\ m + 1 \in 0..Len(p.file)
    <3>1. Len(p.file) \in Nat
      BY <1>11
    <3> QED
      BY <2>2, <3>1
  <2>4. SubSeq(p.file, 1, m + 1) = Append(SubSeq(p.file, 1, m), p.file[m + 1])
    BY <1>11, <2>3, OneMore, Zenon
  <2>5. Position(ps, 2, file_', parts, buf_' \o rest)
    <3>1. \E k \in 0..Len(ps[n + 1].file) :
             /\ parts = SubSeq(ps, 1, n) /\ file_' = SubSeq(ps[n + 1].file, 1, k)
             /\ buf_' \o rest = PartLeft(ps[n + 1], k, After(ps, n + 1))
      BY <1>5, <1>6, <2>1, <2>2, <2>3, <2>4, Zenon
    <3> QED
      BY <3>1, Zenon DEF Position
  <2>6. Position(form'.parts, state_', file_', parts', buf_' \o rest')
    BY <1>1, <1>2, <2>1, <2>5, Zenon
  <2>7. ~is_valid_' /\ state_' # 5 /\ parsing'
    BY <1>2, <1>3, <2>1
  <2> QED
    BY <2>6, <2>7, Zenon DEF Going
<1> QED
  BY <1>12, <1>13, <1>14

\* Content, and the border behind it.
LEMMA BodyStepGoing ==
  ASSUME FormTypeOK, Going, Whole, Body
  PROVE  Going'
<1>1. PICK ps : ps = form.parts
  OBVIOUS
<1>2. /\ state_ = 3 /\ parsing = TRUE /\ form' = form /\ rest' = rest /\ pieces' = pieces
      /\ buf_ \in Seq(Chars) /\ rest \in Seq(Chars) /\ form \in Forms /\ pieces # 0
  BY DEF Body, Reading, FormTypeOK
<1>3. Position(ps, 3, file_, parts, buf_ \o rest) /\ (is_valid_ <=> FALSE)
  BY <1>1, <1>2 DEF Going
<1>4. PICK n \in 0..(Len(ps) - 1) : \E c, d \in Seq(Chars) :
          /\ ps[n + 1].content = c \o d
          /\ parts = Append(SubSeq(ps, 1, n), [file |-> ps[n + 1].file, content |-> c])
          /\ buf_ \o rest = d \o (Border \o After(ps, n + 1))
  <2>1. 3 # 0 /\ 3 # 1 /\ 3 # 2 /\ 3 # 4 /\ 3 # 5
    OBVIOUS
  <2> QED
    BY <1>3, <2>1, Zenon DEF Position
<1>5. PICK p, after : p = ps[n + 1] /\ after = After(ps, n + 1)
  OBVIOUS
<1>6. PICK c \in Seq(Chars), d \in Seq(Chars) :
          /\ p.content = c \o d
          /\ parts = Append(SubSeq(ps, 1, n), [file |-> p.file, content |-> c])
          /\ buf_ \o rest = d \o (Border \o after)
  BY <1>4, <1>5, Zenon
<1>7. /\ ps \in Seq(Parts) /\ p \in Parts /\ n + 1 \in 0..Len(ps) /\ n + 1 \in DOMAIN ps
      /\ ~Holds(p.content, Border)
  BY <1>1, <1>2, <1>5, FormIs, Zenon
<1>8. after \in Seq(Chars)
  BY <1>5, <1>7, AfterIs, Zenon
<1>9. p.file \in Seq(Seq(Chars)) /\ p.content \in Seq(Chars)
  BY <1>7, <1>8, PartWritten, Zenon
<1>10. ~Holds(p.content, BorderBegins) \/ rest = <<>>
  BY <1>1, <1>2, <1>5, <1>7, Zenon DEF Whole, Clean
<1>11. PICK t \in Seq(Chars) : BodyRead(d, t, after, buf_, rest)
  <2>1. AtBody(p.content, c, d, after, buf_, rest)
    BY <1>6, <1>7, <1>10, Zenon DEF AtBody
  <2> QED
    BY <1>2, <1>8, <1>9, <2>1, BodyStep, Zenon
<1>12. PICK before, f, buf, pos, front :
           /\ before = find_string(buf_, BorderBegins) /\ f = SubSeq(buf_, 1, before)
           /\ buf = erase(buf_, before) /\ pos = find(buf, Border) /\ front = SubSeq(ps, 1, n)
  OBVIOUS
<1>13. /\ f \in Seq(Chars) /\ d = f \o t /\ buf \o rest = t \o (Border \o after)
       /\ Len(Border) > Len(buf) => rest # <<>>
       /\ Len(Border) <= Len(buf) =>
             pos # Len(buf) /\ SubSeq(buf, 1, pos) = t /\ erase(buf, pos + Len(Border)) \o rest = after
  BY <1>11, <1>12, Zenon DEF BodyRead
<1>14. front \in Seq(Parts) /\ SubSeq(ps, 1, n + 1) = Append(front, p)
  BY <1>5, <1>7, <1>12, OneMore, Zenon
<1>15. c \o f \in Seq(Chars) /\ p.content = (c \o f) \o t
  <2>1. c \o f \in Seq(Chars)
    BY <1>13, ConcatProperties
  <2>2. ThreeGrouped(c, f, t)
    BY <1>13, GroupAnyThree
  <2> QED
    BY <1>6, <1>13, <2>1, <2>2, Zenon DEF ThreeGrouped
<1>16. Gets(parts, f) = Append(front, [file |-> p.file, content |-> c \o f])
  <2>1. Gets(Append(front, [file |-> p.file, content |-> c]), f)
           = Append(front, [file |-> p.file, content |-> c \o f])
    BY <1>9, <1>13, <1>14, GetsLast
  <2> QED
    BY <1>6, <1>12, <2>1, Zenon
<1>17. CASE Len(BorderBegins) > Len(buf_)
  <2>1. Waits
    BY <1>17, Zenon DEF Body, BorderBegins
  <2>2. rest # <<>>
    <3>1. PICK len : len = Len(Border)
      OBVIOUS
    <3>2. Len(BorderBegins) = 4 /\ len = 4 + Len(boundary_) /\ Len(boundary_) \in Nat
      BY <3>1, Patterns, Zenon
    <3>3. before \in 0..Len(buf_)
      BY <1>2, <1>12, FindType, Zenon
    <3>4. Len(buf) <= Len(buf_)
      <4>1. Len(SubSeq(buf_, before + 1, Len(buf_))) = Len(buf_) - before
        BY <1>2, <3>3, CutSeq
      <4>2. buf = SubSeq(buf_, before + 1, Len(buf_))
        BY <1>12, Zenon DEF erase
      <4>3. Len(buf_) \in Nat
        BY <1>2
      <4> QED
        BY <3>3, <4>1, <4>2, <4>3
    <3>5. buf \in Seq(Chars)
      <4>1. before \in Nat
        BY <1>2, <3>3
      <4> QED
        BY <1>2, <1>12, <4>1, EraseType, Zenon
    <3>6. len > Len(buf)
      <4>1. Len(buf) \in Nat /\ Len(buf_) \in Nat
        BY <1>2, <3>5
      <4> QED
        BY <1>17, <3>2, <3>4, <4>1
    <3> QED
      BY <1>13, <3>1, <3>6, Zenon
  <2> QED
    BY <1>2, <2>1, <2>2, WaitStep
<1>18. CASE ~(Len(BorderBegins) > Len(buf_)) /\ Len(Border) > Len(buf)
  <2>1. /\ parts' = Gets(parts, f) /\ buf_' = buf /\ parsing' = FALSE
        /\ UNCHANGED <<state_, is_valid_, file_, refused>>
    BY <1>12, <1>18, Zenon DEF Body, BorderBegins
  <2>2. rest # <<>>
    BY <1>13, <1>18, Zenon
  <2>3. Position(ps, 3, file_, parts', buf_' \o rest)
    <3>1. \E x, y \in Seq(Chars) :
             /\ ps[n + 1].content = x \o y
             /\ parts' = Append(SubSeq(ps, 1, n), [file |-> ps[n + 1].file, content |-> x])
             /\ buf_' \o rest = y \o (Border \o After(ps, n + 1))
      BY <1>5, <1>12, <1>13, <1>15, <1>16, <2>1, Zenon
    <3> QED
      BY <3>1, Zenon DEF Position
  <2>4. Position(form'.parts, state_', file_', parts', buf_' \o rest')
    BY <1>1, <1>2, <2>1, <2>3, Zenon
  <2>5. ~is_valid_' /\ state_' # 5 /\ rest' # <<>>
    BY <1>2, <1>3, <2>1, <2>2
  <2> QED
    BY <2>4, <2>5, Zenon DEF Going
<1>19. CASE ~(Len(BorderBegins) > Len(buf_)) /\ ~(Len(Border) > Len(buf))
  <2>1. Len(Border) <= Len(buf)
    <3>1. Border \in Seq(Chars) /\ buf \in Seq(Chars)
      <4>1. before \in 0..Len(buf_)
        BY <1>2, <1>12, FindType, Zenon
      <4>2. before \in Nat
        BY <1>2, <4>1
      <4> QED
        BY <1>2, <1>12, <4>2, EraseType, Patterns, Zenon
    <3>2. Len(Border) \in Nat /\ Len(buf) \in Nat
      BY <3>1
    <3> QED
      BY <1>19, <3>2
  <2>2. pos # Len(buf) /\ SubSeq(buf, 1, pos) = t /\ erase(buf, pos + Len(Border)) \o rest = after
    BY <1>13, <2>1, Zenon
  <2>3. /\ parts' = Gets(Gets(parts, f), t) /\ buf_' = erase(buf, pos + Len(Border)) /\ state_' = 4
        /\ UNCHANGED <<parsing, is_valid_, file_, refused>>
    BY <1>12, <1>19, <2>2, Zenon DEF Body, BorderBegins
  <2>4. parts' = SubSeq(ps, 1, n + 1)
    <3>1. Gets(Append(front, [file |-> p.file, content |-> c \o f]), t)
             = Append(front, [file |-> p.file, content |-> (c \o f) \o t])
      <4>1. PICK cf : cf = c \o f
        OBVIOUS
      <4>2. cf \in Seq(Chars) /\ p.file \in Seq(Seq(Chars)) /\ front \in Seq(Parts)
        BY <1>9, <1>14, <1>15, <4>1, Zenon
      <4>3. Gets(Append(front, [file |-> p.file, content |-> cf]), t)
               = Append(front, [file |-> p.file, content |-> cf \o t])
        BY <4>2, GetsLast, Zenon
      <4> QED
        BY <4>1, <4>3, Zenon
    <3>2. [file |-> p.file, content |-> p.content] = p
      BY <1>7, PartOf
    <3> QED
      BY <1>14, <1>15, <1>16, <2>3, <3>1, <3>2, Zenon
  <2>5. Position(ps, 4, file_, parts', buf_' \o rest)
    <3>1. \E k \in 0..Len(ps) : parts' = SubSeq(ps, 1, k) /\ buf_' \o rest = After(ps, k)
      BY <1>5, <1>7, <2>2, <2>3, <2>4, Zenon
    <3> QED
      BY <3>1, Zenon DEF Position
  <2>6. Position(form'.parts, state_', file_', parts', buf_' \o rest')
    BY <1>1, <1>2, <2>3, <2>5, Zenon
  <2>7. ~is_valid_' /\ state_' # 5 /\ parsing'
    BY <1>2, <1>3, <2>3
  <2> QED
    BY <2>6, <2>7, Zenon DEF Going
<1> QED
  BY <1>17, <1>18, <1>19

\* What is behind a border.
LEMMA BoundaryStep ==
  ASSUME FormTypeOK, Going, Boundary
  PROVE  Going'
<1>1. PICK ps : ps = form.parts
  OBVIOUS
<1>2. /\ state_ = 4 /\ parsing = TRUE /\ form' = form /\ rest' = rest /\ pieces' = pieces
      /\ buf_ \in Seq(Chars) /\ rest \in Seq(Chars) /\ form \in Forms /\ Len(buf_) \in Nat
  BY DEF Boundary, Reading, FormTypeOK
<1>3. Position(ps, 4, file_, parts, buf_ \o rest) /\ (is_valid_ <=> FALSE)
  BY <1>1, <1>2 DEF Going
<1>4. PICK n \in 0..Len(ps) : parts = SubSeq(ps, 1, n) /\ buf_ \o rest = After(ps, n)
  <2>1. 4 # 0 /\ 4 # 1 /\ 4 # 2 /\ 4 # 3 /\ 4 # 5
    OBVIOUS
  <2> QED
    BY <1>3, <2>1, Zenon DEF Position
<1>5. ps \in Seq(Parts) /\ Len(ps) \in Nat
  BY <1>1, <1>2, FormIs
<1>6. /\ Len(buf_) < 2 => rest # <<>>
      /\ Len(buf_) >= 2 /\ StartsAt(buf_, 1, crlf_) =>
            n < Len(ps) /\ erase(buf_, 2) \o rest = PartLeft(ps[n + 1], 0, After(ps, n + 1))
      /\ Len(buf_) >= 2 /\ ~StartsAt(buf_, 1, crlf_) /\ StartsAt(buf_, 1, End) =>
            n = Len(ps) /\ erase(buf_, 4) = <<>> /\ rest = <<>>
      /\ Len(buf_) >= 2 /\ ~StartsAt(buf_, 1, crlf_) /\ ~StartsAt(buf_, 1, End) => rest # <<>>
  BY <1>2, <1>4, <1>5, BorderStep
<1>7. Len(buf_) < 2 \/ Len(buf_) >= 2
  BY <1>2
<1>8. CASE Len(buf_) < 2 \/ (~StartsAt(buf_, 1, crlf_) /\ ~StartsAt(buf_, 1, End))
  <2>1. Waits
    BY <1>8, Zenon DEF Boundary, End
  <2>2. rest # <<>>
    BY <1>6, <1>7, <1>8, Zenon
  <2> QED
    BY <1>2, <2>1, <2>2, WaitStep
<1>9. CASE ~(Len(buf_) < 2) /\ StartsAt(buf_, 1, crlf_)
  <2>1. buf_' = erase(buf_, 2) /\ state_' = 1 /\ UNCHANGED <<parsing, is_valid_, file_, parts, refused>>
    BY <1>9, Zenon DEF Boundary
  <2>2. n < Len(ps) /\ erase(buf_, 2) \o rest = PartLeft(ps[n + 1], 0, After(ps, n + 1))
    BY <1>6, <1>7, <1>9, Zenon
  <2>3. n \in 0..(Len(ps) - 1)
    BY <1>5, <2>2
  <2>4. Position(ps, 1, file_, parts, buf_' \o rest)
    BY <1>4, <2>1, <2>2, <2>3, Zenon DEF Position
  <2>5. Position(form'.parts, state_', file_', parts', buf_' \o rest')
    BY <1>1, <1>2, <2>1, <2>4, Zenon
  <2>6. ~is_valid_' /\ state_' # 5 /\ parsing'
    BY <1>2, <1>3, <2>1
  <2> QED
    BY <2>5, <2>6, Zenon DEF Going
<1>10. CASE ~(Len(buf_) < 2) /\ ~StartsAt(buf_, 1, crlf_) /\ StartsAt(buf_, 1, End)
  <2>1. /\ buf_' = erase(buf_, 4) /\ state_' = 5 /\ is_valid_' = TRUE
        /\ UNCHANGED <<parsing, file_, parts, refused>>
    BY <1>10, Zenon DEF Boundary, End
  <2>2. n = Len(ps) /\ erase(buf_, 4) = <<>> /\ rest = <<>>
    BY <1>6, <1>7, <1>10, Zenon
  <2>3. parts = ps
    BY <1>4, <1>5, <2>2, SubSeqFull
  <2>4. <<>> \o <<>> = <<>>
    BY EmptySeq, ConcatEmptySeq
  <2>5. Position(ps, 5, file_, parts, buf_' \o rest)
    BY <2>1, <2>2, <2>3, <2>4, Zenon DEF Position
  <2>6. Position(form'.parts, state_', file_', parts', buf_' \o rest')
    BY <1>1, <1>2, <2>1, <2>5, Zenon
  <2> QED
    BY <2>1, <2>6, Zenon DEF Going
<1> QED
  BY <1>7, <1>8, <1>9, <1>10, Zenon

\* FormInv is an invariant.
THEOREM FormInvariance == MultipartSpec => []FormInv
<1>1. MultipartInit => FormInv
  <2> SUFFICES ASSUME MultipartInit PROVE FormInv
    OBVIOUS
  <2>1. /\ form \in Forms /\ rest = form.text /\ pieces = 0 /\ parsing = FALSE /\ buf_ = <<>>
        /\ state_ = 0 /\ is_valid_ = FALSE /\ parts = <<>> /\ refused = FALSE
    BY DEF MultipartInit
  <2>2. form.text = Form(form.parts) /\ form.text \in Seq(Chars) /\ form.text # <<>>
    BY <2>1, FormIs
  <2>3. <<>> \in Seq(Chars) /\ <<>> \o rest = rest
    BY <2>1, <2>2, EmptySeq, ConcatEmptySeq
  <2>4. FormTypeOK
    <3>1. buf_ \in Seq(Chars) /\ rest \in Seq(Chars) /\ rest # <<>>
      BY <2>1, <2>2, <2>3, Zenon
    <3> QED
      <4>1. 0 \in 0..2 /\ TRUE \in BOOLEAN /\ FALSE \in BOOLEAN
        OBVIOUS
      <4> QED
        BY <2>1, <3>1, <4>1, Zenon DEF FormTypeOK
  <2>5. Position(form.parts, state_, file_, parts, buf_ \o rest)
    BY <2>1, <2>2, <2>3, Zenon DEF Position
  <2>6. Going
    BY <2>1, <2>2, <2>5 DEF Going
  <2> QED
    BY <2>4, <2>6 DEF FormInv
<1>2. FormInv /\ [MultipartNext]_multipartVars => FormInv'
  <2> SUFFICES ASSUME FormInv, [MultipartNext]_multipartVars PROVE FormInv'
    OBVIOUS
  <2>1. FormTypeOK /\ FormTypeOK'
    BY FormTypeStep DEF FormInv
  <2>2. ASSUME Whole', ~refused' PROVE Going'
    <3>1. Whole /\ ~refused
      BY <2>1, <2>2, WholeBefore
    <3>2. Going
      BY <3>1 DEF FormInv
    <3>3. CASE Piece
      BY <2>1, <3>2, <3>3, PieceStep
    <3>4. CASE Exhausted
      BY <2>1, <3>2, <3>4, ExhaustedStep
    <3>5. CASE InitialBoundary
      BY <2>1, <2>2, <3>2, <3>5, InitialBoundaryStep
    <3>6. CASE NewEntry
      BY <2>1, <3>2, <3>6, NewEntryStep
    <3>7. CASE HeaderLine
      BY <2>1, <3>2, <3>7, HeaderLineStep
    <3>8. CASE Body
      BY <2>1, <3>1, <3>2, <3>8, BodyStepGoing
    <3>9. CASE Boundary
      BY <2>1, <3>2, <3>9, BoundaryStep
    <3>10. CASE Done
      BY <2>2, <3>10 DEF Done, Refuses
    <3>11. CASE CallbackRefuses
      BY <2>2, <3>11 DEF CallbackRefuses, Refuses
    <3>12. CASE UNCHANGED multipartVars
      <4>1. /\ form' = form /\ state_' = state_ /\ is_valid_' = is_valid_ /\ file_' = file_
            /\ parts' = parts /\ buf_' = buf_ /\ rest' = rest /\ parsing' = parsing
        BY <3>12 DEF multipartVars
      <4>2. Position(form.parts, state_, file_, parts, buf_ \o rest)
        BY <3>2 DEF Going
      <4>3. Position(form'.parts, state_', file_', parts', buf_' \o rest')
        BY <4>1, <4>2, Zenon
      <4> QED
        BY <3>2, <4>1, <4>3, Zenon DEF Going
    <3> QED
      BY <3>3, <3>4, <3>5, <3>6, <3>7, <3>8, <3>9, <3>10, <3>11, <3>12 DEF MultipartNext
  <2> QED
    BY <2>1, <2>2 DEF FormInv
<1> QED
  BY <1>1, <1>2, PTL DEF MultipartSpec

\* However a form arrives, the parts that were written are the parts that are read, and
\* it is valid when it has arrived whole and not before (MultipartFormDataParser::parse).
THEOREM PartsAlwaysArrive == MultipartSpec => []PartsArrive
<1>1. FormInv => PartsArrive
  <2> SUFFICES ASSUME FormInv, Clean \/ (pieces = 1 /\ rest = <<>>), ~parsing, ~refused
               PROVE  (is_valid_ <=> rest = <<>>) /\ (rest = <<>> => parts = form.parts)
    BY Zenon DEF PartsArrive, Clean, BorderBegins
  <2>1. FormTypeOK /\ Going
    BY Zenon DEF FormInv, Whole
  <2>2. /\ Position(form.parts, state_, file_, parts, buf_ \o rest)
        /\ is_valid_ <=> state_ = 5
        /\ rest # <<>> \/ state_ = 5
    BY <2>1 DEF Going
  <2>3. state_ = 5 => parts = form.parts /\ buf_ \o rest = <<>>
    BY <2>2 DEF Position
  <2>4. buf_ \o rest = <<>> => rest = <<>>
    <3>1. buf_ \in Seq(Chars) /\ rest \in Seq(Chars)
      BY <2>1 DEF FormTypeOK
    <3>2. PICK s : s = buf_ \o rest
      OBVIOUS
    <3>3. IsJoin(s, buf_, rest)
      BY <3>1, <3>2, JoinedSeqs
    <3>4. Len(s) = Len(buf_) + Len(rest) /\ Len(buf_) \in Nat /\ Len(rest) \in Nat
      BY <3>1, <3>3 DEF IsJoin
    <3>5. s = <<>> => Len(rest) = 0
      BY <3>4
    <3> QED
      BY <3>1, <3>2, <3>5, EmptySeq
  <2> QED
    BY <2>2, <2>3, <2>4
<1> QED
  BY <1>1, FormInvariance, PTL
=============================================================================
