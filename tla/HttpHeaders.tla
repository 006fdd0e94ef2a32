---------------------------- MODULE HttpHeaders ----------------------------
(***************************************************************************)
(* The head of a message, from set_header on one side to the headers that  *)
(* the other side has read.  The server writes a response, perhaps with    *)
(* "100 Continue" before it, or the client a request.  A first line is one *)
(* byte and the line end.                                                  *)
(* Keys came as C strings, so that they hold no NUL; and they are tokens,  *)
(* without a colon.  Two keys that differ do so in their first byte.       *)
(***************************************************************************)
EXTENDS HttpCodec

CONSTANTS
    bufsiz,         \* size of the buffers of write_format and of a line
    Fields,         \* headers that a program sets
    MaxFields       \* bound: how many

ASSUME HeadersAssumption ==
    /\ bufsiz \in Nat /\ bufsiz > 2 /\ MaxFields \in Nat
    /\ Fields \subseteq [key : Seq(0..255), val : Seq(0..255)]

Tab == 9
Cr == 13
Lf == 10
Colon == 58

ASSUME KeysAreTokens ==
    \A f \in Fields : f.key # <<>> /\ \A k \in DOMAIN f.key : f.key[k] \notin {Nul, Colon}

VARIABLES
    server,         \* the server writes, or the client
    fields,         \* the headers that were set, in the order of their keys
    sender,         \* "setting", "sending", "body", "done", "failed"
    pending,        \* bytes of the head that are not sent
    link, hungUp,   \* bytes on the way; the connection is closed
    cut,            \* history: the server has sent a part of the head
    scanner,        \* the line that is read: "first", "blank", "next", "headers",
                    \* or "ok", "failed"
    fixed_buffer_, glowable_buffer_,
    found           \* the headers that were read

headVars == <<server, fields, sender, pending, link, hungUp, cut, scanner,
              fixed_buffer_, glowable_buffer_, found>>

LineEnd == <<Cr, Lf>>
StatusContinue == 67
OtherStatus == 82

\* A body that looks like a header.
Behind == <<75, Colon, 66, Cr, Lf>>

HeadInit ==
    /\ server \in BOOLEAN /\ fields = <<>> /\ sender = "setting" /\ pending = <<>>
    /\ link = <<>> /\ hungUp = FALSE /\ cut = FALSE
    /\ scanner = "first" /\ fixed_buffer_ = <<>> /\ glowable_buffer_ = <<>>
    /\ found = <<>>

Reaches(bytes) == link' = IF hungUp THEN link ELSE link \o bytes

Scan == <<scanner, fixed_buffer_, glowable_buffer_, found>>
-----------------------------------------------------------------------------
\* A C string ends at the first NUL.
c_str(s) ==
    LET ends == {k \in DOMAIN s : s[k] = Nul}
    IN IF ends = {} THEN s ELSE SubSeq(s, 1, Min(ends) - 1)

has_crlf(s) == \E k \in DOMAIN c_str(s) : c_str(s)[k] \in {Cr, Lf}

\* A multimap: a header goes behind those of its key, and is walked there.
lower_bound(hs, key) == Max({0} \cup {k \in DOMAIN hs : hs[k].key[1] < key[1]})
upper_bound(hs, key) == Max({0} \cup {k \in DOMAIN hs : hs[k].key[1] <= key[1]})

erase_all(hs, key) ==
    SubSeq(hs, 1, lower_bound(hs, key)) \o SubSeq(hs, upper_bound(hs, key) + 1, Len(hs))

set_header(hs, f) ==
    IF has_crlf(f.key) \/ has_crlf(f.val) THEN hs
    ELSE InsertAt(hs, upper_bound(hs, f.key) + 1, f)

\* set_header, or set_content, which replaces the header of its key.
SetHeader ==
    /\ sender = "setting" /\ Len(fields) < MaxFields
    /\ \E f \in Fields :
        \/ fields' = set_header(fields, f)
        \/ server /\ fields' = set_header(erase_all(fields, f.key), f)
    /\ UNCHANGED <<server, sender, pending, link, hungUp, cut, Scan>>

\* "100 Continue", before the handler runs.
Continue ==
    /\ server /\ sender = "setting" /\ fields = <<>> /\ link = <<>> /\ scanner = "first"
    /\ Reaches(<<StatusContinue>> \o LineEnd \o LineEnd)
    /\ UNCHANGED <<server, fields, sender, pending, hungUp, cut, Scan>>

\* What snprintf leaves in a buffer: one byte less than it was told to use,
\* which is one less than there is.
snprintf(text, size) ==
    [k \in DOMAIN text |-> IF k <= size - 2 THEN text[k] ELSE Nul]

\* write_format: the buffer grows until the text is shorter than it by two.
write_format(text) ==
    LET fits(size) == Len(text) < size - 1
        size[k \in 0..Len(text)] == IF k = 0 THEN bufsiz ELSE 2 * size[k - 1]
    IN snprintf(text, Min({n \in {size[k] : k \in 0..Len(text)} : fits(n)}))

header_line(h) == c_str(h.key) \o <<Colon, Space>> \o c_str(h.val) \o LineEnd

write_headers(hs) ==
    FlattenSeq([k \in DOMAIN hs |-> write_format(header_line(hs[k]))]) \o LineEnd

\* The head is put together in a BufferStream.
WriteHead ==
    /\ sender = "setting" /\ sender' = "sending"
    /\ pending' = <<OtherStatus>> \o LineEnd \o write_headers(fields)
    /\ UNCHANGED <<server, fields, link, hungUp, cut, Scan>>

\* The client's write_data sends until all is sent.  The server calls
\* strm.write once and goes on with the body, whatever the result.
SendHead ==
    /\ sender = "sending"
    /\ \E n \in 1..Len(pending) :
        /\ Reaches(SubSeq(pending, 1, n))
        /\ pending' = SubSeq(pending, n + 1, Len(pending))
        /\ sender' = IF server \/ pending' = <<>> THEN "body" ELSE "sending"
        /\ cut' = (server /\ pending' # <<>>)
    /\ UNCHANGED <<server, fields, hungUp, Scan>>

\* The stream cannot be written to in time.
SendFails ==
    /\ sender = "sending"
    /\ IF server THEN sender' = "body" /\ cut' = TRUE /\ UNCHANGED hungUp
                 ELSE sender' = "failed" /\ hungUp' = TRUE /\ UNCHANGED cut
    /\ UNCHANGED <<server, fields, pending, link, Scan>>

SendBody ==
    /\ sender = "body" /\ sender' = "done" /\ Reaches(Behind)
    /\ UNCHANGED <<server, fields, pending, hungUp, cut, Scan>>

HangUp ==
    /\ ~hungUp /\ hungUp' = TRUE
    /\ UNCHANGED <<server, fields, sender, pending, link, cut, Scan>>
-----------------------------------------------------------------------------
Scanning == scanner \in {"first", "blank", "next", "headers"}
Sends == <<server, fields, sender, pending, hungUp, cut>>

\* ptr() and size() of the line.
TheLine == IF glowable_buffer_ = <<>> THEN fixed_buffer_ ELSE glowable_buffer_

LineIsRead ==
    TheLine # <<>> /\ (Last(TheLine) = Lf \/ (link = <<>> /\ hungUp))

\* Mutant of AppendByte: the fixed buffer is left behind.
AppendByteOnly ==
    /\ Scanning /\ ~LineIsRead /\ link # <<>> /\ link' = Tail(link)
    /\ IF Len(fixed_buffer_) < bufsiz - 1
       THEN /\ fixed_buffer_' = Append(fixed_buffer_, Head(link))
            /\ UNCHANGED glowable_buffer_
       ELSE /\ glowable_buffer_' = Append(glowable_buffer_, Head(link))
            /\ UNCHANGED fixed_buffer_
    /\ UNCHANGED <<Sends, scanner, found>>

\* One turn of getline: a byte of the stream goes to the fixed buffer, or to
\* the one that grows.
AppendByte ==
    /\ Scanning /\ ~LineIsRead /\ link # <<>> /\ link' = Tail(link)
    /\ IF Len(fixed_buffer_) < bufsiz - 1
       THEN /\ fixed_buffer_' = Append(fixed_buffer_, Head(link))
            /\ UNCHANGED glowable_buffer_
       ELSE /\ glowable_buffer_' = Append(TheLine, Head(link))
            /\ UNCHANGED fixed_buffer_
    /\ UNCHANGED <<Sends, scanner, found>>

\* Nothing arrives in time, or nothing comes any more and the line is empty.
GetLineFails ==
    /\ Scanning /\ ~LineIsRead
    /\ scanner' = "failed"
    /\ UNCHANGED <<Sends, link, fixed_buffer_, glowable_buffer_, found>>

end_with_crlf(line) == Len(line) >= 2 /\ SubSeq(line, Len(line) - 1, Len(line)) = LineEnd

NextLine == fixed_buffer_' = <<>> /\ glowable_buffer_' = <<>>

\* read_response_line: a response that is no 100 goes on with its headers, or
\* the blank line of a 100 and the next response.
ReadFirstLine ==
    /\ LineIsRead /\ scanner \in {"first", "next"}
    /\ scanner' = CASE TheLine = <<OtherStatus>> \o LineEnd -> "headers"
                    [] TheLine = <<StatusContinue>> \o LineEnd -> "blank"
                    [] OTHER -> "failed"
    /\ NextLine /\ UNCHANGED <<Sends, link, found>>

ReadBlankLine ==
    /\ LineIsRead /\ scanner = "blank"
    /\ scanner' = "next"
    /\ NextLine /\ UNCHANGED <<Sends, link, found>>

Blank(c) == c \in {Space, Tab}

\* The key and the decoded value of a line, without blanks around the value.
parse_header(line) ==
    LET solid  == {k \in DOMAIN line : ~Blank(line[k])}
        end    == IF solid = {} THEN 0 ELSE Max(solid)
        colons == {k \in 1..end : line[k] = Colon}
        begins == {k \in solid : k > Min(colons)}
    IN IF colons = {} \/ begins = {} THEN <<>>
       ELSE <<[key |-> SubSeq(line, 1, Min(colons) - 1),
               val |-> decode_url(SubSeq(line, Min(begins), end), FALSE)]>>

\* One turn of read_headers.
ReadHeader ==
    /\ LineIsRead /\ scanner = "headers"
    /\ IF ~end_with_crlf(TheLine) THEN UNCHANGED <<scanner, found>>
       ELSE IF Len(TheLine) = 2 THEN scanner' = "ok" /\ UNCHANGED found
       ELSE /\ found' = found \o parse_header(SubSeq(TheLine, 1, Len(TheLine) - 2))
            /\ UNCHANGED scanner
    /\ NextLine /\ UNCHANGED <<Sends, link>>

HeadNext ==
    \/ SetHeader \/ Continue \/ WriteHead \/ SendHead \/ SendFails \/ SendBody \/ HangUp
    \/ AppendByte \/ GetLineFails \/ ReadFirstLine \/ ReadBlankLine \/ ReadHeader

HeadSpec == HeadInit /\ [][HeadNext]_headVars
-----------------------------------------------------------------------------
\* A value as it arrives: up to a NUL, without blanks around it, decoded; one
\* that has nothing else does not arrive.
Arrives(h) ==
    LET text  == c_str(h.val)
        solid == {k \in DOMAIN text : ~Blank(text[k])}
    IN IF solid = {} THEN <<>>
       ELSE <<[key |-> h.key,
               val |-> decode_url(SubSeq(text, Min(solid), Max(solid)), FALSE)]>>

\* The other side reads the headers that were set and no other, in their order,
\* however long they are and wherever the stream is cut; and it leaves what is
\* behind the head in the stream.  (But for a server that could send only a
\* part of the head: it goes on with the body.)
HeadersArrive ==
    scanner = "ok" /\ ~cut =>
        /\ found = FlattenSeq([k \in DOMAIN fields |-> Arrives(fields[k])])
        /\ link \in {<<>>, Behind}
=============================================================================
