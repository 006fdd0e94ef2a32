---------------------------- MODULE HttpExchange ----------------------------
(***************************************************************************)
(* One request of a connection through httplib::Server: process_request,   *)
(* routing, the reading of the content, and write_response.  A request and *)
(* a response are what their framing tells apart: how the length of the    *)
(* content is announced, and how much content there is.                    *)
(***************************************************************************)
EXTENDS HttpRanges

CONSTANTS
    MaxContent,         \* bound: bytes of a content
    payload_max_length_,
    Requests            \* what clients send

VARIABLES
    at,             \* "line", "route", "answer", "write", "written"
    req, res,
    unread,         \* what the server has not read of the request
    routed,         \* "no", or by whom: "early", "reader", "handler"
    last,           \* close_connection: the last request of the connection
    answered,       \* history: the bytes of the body before ranges
    wire            \* the response as it was written

exchangeVars == <<at, req, res, unread, routed, last, answered, wire>>

NoLength == -1

\* A request: how its line is, its method, the framing of its content and the
\* bytes of it, its ranges as the header gives them, and whether it has Expect:
\* 100-continue and Connection: close.  Chunks are "garbled" when the line behind
\* one is not empty, which ends the reading of them (2843).
RequestType ==
    [line : {"good", "bad", "long"},
     method : {"GET", "HEAD", "POST", "DELETE", "CONNECT", "unknown"},
     framing : {"none", "length", "chunked", "garbled"}, content : Nat,
     ranges : Seq([first : Nat \cup {-1}, last : Nat \cup {-1}]),
     expect : BOOLEAN, close : BOOLEAN]

\* A content is shorter than an ssize_t can say.
ASSUME ExchangeAssumption ==
    /\ MaxContent \in Nat /\ MaxContent \in ssize_t /\ payload_max_length_ \in Nat
    /\ Requests \subseteq RequestType

\* What the program behind the server, its error handler too, makes of a
\* response: a body, or a provider with a length, for chunks, or for an unknown
\* length.
Empty == [status |-> "unset", body |-> <<>>, provider |-> "none", content_length_ |-> 0,
          length |-> NoLength, chunked |-> FALSE]

Bytes(n) == [i \in 1..n |-> i]

Answers ==
    {Empty}
    \cup {[Empty EXCEPT !.body = Bytes(n)] : n \in 1..MaxContent}
    \cup {[Empty EXCEPT !.provider = "length", !.content_length_ = n] : n \in 1..MaxContent}
    \cup {[Empty EXCEPT !.provider = p] : p \in {"chunked", "unknown"}}

NoWire == [length |-> NoLength, chunked |-> FALSE, content |-> <<>>, close |-> FALSE,
           truncated |-> FALSE]

ExchangeInit ==
    /\ at = "line" /\ req \in Requests /\ last \in BOOLEAN
    /\ res = Empty /\ routed = "no"
    /\ unread = "request" /\ wire = NoWire /\ answered = 0

\* The response is decided.
Responds(status) == at' = "write" /\ res' = [res EXCEPT !.status = status]

Content(r) == IF r.content = 0 THEN "nothing" ELSE "content"

\* What the server knows of a request whose line it has not parsed.
Unparsed == [req EXCEPT !.method = "unknown", !.ranges = <<>>, !.close = FALSE]

\* A request line that is too long: the headers are read, and dropped.
LongLine ==
    /\ at = "line" /\ req.line = "long"
    /\ Responds("error") /\ unread' = Content(req)
    /\ req' = Unparsed
    /\ UNCHANGED <<routed, last, answered, wire>>

\* One that cannot be parsed, after which no headers are read, or a header that
\* cannot be, after which no more are.
BadLine ==
    /\ at = "line" /\ req.line = "bad"
    /\ Responds("error") /\ unread' = "headers"
    /\ \/ req' = Unparsed
       \/ \E c \in {FALSE, req.close} : req' = [req EXCEPT !.ranges = <<>>, !.close = c]
    /\ UNCHANGED <<routed, last, answered, wire>>

\* A range that is none; those before it stay.
BadRange ==
    /\ at = "line" /\ req.line = "good" /\ ~parse_range_header(req.ranges)
    /\ Responds("error") /\ unread' = Content(req)
    /\ \E n \in 1..Len(req.ranges) :
        /\ parse_range_header(SubSeq(req.ranges, 1, n - 1))
        /\ ~parse_range_header(SubSeq(req.ranges, 1, n))
        /\ req' = [req EXCEPT !.ranges = SubSeq(@, 1, n - 1)]
    /\ UNCHANGED <<routed, last, answered, wire>>

\* Request line and headers are read, and Expect: 100-continue is answered: by
\* 100 or 417, after which the request is routed, or by a response.
Headers ==
    /\ at = "line" /\ req.line = "good" /\ parse_range_header(req.ranges)
    /\ unread' = Content(req)
    /\ \/ at' = "route" /\ UNCHANGED res
       \/ req.expect /\ Responds("error")
    /\ UNCHANGED <<req, routed, last, answered, wire>>
-----------------------------------------------------------------------------
\* A handler answers, or throws: then the response is what it, or the exception
\* handler, has made of it.
Handled(by, thrown) ==
    /\ at' = "write"
    /\ \/ routed' = by /\ res' \in Answers
       \/ \E a \in Answers :
            res' = [a EXCEPT !.status = thrown] /\ UNCHANGED routed
    /\ answered' = Len(res'.body)

\* The pre-routing handler, or the file handler for GET and HEAD.
RouteEarly ==
    /\ at = "route" /\ Handled("early", "thrown early")
    /\ UNCHANGED <<req, unread, last, wire>>

expect_content(r) == r.method \in {"POST", "DELETE"}

\* A handler that reads the content itself, as much of it as it likes.
RouteReader ==
    /\ at = "route" /\ expect_content(req) /\ Handled("reader", "thrown early")
    /\ unread' \in {unread, "nothing"}
    /\ UNCHANGED <<req, last, wire>>

\* Mutant of RouteContent: skip_content_with_length is left out.
RouteContentUnskipped ==
    /\ at = "route" /\ expect_content(req)
    /\ \/ at' = "answer" /\ UNCHANGED <<unread, res>>
          /\ \/ req.method = "DELETE" /\ req.framing # "length"
             \/ req.framing = "garbled"
       \/ Responds("refused") /\ unread' \in {unread, "nothing"}
       \/ /\ req.method # "DELETE" \/ req.framing = "length"
          /\ req.framing # "garbled"
          /\ IF req.framing = "length" /\ req.content > payload_max_length_
             THEN Responds("too large") /\ UNCHANGED unread
             ELSE at' = "answer" /\ unread' = "nothing" /\ UNCHANGED res
    /\ UNCHANGED <<req, routed, last, answered, wire>>

\* read_content: nothing is read for DELETE without a length; chunks are read as
\* far as a garbled line; a content is refused, before it is read or after it,
\* for its encoding, its boundary, its form or a chunk without a size; one that
\* is too long is skipped; any other is read, one without an announced length to
\* the end of the connection.
RouteContent ==
    /\ at = "route" /\ expect_content(req)
    /\ \/ at' = "answer" /\ UNCHANGED <<unread, res>>
          /\ \/ req.method = "DELETE" /\ req.framing # "length"
             \/ req.framing = "garbled"
       \/ Responds("refused") /\ unread' \in {unread, "nothing"}
       \/ /\ req.method # "DELETE" \/ req.framing = "length"
          /\ req.framing # "garbled"
          /\ unread' = "nothing"
          /\ IF req.framing = "length" /\ req.content > payload_max_length_
             THEN Responds("too large")
             ELSE at' = "answer" /\ UNCHANGED res
    /\ UNCHANGED <<req, routed, last, answered, wire>>

\* The other methods have no content to the server.
RouteOther ==
    /\ at = "route" /\ ~expect_content(req)
    /\ IF req.method \in {"GET", "HEAD"} THEN at' = "answer" /\ UNCHANGED res
       ELSE Responds("error")
    /\ UNCHANGED <<req, unread, routed, last, answered, wire>>

\* dispatch_request: a handler answers or throws, or there is none.
Answer ==
    /\ at = "answer"
    /\ \/ Handled("handler", "thrown")
       \/ Responds("not found") /\ UNCHANGED <<routed, answered>>
    /\ UNCHANGED <<req, unread, last, wire>>
-----------------------------------------------------------------------------
\* apply_ranges: the body is cut, and the length of the content announced.
apply_ranges(ranges, r) ==
    IF r.body # <<>>
    THEN LET one  == get_range_offset_and_length(ranges[1], Len(r.body))
             many == make_multipart_ranges_data(ranges, r.body)
             body == CASE Len(ranges) = 0 -> r.body
                       [] Len(ranges) = 1 ->
                            IF one.offset < Len(r.body)
                            THEN substr(r.body, one.offset, one.length) ELSE <<>>
                       [] OTHER -> many.data
         IN [r EXCEPT !.body = body, !.length = Len(body)]
    ELSE IF r.content_length_ > 0
    THEN [r EXCEPT !.length =
            CASE Len(ranges) = 0 -> r.content_length_
              [] Len(ranges) = 1 ->
                    get_range_offset_and_length(ranges[1], r.content_length_).length
              [] OTHER -> get_multipart_ranges_data_length(ranges)]
    ELSE [r EXCEPT !.chunked = (r.provider = "chunked")]

\* The headers that write_response_core adds.
with_length(r) ==
    IF r.length = NoLength /\ r.body = <<>> /\ r.provider = "none"
    THEN [r EXCEPT !.length = 0] ELSE r

\* write_content_with_provider; a provider without a length gives what it likes.
provided(ranges, r) ==
    IF r.provider # "length" THEN Bytes(1)
    ELSE CASE Len(ranges) = 0 -> write_content(0, r.content_length_)
           [] Len(ranges) = 1 ->
                LET o == get_range_offset_and_length(ranges[1], r.content_length_)
                IN write_content(o.offset, o.length)
           [] OTHER -> write_multipart_ranges_data(ranges)

\* write_response_core of a response r.
written(r) ==
    LET writes == req.method # "HEAD"
    IN [length |-> r.length, chunked |-> r.chunked,
        content |-> CASE writes /\ r.body # <<>> -> r.body
                      [] writes /\ r.body = <<>> /\ r.provider # "none" ->
                            provided(parsed_ranges(req.ranges), r)
                      [] OTHER -> <<>>,
        close |-> last \/ req.close, truncated |-> FALSE]

\* Ranges are applied to a response of a routed request, and to one that the
\* error handler has made.
WriteResponse ==
    /\ at = "write" /\ at' = "written"
    /\ LET ranges == parsed_ranges(req.ranges)
       IN \/ res' = with_length(IF routed # "no" THEN apply_ranges(ranges, res) ELSE res)
          \/ /\ res.status # "unset"
             /\ \E n \in 0..MaxContent :
                   res' = with_length(apply_ranges(ranges, [res EXCEPT !.body = Bytes(n)]))
    /\ LET asked == req.method # "HEAD" /\ res'.body = <<>> /\ res'.provider # "none"
       IN \/ wire' = written(res')
          \* The server stops: the provider is not asked any more.
          \/ asked /\ wire' = [written(res') EXCEPT !.content = <<>>, !.truncated = TRUE]
          \* The provider fails: the connection ends.
          \/ asked /\ wire' = [written(res') EXCEPT !.content = <<>>, !.truncated = TRUE,
                                                   !.close = TRUE]
    /\ UNCHANGED <<req, unread, routed, last, answered>>

ExchangeNext ==
    \/ LongLine \/ BadLine \/ BadRange \/ Headers \/ RouteEarly \/ RouteReader
    \/ RouteContent \/ RouteOther \/ Answer \/ WriteResponse

ExchangeSpec == ExchangeInit /\ [][ExchangeNext]_exchangeVars
-----------------------------------------------------------------------------
\* The content of the request was read before it was routed: a regular handler
\* has answered or thrown, or there was none; or it was skipped for its length.
\* It was not, and may be left for the next request, when the request is no good,
\* its method has none to the server, or DELETE no length; when Expect was
\* answered otherwise, an early handler or one with a reader has answered or
\* thrown, or the content was refused; and when it is garbled.
ContentExpected ==
    /\ expect_content(req) /\ (req.method = "DELETE" => req.framing = "length")
    /\ req.framing # "garbled"
    /\ routed = "handler" \/ res.status \in {"too large", "thrown", "not found"}

\* What a provider with a length is asked for is not what was announced: a number
\* of a range does not fit into an ssize_t,
Narrowed == \E i \in DOMAIN req.ranges : ~Fits(req.ranges[i])

\* or a range begins behind what the provider's offsets are counted in,
OpenPast == ~NotPast(req.ranges, IF Len(req.ranges) = 1 THEN res.content_length_ ELSE 0)

\* or several ranges have more bytes than a size_t can count.
Uncounted == Len(req.ranges) > 1 /\ PartsTotal(req.ranges) >= SizeModulus

Miscounted ==
    /\ res.provider = "length" /\ res.body = <<>>
    /\ Narrowed \/ OpenPast \/ Uncounted

\* On a connection that goes on, client and server agree where the messages
\* end: no byte of a content that was to be read is left for the next request,
\* and the response has as many bytes as it announces, or chunks.  (The latter
\* not when the server stops or the provider fails, a handler throws, a provider
\* has neither a length nor chunks, or is Miscounted.)
FramingKept ==
    at = "written" /\ ~wire.close =>
        /\ ContentExpected => unread = "nothing"
        /\ ~(\/ wire.truncated \/ res.status \in {"thrown", "thrown early"}
             \/ res.provider = "unknown" \/ Miscounted) =>
               \/ req.method = "HEAD" /\ wire.content = <<>>
               \/ wire.length = Len(wire.content)
               \/ wire.length = NoLength /\ wire.chunked

\* The bytes of a content of n bytes that a range selects, in their order.
Picked(g, n) ==
    FlattenSeq([i \in 1..n |-> IF i - 1 \in Selected(g, n) THEN <<i>> ELSE <<>>])

\* A body is answered with the bytes that the ranges select, several each behind
\* the text of its part, or with nothing when some range selects none.  (Narrowed
\* ranges select what is left of their numbers.)
RangesExact ==
    at = "written" /\ routed # "no" /\ req.method # "HEAD" /\ res.provider = "none"
        /\ ~Narrowed =>
        LET ranges == req.ranges
            none   == \E i \in DOMAIN ranges : Selected(ranges[i], answered) = {}
            part   == [i \in DOMAIN ranges |-> Text(PartText) \o Picked(ranges[i], answered)]
        IN wire.content =
               IF ranges = <<>> THEN Bytes(answered)
               ELSE IF none THEN <<>>
               ELSE IF Len(ranges) = 1 THEN Picked(ranges[1], answered)
               ELSE FlattenSeq(part) \o Text(EndText)
=============================================================================
