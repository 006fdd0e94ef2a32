------------------------------- MODULE MCHttp -------------------------------
(***************************************************************************)
(* The messages of btor/httplib.h, for TLC: an exchange of a request and a *)
(* response, the head of a message, a content on its way, a form in        *)
(* pieces, and the encodings.                                              *)
(* The five share nothing, so that a behaviour is one of them.             *)
(***************************************************************************)
EXTENDS HttpExchange, MultipartParser, HttpBody, HttpHeaders

VARIABLE part

messageVars == <<exchangeVars, headVars, multipartVars, bodyVars, codecVars, part>>

\* Requests: every range of a content of up to three bytes and beyond it, with
\* and without its ends, and pairs and triples of ranges, and ranges whose numbers
\* do not fit into an ssize_t, or into a long long; and every framing.
Of(f, l) == [first |-> f, last |-> l]

MCRanges ==
    {<<>>} \cup {<<Of(f, l)>> : f \in -1..4, l \in -1..4}
    \cup {<<Of(f, -1), Of(g, l)>> : f \in {-1, 0, 2}, g \in {-1, 1, 3}, l \in {-1, 1, 2}}
    \cup {<<Of(0, 1), Of(1, l)>> : l \in {-1, 0, 2, 5}}
    \cup {<<Of(1, 2), Of(0, -1), Of(-1, 1)>>}
    \cup {<<Of(-1, 32)>>, <<Of(-1, 58)>>, <<Of(0, 65)>>, <<Of(63, -1)>>, <<Of(60, 2)>>,
          <<Of(0, 1), Of(62, 2)>>, <<Of(0, 1), Of(0, 128)>>}

Plain == [line |-> "good", method |-> "GET", framing |-> "none", content |-> 0,
          ranges |-> <<>>, expect |-> FALSE, close |-> FALSE]

MCRequests ==
    {[Plain EXCEPT !.method = m, !.ranges = rs] : m \in {"GET", "HEAD", "POST"}, rs \in MCRanges}
    \cup {[Plain EXCEPT !.line = l, !.method = m, !.framing = f, !.content = n,
                        !.expect = e, !.close = c] :
              l \in {"good", "bad", "long"}, m \in {"GET", "POST", "DELETE", "CONNECT"},
              f \in {"length", "chunked", "garbled"}, n \in 0..2, e \in BOOLEAN, c \in BOOLEAN}

\* Forms of one and two parts, whose contents are made of what borders are made
\* of.
MCChars == {CR, LF, Dash, "b", "x"}
MCBoundary == <<"b">>

MCContents ==
    UNION {[1..n -> {CR, LF, Dash}] : n \in 0..2}
    \cup {<<"x", CR, LF, Dash>>, <<CR, LF, Dash, Dash>>, <<CR, LF, Dash, Dash, "x">>,
          <<CR, CR, LF>>, <<Dash, Dash, "b">>}

MCParts ==
    {<<[file |-> <<<<"x">>>>, content |-> c]>> : c \in MCContents}
    \cup {<<[file |-> <<>>, content |-> <<"x">>],
            [file |-> <<<<"x">>, <<"b">>>>, content |-> c]>> : c \in {<<>>, <<CR>>}}

MCForms == {[parts |-> ps, text |-> Form(ps)] : ps \in MCParts}

\* Texts of every byte that an encoding treats in a way of its own; the code
\* points at which the length of a UTF-8 sequence changes; and paths.
MCTexts ==
    UNION {[1..n -> {Nul, Space, Percent, Ampersand, Plus, Equals, 65, LetterU, 255}] :
              n \in 0..3}
    \cup {<<1, 2, 3, 4>>, <<255, 0, 255, 0, 128>>}

MCCodes == {0, 127, 128, 2047, 2048, 55295, 55296, 57343, 57344, 65535, 65536, 1114111}

MCPaths == UNION {[1..n -> {Up, Here, "x"}] : n \in 0..4}

\* Headers with lines on both sides of the border of a buffer of 8 bytes, and of
\* one that has grown to 16; with blanks, a NUL, a line end, an escaped one, and
\* nothing in them.
Field(k, v) == [key |-> <<k>>, val |-> v]
Long(n) == [k \in 1..n |-> 120]

MCFields ==
    {Field(75, Long(n)) : n \in {1, 2, 3, 10}}
    \cup {Field(76, v) : v \in {<<>>, <<Space, 120, Tab, 120, Space>>, <<120, Nul, Cr, Lf, 75>>,
                               <<120, Cr, Lf, 75, Colon, 120>>, <<Percent, 48, 68>>}}

\* The parts that a behaviour is not of are in one state.
MessagesInit ==
    /\ part \in {"exchange", "head", "form", "content", "codec"}
    /\ (part # "exchange" => req = Plain /\ last = FALSE) /\ ExchangeInit
    /\ (part # "head" => server = TRUE) /\ HeadInit
    /\ (part # "form" => form = CHOOSE f \in Forms : TRUE) /\ MultipartInit
    /\ (part # "content" => framing = "length" /\ announced = 0) /\ BodyInit
    /\ (part # "codec" => in = <<>>) /\ CodecInit

ExchangeStep ==
    /\ part = "exchange" /\ ExchangeNext
    /\ UNCHANGED <<headVars, multipartVars, bodyVars, codecVars, part>>

HeadStep ==
    /\ part = "head" /\ HeadNext
    /\ UNCHANGED <<exchangeVars, multipartVars, bodyVars, codecVars, part>>

FormStep ==
    /\ part = "form" /\ MultipartNext
    /\ UNCHANGED <<exchangeVars, headVars, bodyVars, codecVars, part>>

ContentStep ==
    /\ part = "content" /\ BodyNext
    /\ UNCHANGED <<exchangeVars, headVars, multipartVars, codecVars, part>>

CodecStep ==
    /\ part = "codec" /\ CodecNext
    /\ UNCHANGED <<exchangeVars, headVars, multipartVars, bodyVars, part>>

MessagesNext == ExchangeStep \/ HeadStep \/ FormStep \/ ContentStep \/ CodecStep

MessagesSpec == MessagesInit /\ [][MessagesNext]_messageVars
=============================================================================
