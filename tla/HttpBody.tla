------------------------------ MODULE HttpBody ------------------------------
(***************************************************************************)
(* A content on its way: the write_content functions of one side, which    *)
(* ask a content provider for data, and the read_content functions of the  *)
(* other, which hand it to a receiver, over a stream that may be cut at    *)
(* any point.  The content is announced by its length, sent in chunks, or  *)
(* ended by the connection.                                                *)
(*                                                                         *)
(* A stream is a sequence of items: a byte of the content, which is its    *)
(* position, a line with the size of a chunk, and an empty line.  The      *)
(* connection may end inside of a line, and getline (1728) takes what it   *)
(* has of it for a line.  A size that was cut is as good as none: no data  *)
(* follows it, or no empty line.  An empty line that was cut after its CR  *)
(* is no empty line.                                                       *)
(***************************************************************************)
EXTENDS Integers, SequencesExt

CONSTANTS
    RECV_BUFSIZ,        \* CPPHTTPLIB_RECV_BUFSIZ
    MaxBody             \* bound: bytes of a content

ASSUME BodyAssumption == RECV_BUFSIZ \in Nat \ {0} /\ MaxBody \in Nat

VARIABLES
    framing,            \* "length", "chunked", "close"
    announced,          \* Content-Length
    writer,             \* "writing", or how it has ended: "done", "ended", "broken"
    offset,             \* bytes that the provider has given
    stream, eof,
    passes,             \* items of the stream that get through to the reader after eof
    reader,             \* what it reads next, or "ok", "failed"
    chunk_len, r,       \* length of the content or chunk, and what is read of it
    received

bodyVars ==
    <<framing, announced, writer, offset, stream, eof, passes, reader, chunk_len, r,
      received>>

Byte(i) == [byte |-> i]
Size(n) == [size |-> n]
Crlf == [size |-> -1]

BodyInit ==
    /\ framing \in {"length", "chunked", "close"} /\ announced \in 0..MaxBody
    /\ writer = "writing" /\ offset = 0 /\ stream = <<>>
    /\ eof = FALSE /\ passes = 0
    /\ reader = IF framing = "chunked" THEN "size" ELSE "data"
    /\ chunk_len = IF framing = "length" THEN announced ELSE 0
    /\ r = 0 /\ received = <<>>

Data(n) == [i \in 1..n |-> Byte(offset + i)]

Puts(items) == stream' = IF eof THEN stream ELSE stream \o items
Reads == UNCHANGED <<framing, announced, writer, offset, eof>>
Writes == UNCHANGED <<framing, announced, eof, passes, reader, chunk_len, r, received>>

\* Items of the stream that the reader can have, and what it has had of them.
Readable == IF eof THEN passes ELSE Len(stream)
Had(n) == passes' = IF eof THEN passes - n ELSE passes
-----------------------------------------------------------------------------
\* data_sink.write of n bytes.  A chunk has its size before it and an empty line
\* behind it; no chunk is made of nothing, and the loop ends.
Provide ==
    /\ writer = "writing"
    /\ \E n \in 0..(MaxBody - offset) :
        /\ framing = "length" => n <= announced - offset
        /\ offset' = offset + n
        /\ \/ framing # "chunked" /\ Puts(Data(n)) /\ UNCHANGED writer
           \/ /\ framing = "chunked" /\ n > 0
              /\ Puts(<<Size(n)>> \o Data(n) \o <<Crlf>>) /\ UNCHANGED writer
           \/ framing = "chunked" /\ n = 0 /\ writer' = "ended" /\ UNCHANGED stream
    /\ Writes

\* The loop over a content with a length ends.
WrittenAll ==
    /\ writer = "writing" /\ framing = "length" /\ offset = announced
    /\ writer' = "done" /\ UNCHANGED <<offset, stream>> /\ Writes

\* data_sink.done.
ProviderDone ==
    /\ writer = "writing" /\ framing # "length"
    /\ IF framing = "chunked" THEN Puts(<<Size(0), Crlf>>) ELSE UNCHANGED stream
    /\ writer' = "done" /\ UNCHANGED offset /\ Writes

\* The provider fails, or a write does; or the server is shutting down, which
\* ends the loop as if it were done.
WriterStops ==
    /\ writer = "writing" /\ writer' \in {"broken", "ended"}
    /\ UNCHANGED <<offset, stream>> /\ Writes

\* The connection ends: of what was written a part gets through, and nothing of
\* what is going to be.
Disconnect ==
    /\ ~eof /\ eof' = TRUE /\ passes' \in 0..Len(stream)
    /\ UNCHANGED <<framing, announced, writer, offset, stream, reader, chunk_len, r,
                   received>>
-----------------------------------------------------------------------------
\* read_content_chunked: a line with a size.
ReadSize ==
    /\ reader = "size" /\ stream # <<>> /\ Readable > 0
    /\ chunk_len' = Head(stream).size /\ r' = 0 /\ stream' = Tail(stream) /\ Had(1)
    /\ reader' = IF Head(stream).size = 0 THEN "terminator" ELSE "data"
    /\ UNCHANGED received /\ Reads

\* Mutant of ReadData: a buffer is a chunk.
ReadBuffer ==
    /\ reader = "data" /\ stream # <<>> /\ (framing = "close" \/ r < chunk_len)
    /\ \E n \in 1..Min({Readable, RECV_BUFSIZ}) :
        /\ received' = received \o SubSeq(stream, 1, n)
        /\ stream' = SubSeq(stream, n + 1, Len(stream)) /\ r' = r + n /\ Had(n)
    /\ UNCHANGED <<reader, chunk_len>> /\ Reads

\* strm.read in read_content_with_length and read_content_without_length: what
\* has arrived, and no more than the buffer or the content has left.
ReadData ==
    /\ reader = "data" /\ stream # <<>>
    /\ LET left == IF framing = "close" THEN RECV_BUFSIZ ELSE chunk_len - r
       IN \E n \in 1..Min({Readable, RECV_BUFSIZ, left}) :
            /\ received' = received \o SubSeq(stream, 1, n)
            /\ stream' = SubSeq(stream, n + 1, Len(stream)) /\ r' = r + n /\ Had(n)
    /\ UNCHANGED <<reader, chunk_len>> /\ Reads

\* The content, or the chunk, has been read.
DataRead ==
    /\ reader = "data" /\ framing # "close" /\ r = chunk_len
    /\ reader' = IF framing = "length" THEN "ok" ELSE "separator"
    /\ UNCHANGED <<stream, passes, chunk_len, r, received>> /\ Reads

\* The empty line behind a chunk, and the one behind the last size.
ReadCrlf ==
    /\ reader \in {"separator", "terminator"} /\ stream # <<>> /\ Head(stream) = Crlf
    /\ Readable > 0 /\ stream' = Tail(stream) /\ Had(1)
    /\ reader' = IF reader = "separator" THEN "size" ELSE "ok"
    /\ UNCHANGED <<chunk_len, r, received>> /\ Reads

\* Of the line behind a chunk only the CR has got through: the loop is left with
\* a chunk_len that is not 0, and true returned.
ReadCr ==
    /\ reader = "separator" /\ stream # <<>> /\ Head(stream) = Crlf
    /\ eof /\ passes = 0
    /\ reader' = "ok"
    /\ UNCHANGED <<stream, passes, chunk_len, r, received>> /\ Reads

\* Nothing more comes; without a length that is the end.  Or the receiver
\* refuses, or the timeout passes.
ReadEnds ==
    /\ reader \notin {"ok", "failed"}
    /\ ~(reader = "data" /\ framing # "close" /\ r = chunk_len)
    /\ \/ eof /\ passes = 0 /\ reader' = IF framing = "close" THEN "ok" ELSE "failed"
       \/ reader' = "failed"
    /\ UNCHANGED <<stream, passes, chunk_len, r, received>> /\ Reads

BodyNext ==
    \/ Provide \/ WrittenAll \/ ProviderDone \/ WriterStops \/ Disconnect
    \/ ReadSize \/ ReadData \/ DataRead \/ ReadCrlf \/ ReadCr \/ ReadEnds

BodySpec == BodyInit /\ [][BodyNext]_bodyVars
-----------------------------------------------------------------------------
\* The connection has ended in the line behind a chunk that is not the last.
BrokenOff == framing = "chunked" /\ chunk_len # 0 /\ eof /\ passes = 0

\* What is received is a beginning of what was provided, in order; and a reader
\* that reports success has it all, and has left nothing of it in the stream for
\* the next message, wherever the stream was cut and whoever gave up, but for
\* the one place where the code takes a content that was BrokenOff for a whole
\* one.  (Without a length or chunks the end of the connection cannot be told
\* from the end of the content.)
ContentArrives ==
    /\ received = [i \in DOMAIN received |-> Byte(i)] /\ Len(received) <= offset
    /\ reader = "ok" /\ framing # "close" /\ ~BrokenOff =>
        /\ Len(received) = offset /\ stream = <<>>
        /\ framing = "length" => offset = announced
        /\ framing = "chunked" => writer = "done"
=============================================================================
