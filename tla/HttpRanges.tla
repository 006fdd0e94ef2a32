----------------------------- MODULE HttpRanges -----------------------------
(***************************************************************************)
(* Ranges of a content in httplib: which bytes a Range header selects, and *)
(* how many bytes a response with several ranges has.  A size_t is a       *)
(* number modulo SizeModulus, an ssize_t has as many values on both sides  *)
(* of 0, and a long long may have more: on Win32 an ssize_t is an int      *)
(* (115).  The text around a range has PartText bytes, the text at the end *)
(* has EndText.                                                            *)
(***************************************************************************)
EXTENDS Integers, SequencesExt

CONSTANTS SizeModulus, LLONG_MAX, PartText, EndText

ASSUME RangeAssumption ==
    /\ SizeModulus \in Nat \ {0} /\ SizeModulus % 2 = 0 /\ LLONG_MAX \in Nat
    /\ PartText \in Nat /\ EndText \in Nat

\* Conversions wrap, and so does an overflow of ssize_t where it is an int.
Half == SizeModulus \div 2
ssize_t == (-Half)..(SizeModulus - 1 - Half)

size_t(i) == i % SizeModulus
to_ssize_t(i) == ((i + Half) % SizeModulus) - Half

\* A range of a header has first and last, or -1 for one that is not given.  A
\* number is read as a long long and made an ssize_t.
converted(number) == IF number = -1 THEN -1 ELSE to_ssize_t(number)
parsed(g) == [first |-> converted(g.first), last |-> converted(g.last)]

\* std::stoll throws, or a range ends before it begins.
is_range(g) ==
    /\ g.first <= LLONG_MAX /\ g.last <= LLONG_MAX
    /\ LET r == parsed(g) IN ~(r.first # -1 /\ r.last # -1 /\ r.first > r.last)

parse_range_header(ranges) == \A i \in DOMAIN ranges : is_range(ranges[i])

\* Request::ranges.
parsed_ranges(ranges) == [i \in DOMAIN ranges |-> parsed(ranges[i])]

range_begin(r, slen) ==
    IF r.first = -1 THEN Max({0, to_ssize_t(slen - r.last)}) ELSE r.first

range_end(r, slen) ==
    IF r.first = -1 \/ r.last = -1 THEN slen - 1 ELSE r.last

\* Mutant of get_range_offset_and_length: the last byte is not counted.
get_range_short(r, content_length) ==
    LET first == range_begin(r, content_length)
    IN [offset |-> size_t(first), length |-> size_t(range_end(r, content_length) - first)]

get_range_offset_and_length(r, content_length) ==
    IF r.first = -1 /\ r.last = -1 THEN [offset |-> 0, length |-> content_length]
    ELSE LET first == range_begin(r, content_length)
         IN [offset |-> size_t(first),
             length |-> size_t(size_t(range_end(r, content_length) - first) + 1)]

\* std::string::substr, from an offset inside of it.
substr(s, offset, length) == SubSeq(s, offset + 1, Min({offset + length, Len(s)}))

\* The text around a part.  A byte of a content is its position; 0 is none.
Text(n) == [i \in 1..n |-> 0]

\* process_multipart_ranges_data: before the bytes of each part, the text of its
\* header.
process_multipart_ranges_data(parts) ==
    FoldLeft(LAMBDA data, part : data \o Text(PartText) \o part, <<>>, parts)
        \o Text(EndText)

\* make_multipart_ranges_data fails when a range begins behind the content.
make_multipart_ranges_data(ranges, body) ==
    LET o(i) == get_range_offset_and_length(ranges[i], Len(body))
    IN IF \A i \in DOMAIN ranges : o(i).offset < Len(body)
       THEN [ok |-> TRUE,
             data |-> process_multipart_ranges_data(
                 [i \in DOMAIN ranges |-> substr(body, o(i).offset, o(i).length)])]
       ELSE [ok |-> FALSE, data |-> <<>>]

\* get_multipart_ranges_data_length: the body is empty when a provider has the
\* content, so that offsets are those of an empty content.
PartsTotal(ranges) ==
    FoldLeft(LAMBDA sum, g : sum + PartText + get_range_offset_and_length(g, 0).length,
             EndText, ranges)

get_multipart_ranges_data_length(ranges) == size_t(PartsTotal(ranges))

\* write_content: what a provider whose content goes on for ever is asked for.
\* The end of the range is a size_t.
write_content(offset, length) ==
    [i \in 1..(size_t(offset + length) - offset) |-> offset + i]

write_multipart_ranges_data(ranges) ==
    LET o(i) == get_range_offset_and_length(ranges[i], 0)
    IN process_multipart_ranges_data(
           [i \in DOMAIN ranges |-> write_content(o(i).offset, o(i).length)])

\* No range without an end begins behind n bytes: the length of such a one is a
\* negative number in a size_t.
NotPast(ranges, n) ==
    \A i \in DOMAIN ranges : ~(ranges[i].last = -1 /\ ranges[i].first > n)

\* The numbers of a range are given as they are read.
Fits(g) == g.first \in ssize_t /\ g.last \in ssize_t
-----------------------------------------------------------------------------
\* The bytes that RFC 7233 gives for a range of n bytes.
Selected(r, n) ==
    {i \in 0..(n - 1) :
        CASE r.first = -1 /\ r.last = -1 -> TRUE
          [] r.first = -1 /\ r.last # -1 -> i >= n - r.last
          [] r.first # -1 /\ r.last = -1 -> i >= r.first
          [] OTHER                       -> r.first <= i /\ i <= r.last}
=============================================================================
