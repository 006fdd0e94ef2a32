-------------------------- MODULE MultipartParser --------------------------
(***************************************************************************)
(* MultipartFormDataParser of btor/httplib.h: it is handed a form in the   *)
(* pieces in which it arrives, and hands on the parts.  One action is one  *)
(* turn of the switch in parse().                                          *)
(*                                                                         *)
(* The bytes are CR, LF, the dash, those of the boundary and of names, and *)
(* any other.  Of a header line only its bytes are kept.                   *)
(* The forms are those that a client may write: a boundary of letters,     *)
(* digits and dashes that is in no content, and header lines that are      *)
(* lines.                                                                  *)
(***************************************************************************)
EXTENDS Integers, SequencesExt

CONSTANTS
    Chars,      \* the bytes
    boundary_,
    Forms       \* what arrives: the parts, and the bytes that are made of them

VARIABLES
    form,       \* the form that arrives
    rest,       \* its bytes that have not arrived
    pieces,     \* history: pieces that have come; 2 is any more
    parsing,    \* inside of parse()
    buf_, state_, is_valid_,
    file_,      \* the header lines of the part that is read
    parts,      \* what the callbacks have got
    refused     \* parse() has returned false

multipartVars ==
    <<form, rest, pieces, parsing, buf_, state_, is_valid_, file_, parts, refused>>

CR == "CR"
LF == "LF"
Dash == "-"
crlf_ == <<CR, LF>>
dash_ == <<Dash, Dash>>
Border == crlf_ \o dash_ \o boundary_

StartsAt(s, pos, pattern) ==
    pos + Len(pattern) - 1 <= Len(s) /\ SubSeq(s, pos, pos + Len(pattern) - 1) = pattern

Holds(s, pattern) == \E pos \in DOMAIN s : StartsAt(s, pos, pattern)

\* A form as a client writes it: each part is behind a border.
Lines(file) == FlattenSeq([i \in DOMAIN file |-> file[i] \o crlf_])
FormPart(p) == crlf_ \o Lines(p.file) \o crlf_ \o p.content \o Border
Form(ps) ==
    dash_ \o boundary_ \o FlattenSeq([i \in DOMAIN ps |-> FormPart(ps[i])]) \o dash_ \o crlf_

IsLine(line) == line # <<>> /\ ~Holds(line, crlf_)

ASSUME FormAssumption ==
    /\ {CR, LF, Dash} \subseteq Chars
    /\ boundary_ \in Seq(Chars) /\ boundary_ # <<>>
    /\ \A k \in DOMAIN boundary_ : boundary_[k] # CR
    /\ \A f \in Forms :
        /\ f.parts \in Seq([file : Seq(Seq(Chars)), content : Seq(Chars)])
        /\ f.text = Form(f.parts)
        /\ \A i \in DOMAIN f.parts :
            /\ \A j \in DOMAIN f.parts[i].file : IsLine(f.parts[i].file[j])
            /\ ~Holds(f.parts[i].content, Border)

MultipartInit ==
    /\ form \in Forms /\ rest = form.text
    /\ pieces = 0 /\ parsing = FALSE /\ buf_ = <<>> /\ state_ = 0
    /\ is_valid_ = FALSE /\ file_ = <<>> /\ parts = <<>> /\ refused = FALSE

\* std::string::find, counted from 0; the length of s for npos.
find(s, pattern) ==
    LET found == {pos \in 1..Len(s) : StartsAt(s, pos, pattern)}
    IN IF found = {} THEN Len(s) ELSE Min(found) - 1

\* Mutant of find_string: the pattern is to be whole.
find_string_whole(s, pattern) == find(s, pattern)

\* The pattern, or its first byte so near to the end that it may be cut off.
find_string(s, pattern) ==
    LET found == {pos \in 1..Len(s) :
                     /\ s[pos] = Head(pattern)
                     /\ Len(pattern) > Len(s) - pos + 1 \/ StartsAt(s, pos, pattern)}
    IN IF found = {} THEN Len(s) ELSE Min(found) - 1

erase(s, n) == SubSeq(s, n + 1, Len(s))

\* content_callback: appended to the part.
Gets(ps, bytes) ==
    [ps EXCEPT ![Len(ps)] = [file |-> @.file, content |-> @.content \o bytes]]

Reading(state) == parsing /\ ~refused /\ buf_ # <<>> /\ state_ = state
Waits == parsing' = FALSE /\ UNCHANGED <<buf_, state_, is_valid_, file_, parts, refused>>
Refuses == refused' = TRUE /\ parsing' = FALSE /\ UNCHANGED <<buf_, state_, file_, parts>>
-----------------------------------------------------------------------------
\* A piece arrives, and parse() appends it to the buffer.
Piece ==
    /\ ~parsing /\ ~refused
    /\ \E n \in 1..Len(rest) :
        buf_' = buf_ \o SubSeq(rest, 1, n) /\ rest' = erase(rest, n)
    /\ parsing' = TRUE /\ pieces' = Min({pieces + 1, 2})
    /\ UNCHANGED <<form, state_, is_valid_, file_, parts, refused>>

\* The buffer is empty: parse() returns.
Exhausted ==
    /\ parsing /\ buf_ = <<>> /\ parsing' = FALSE
    /\ UNCHANGED <<form, rest, pieces, buf_, state_, is_valid_, file_, parts, refused>>

InitialBoundary ==
    /\ Reading(0)
    /\ LET pattern == dash_ \o boundary_ \o crlf_
       IN IF Len(pattern) > Len(buf_) THEN Waits
          ELSE IF find(buf_, pattern) # 0 THEN Refuses /\ UNCHANGED is_valid_
          ELSE /\ buf_' = erase(buf_, Len(pattern)) /\ state_' = 1
               /\ UNCHANGED <<parsing, is_valid_, file_, parts, refused>>
    /\ UNCHANGED <<form, rest, pieces>>

NewEntry ==
    /\ Reading(1) /\ file_' = <<>> /\ state_' = 2
    /\ UNCHANGED <<form, rest, pieces, parsing, buf_, is_valid_, parts, refused>>

\* One header line; the empty line ends them, and header_callback is called.
HeaderLine ==
    /\ Reading(2)
    /\ LET pos == find(buf_, crlf_)
       IN IF pos = Len(buf_) THEN Waits
          ELSE /\ buf_' = erase(buf_, pos + 2)
               /\ IF pos = 0
                  THEN /\ state_' = 3 /\ UNCHANGED file_
                       /\ parts' = Append(parts, [file |-> file_, content |-> <<>>])
                  ELSE /\ file_' = Append(file_, SubSeq(buf_, 1, pos))
                       /\ UNCHANGED <<state_, parts>>
               /\ UNCHANGED <<parsing, is_valid_, refused>>
    /\ UNCHANGED <<form, rest, pieces>>

\* The content up to something that looks like a border; then the border, or
\* as many bytes of content as it would have.
Body ==
    /\ Reading(3)
    /\ IF Len(crlf_ \o dash_) > Len(buf_) THEN Waits
       ELSE LET before == find_string(buf_, crlf_ \o dash_)
                first  == Gets(parts, SubSeq(buf_, 1, before))
                buf    == erase(buf_, before)
                pos    == find(buf, Border)
            IN IF Len(Border) > Len(buf)
               THEN /\ parts' = first /\ buf_' = buf /\ parsing' = FALSE
                    /\ UNCHANGED <<state_, is_valid_, file_, refused>>
               ELSE /\ IF pos # Len(buf)
                       THEN /\ parts' = Gets(first, SubSeq(buf, 1, pos))
                            /\ buf_' = erase(buf, pos + Len(Border)) /\ state_' = 4
                       ELSE /\ parts' = Gets(first, SubSeq(buf, 1, Len(Border)))
                            /\ buf_' = erase(buf, Len(Border)) /\ UNCHANGED state_
                    /\ UNCHANGED <<parsing, is_valid_, file_, refused>>
    /\ UNCHANGED <<form, rest, pieces>>

\* Behind a border: the next part, the end, or nothing that is known.
Boundary ==
    /\ Reading(4)
    /\ IF Len(buf_) < 2 THEN Waits
       ELSE IF StartsAt(buf_, 1, crlf_)
       THEN /\ buf_' = erase(buf_, 2) /\ state_' = 1
            /\ UNCHANGED <<parsing, is_valid_, file_, parts, refused>>
       ELSE IF StartsAt(buf_, 1, dash_ \o crlf_)
       THEN /\ buf_' = erase(buf_, 4) /\ state_' = 5 /\ is_valid_' = TRUE
            /\ UNCHANGED <<parsing, file_, parts, refused>>
       ELSE Waits
    /\ UNCHANGED <<form, rest, pieces>>

\* Bytes behind the end.
Done ==
    /\ Reading(5) /\ Refuses /\ is_valid_' = FALSE
    /\ UNCHANGED <<form, rest, pieces>>

\* A callback of the caller refuses a part.
CallbackRefuses ==
    /\ parsing /\ ~refused /\ state_ \in {2, 3} /\ Len(crlf_ \o dash_) <= Len(buf_)
    /\ Refuses /\ is_valid_' = FALSE
    /\ UNCHANGED <<form, rest, pieces>>

MultipartNext ==
    \/ Piece \/ Exhausted \/ InitialBoundary \/ NewEntry \/ HeaderLine \/ Body \/ Boundary
    \/ Done \/ CallbackRefuses

MultipartSpec == MultipartInit /\ [][MultipartNext]_multipartVars
-----------------------------------------------------------------------------
\* However a form arrives, the parts that were written are the parts that are
\* read, and the form is valid when it has arrived whole and not before.  (Not so
\* for a content that contains CR LF - - and arrives in pieces: behind such bytes
\* as many as a border has are taken for content, with the beginning of a border
\* among them.)
PartsArrive ==
    LET clean == \A i \in DOMAIN form.parts :
                    ~Holds(form.parts[i].content, crlf_ \o dash_)
    IN (clean \/ (pieces = 1 /\ rest = <<>>)) /\ ~parsing /\ ~refused
       => /\ is_valid_ <=> rest = <<>>
          /\ rest = <<>> => parts = form.parts
=============================================================================
