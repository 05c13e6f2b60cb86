---------------------------- MODULE RequestReader ----------------------------
(***************************************************************************)
(* http.rs: how a connection's thread reads a request and takes it apart.  *)
(*                                                                         *)
(* The bytes of a request come in reads of any size and may end anywhere.  *)
(* A byte is [kind, n]: one end-of-line character, the n-th byte of the    *)
(* body, the first byte of a line, which says what is in the line, or any  *)
(* other.  The query of the request line is kept beside, as a sequence of  *)
(* characters; a key is one character.                                     *)
(***************************************************************************)
EXTENDS Integers, Sequences, SequencesExt, FiniteSetsExt

CONSTANTS
    MaxReqHead,  \* MAX_HEAD
    MaxReqBody,  \* MAX_BODY
    ReadSize     \* the buffer of one read

ASSUME RequestLimits ==
    MaxReqHead \in Nat /\ MaxReqBody \in Nat /\ ReadSize \in Nat \ {0}

VARIABLES
    incoming,  \* the bytes that are still to come; then the end, or silence
    buffer,    \* the bytes read
    receiver,  \* where read_request is, and its local variables
    asked      \* the request as the client meant it (auxiliary)

receiveVars == <<incoming, buffer, receiver, asked>>

NotYet   == [at |-> "head", head |-> <<>>, need |-> 0, body |-> <<>>]
NotAsked == [head |-> <<>>, need |-> 0, sound |-> TRUE, whole |-> TRUE]

Byte(kind) == [kind |-> kind, n |-> 0]
CR == Byte("cr")
LF == Byte("lf")

\* The parts of s between the occurrences of c; d is its next character.
Parts(parts, c, d) ==
    IF d = c THEN Append(parts, <<>>) ELSE Append(Front(parts), Append(Last(parts), d))
Split(c, s) ==
    LET parts[i \in 0 .. Len(s)] == IF i = 0 THEN << <<>> >> ELSE Parts(parts[i - 1], c, s[i])
    IN  parts[Len(s)]

-----------------------------------------------------------------------------
(* Reading                                                                  *)

\* head_end: the first place where one of the two blank lines begins.
BlankLines == {<<CR, LF, CR, LF>>, <<LF, LF>>}
BlankFrom(i) == {blank \in BlankLines : IsPrefix(blank, SubSeq(buffer, i + 1, Len(buffer)))}
HeadEnds == {i \in 0 .. Len(buffer) : BlankFrom(i) # {}}

Unreadable == receiver' = [NotYet EXCEPT !.at = "unreadable"] /\ buffer' = <<>> /\ incoming' = <<>>

\* A read returns at least one byte, or the client has closed or says nothing.
Reads ==
    \/ \E n \in 1 .. Min({ReadSize, Len(incoming)}) :
           /\ buffer' = buffer \o SubSeq(incoming, 1, n)
           /\ incoming' = SubSeq(incoming, n + 1, Len(incoming))
           /\ UNCHANGED receiver
    \/ incoming = <<>> /\ Unreadable

TrimCr(line) == SubSeq(line, 1, Max({0} \cup {i \in DOMAIN line : line[i] # CR}))
LinesOf(head) == LET lines == Split(LF, head) IN [i \in DOMAIN lines |-> TrimCr(lines[i])]

\* parse_head: the first line is a request, every other one empty or a header.
Starts(line, kinds) == line # <<>> /\ line[1].kind \in kinds
WellFormed(lines) ==
    /\ Starts(lines[1], {"request"})
    /\ \A i \in 2 .. Len(lines) : lines[i] = <<>> \/ Starts(lines[i], {"header", "length", "bad length"})

\* The first Content-Length counts; a value may be no number.
Lengths(lines) == {i \in DOMAIN lines : Starts(lines[i], {"length", "bad length"})}
BodyLine(lines) == lines[Min(Lengths(lines))][1]
Need(lines) == IF Lengths(lines) = {} THEN 0 ELSE BodyLine(lines).n
Acceptable(lines) ==
    /\ WellFormed(lines)
    /\ Lengths(lines) # {} => BodyLine(lines).kind = "length"
    /\ Need(lines) <= MaxReqBody

ReadHead ==
    /\ receiver.at = "head"
    /\ \/ /\ HeadEnds # {}
          /\ LET end   == Min(HeadEnds)
                 head  == SubSeq(buffer, 1, end)
                 blank == CHOOSE b \in BlankFrom(end) : TRUE
             IN  IF Acceptable(LinesOf(head))
                 THEN /\ receiver' = [receiver EXCEPT !.at = "body", !.head = head,
                                                      !.need = Need(LinesOf(head))]
                      /\ buffer' = SubSeq(buffer, end + Len(blank) + 1, Len(buffer))
                      /\ UNCHANGED incoming
                 ELSE Unreadable
       \/ HeadEnds = {} /\ Len(buffer) > MaxReqHead /\ Unreadable
       \/ HeadEnds = {} /\ Len(buffer) <= MaxReqHead /\ Reads

ReadBody ==
    /\ receiver.at = "body"
    /\ \/ Len(buffer) < receiver.need /\ Reads
       \/ /\ Len(buffer) >= receiver.need
          /\ receiver' = [receiver EXCEPT !.at = "read", !.body = SubSeq(buffer, 1, receiver.need)]
          /\ buffer' = <<>> /\ incoming' = <<>>

Receive == (ReadHead \/ ReadBody) /\ UNCHANGED asked

-----------------------------------------------------------------------------
(* The query                                                                *)

Hex == {"0", "1", "2", "3", "4", "5", "6", "7", "8", "9", "B", "C", "D", "E", "F", "a"}

\* What %XX stands for; the halves of tags and control characters have one code
\* each, and all bytes from 80 on are one.
Escape == [c \in {" ", "%", "&", "(", ")", "+", "-", ".", "/", "=", "^", "{", "|", "}",
                  "<thi", "</thi", "nk>", "tab", "rune"} |->
    CASE c = " " -> <<"2", "0">>    [] c = "%" -> <<"2", "5">>     [] c = "&" -> <<"2", "6">>
      [] c = "(" -> <<"2", "8">>    [] c = ")" -> <<"2", "9">>     [] c = "+" -> <<"2", "B">>
      [] c = "-" -> <<"2", "D">>    [] c = "." -> <<"2", "E">>     [] c = "/" -> <<"2", "F">>
      [] c = "=" -> <<"3", "D">>    [] c = "^" -> <<"5", "E">>     [] c = "{" -> <<"7", "B">>
      [] c = "|" -> <<"7", "C">>    [] c = "}" -> <<"7", "D">>     [] c = "<thi" -> <<"3", "C">>
      [] c = "nk>" -> <<"3", "E">>  [] c = "</thi" -> <<"3", "F">> [] c = "tab" -> <<"0", "9">>
      [] OTHER -> <<"9", "9">>]
Escaped(hex) == LET found == {c \in DOMAIN Escape : Escape[c] = hex}
                IN  IF found = {} THEN "rune" ELSE CHOOSE c \in found : TRUE

\* One character more: an escape counts where it begins, and its digits are
\* passed over; what is no escape is left as it is.
IsEscape(s, i) == i + 2 <= Len(s) /\ s[i] = "%" /\ {s[i + 1], s[i + 2]} \subseteq Hex
Decodes(decoded, s, i) ==
    IF decoded.skip > 0 THEN [decoded EXCEPT !.skip = @ - 1]
    ELSE IF IsEscape(s, i)
    THEN [out |-> Append(decoded.out, Escaped(<<s[i + 1], s[i + 2]>>)), skip |-> 2]
    ELSE [decoded EXCEPT !.out = Append(@, IF s[i] = "+" THEN " " ELSE s[i])]
PercentDecode(s) ==
    LET decoded[i \in 0 .. Len(s)] == IF i = 0 THEN [out |-> <<>>, skip |-> 0]
                                      ELSE Decodes(decoded[i - 1], s, i)
    IN  decoded[Len(s)].out

\* A part is split at its first "=", and decoded only then.
Parameter(part) ==
    LET cut == Min({Len(part) + 1} \cup {i \in DOMAIN part : part[i] = "="})
    IN  [key |-> PercentDecode(SubSeq(part, 1, cut - 1)),
         val |-> PercentDecode(SubSeq(part, cut + 1, Len(part)))]

\* Empty parts are left out.
Parameters(parts) ==
    FlattenSeq([i \in DOMAIN parts |-> IF parts[i] = <<>> THEN <<>> ELSE <<Parameter(parts[i])>>])

\* Mutant of ParseQuery: the query is decoded before it is split.
ParseQuery_DecodedFirst(query) == Parameters(Split("&", PercentDecode(query)))

ParseQuery(query) == Parameters(Split("&", query))

-----------------------------------------------------------------------------
(* What a client sends                                                      *)

Eol(style) == IF style = "crlf" THEN <<CR, LF>> ELSE <<LF>>

\* The lines with an end of line between them, then a blank line, then a body.
SentHead(c) == c.lines[1] \o FlattenSeq([i \in 1 .. Len(c.lines) - 1 |-> Eol(c.eol) \o c.lines[i + 1]])
SentBytes(c) == SentHead(c) \o Eol(c.eol) \o Eol(c.blank)
                    \o [i \in 1 .. c.body |-> [kind |-> "data", n |-> i]]

\* The query of the mod (cai_tx_send): the keys of a template in their order, each
\* with the value that the engine substitutes and encodes, all but letters and
\* digits.  Bytes from 80 on it encodes wrongly: values have none (NotAscii).
EncodedAs(c) == IF c \in DOMAIN Escape THEN <<"%">> \o Escape[c] ELSE <<c>>
Encode(text) == FlattenSeq([i \in DOMAIN text |-> EncodedAs(text[i])])
Join(parts)  == parts[1] \o FlattenSeq([i \in 1 .. Len(parts) - 1 |-> <<"&">> \o parts[i + 1]])
Query(order, value) ==
    Join([i \in DOMAIN order |-> <<order[i], "=">> \o Encode(value[order[i]])])

\* What a client may send, whose first line may be empty, and of which the
\* first `arrive` bytes come.
LineByte == [kind : {"request", "header", "length", "bad length", "junk", "x"}, n : Nat]
IsDelivery(c) ==
    /\ c.lines \in Seq(Seq(LineByte)) /\ c.lines # <<>>
    /\ \A i \in 2 .. Len(c.lines) : c.lines[i] # <<>>
    /\ {c.eol, c.blank} \subseteq {"crlf", "lf"} /\ c.body \in Nat
    /\ c.arrive \in 0 .. Len(SentBytes(c))

\* Well-formed and within the limits.  Of mixed line ends, LF and then CRLF do
\* not make a blank line.
IsSoundRequest(c) ==
    /\ c.eol = "lf" => c.blank = "lf"
    /\ Starts(c.lines[1], {"request"})
    /\ \A i \in 2 .. Len(c.lines) : Starts(c.lines[i], {"header", "length"})
    /\ Len(SentHead(c) \o Eol(c.eol) \o Eol(c.blank)) <= MaxReqHead
    /\ Need(c.lines) <= Min({MaxReqBody, c.body})

\* The client sends `c`, of which `arrive` bytes come.
Requested(c, arrive) ==
    /\ incoming = SubSeq(SentBytes(c), 1, arrive)
    /\ buffer = <<>> /\ receiver = NotYet
    /\ asked = [head |-> SentHead(c), need |-> Need(c.lines), sound |-> IsSoundRequest(c),
                whole |-> arrive = Len(SentBytes(c))]

-----------------------------------------------------------------------------
(* However the bytes are spread over the reads, wherever they end: a        *)
(* request that is read (read_request) has its whole head and the bytes of  *)
(* its body that Content-Length says, and nothing else; and a request that  *)
(* came whole, is well-formed and within the limits is read.                *)
RequestsAreReadAsSent ==
    /\ receiver.at = "read" =>
           /\ receiver.head \in {asked.head, asked.head \o <<CR>>}
           /\ receiver.body = [i \in 1 .. asked.need |-> [kind |-> "data", n |-> i]]
    /\ receiver.at = "unreadable" => ~(asked.whole /\ asked.sound)
=============================================================================
