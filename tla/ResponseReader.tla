--------------------------- MODULE ResponseReader ---------------------------
(***************************************************************************)
(* upstream.rs: how the worker reads the upstream's HTTP response.         *)
(*                                                                         *)
(* The response is a stream of bytes that may end anywhere: closed by the  *)
(* upstream (or by the shutdown of the socket), or silent until the        *)
(* deadline.  A byte is plain, the n-th byte of the payload, or the end of *)
(* a line, which then says what is in the line.  An action is one read of  *)
(* a line or of a block; that its bytes may arrive one by one makes no     *)
(* difference to a blocking reader.  Limits are in bytes, small in the     *)
(* instances and in the same relation to each other.                       *)
(***************************************************************************)
EXTENDS Integers, Sequences, SequencesExt

CONSTANTS
    MaxHead,      \* MAX_RESPONSE_HEAD: status lines and headers together
    MaxBody,      \* UPSTREAM_MAX_BODY
    MaxChunkLine  \* MAX_CHUNK_LINE: one chunk-size line

\* A chunk-size line may hold a digit and its ending.
ASSUME LimitAssumption == MaxHead \in Nat /\ MaxBody \in Nat /\ MaxChunkLine \in Nat \ {0, 1}

VARIABLES
    stream,  \* the bytes that are still to be read
    ending,  \* what comes after them: "close" or "silence"
    sent,    \* the response as the upstream meant it (auxiliary)
    reader   \* where read_response is, and its local variables

readVars == <<stream, ending, sent, reader>>

NoLength == -1

Unread  == [at |-> "status", budget |-> MaxHead, status |-> 0, chunked |-> FALSE,
            length |-> NoLength, body |-> <<>>, reason |-> ""]
NotSent == [status |-> 0, n |-> 0, framing |-> "close", whole |-> TRUE, sound |-> TRUE]

-----------------------------------------------------------------------------
(* Reading                                                                  *)

IsLineEnd(byte) == byte.kind \notin {"plain", "data"}

\* The length of the next line with its ending, and what is in it.
LineLength == LET ends == {i \in DOMAIN stream : IsLineEnd(stream[i])}
              IN  IF ends = {} THEN 0 ELSE CHOOSE i \in ends : \A j \in ends : i <= j
Line       == stream[LineLength]

Becomes(new, n) == reader' = new /\ stream' = SubSeq(stream, n + 1, Len(stream))
Fails(reason)   == Becomes([reader EXCEPT !.at = "failed", !.reason = reason], Len(stream))

\* The bytes end before what is to be read: the end of the connection is an
\* error, and waiting for more ends at the deadline.
RunsDry == Fails(IF ending = "silence" THEN "timeout" ELSE "upstream_error")

\* read_line: a line of at most `limit` bytes, or no such line.
GetsLine(limit) == LineLength \in 1 .. limit
NoLine(limit) ==
    /\ ~GetsLine(limit)
    /\ IF Len(stream) >= limit THEN Fails("upstream_error") ELSE RunsDry

\* Mutant of NewHead: what an interim response said of its body stays.
NewHead_KeepsFraming(status) == [reader EXCEPT !.at = "header", !.status = status]

NewHead(status) == [reader EXCEPT !.at = "header", !.status = status,
                                  !.chunked = FALSE, !.length = NoLength]

StatusLine ==
    /\ reader.at = "status"
    /\ \/ NoLine(reader.budget)
       \/ /\ GetsLine(reader.budget)
          /\ IF Line.kind = "status"
             THEN Becomes([NewHead(Line.n) EXCEPT !.budget = @ - LineLength], LineLength)
             ELSE Fails("upstream_error")

\* What reads the body once the head is there.
BodyReader ==
    IF reader.status \in 100 .. 199 THEN "status" \* an interim response has none
    ELSE IF reader.chunked THEN "size"
    ELSE IF reader.length # NoLength THEN "exact" ELSE "rest"
TooLarge == BodyReader = "exact" /\ reader.length > MaxBody

HeaderLine ==
    /\ reader.at = "header"
    /\ \/ NoLine(reader.budget)
       \/ /\ GetsLine(reader.budget)
          /\ LET read == [reader EXCEPT !.budget = @ - LineLength]
             IN  CASE Line.kind = "transfer-encoding" ->
                        Becomes([read EXCEPT !.chunked = (Line.n = 1)], LineLength)
                   [] Line.kind = "content-length" ->
                        Becomes([read EXCEPT !.length = Line.n], LineLength)
                   [] Line.kind = "other" -> Becomes(read, LineLength)
                   [] Line.kind = "blank" /\ ~TooLarge ->
                        Becomes([read EXCEPT !.at = BodyReader], LineLength)
                   [] OTHER -> Fails("upstream_error")

\* read_exact of `n` more bytes of the body.
ReadsBlock(n, next) ==
    IF Len(stream) >= n
    THEN Becomes([reader EXCEPT !.body = @ \o SubSeq(stream, 1, n), !.at = next], n)
    ELSE RunsDry

ReadExact == reader.at = "exact" /\ ReadsBlock(reader.length, "read")

\* A body that only the end of the connection ends.
ReadRest ==
    /\ reader.at = "rest"
    /\ CASE Len(stream) > MaxBody                       -> Fails("upstream_error")
         [] Len(stream) <= MaxBody /\ ending = "close"  -> ReadsBlock(Len(stream), "read")
         [] OTHER                                       -> RunsDry

ChunkSize ==
    /\ reader.at = "size"
    /\ \/ NoLine(MaxChunkLine)
       \/ /\ GetsLine(MaxChunkLine)
          /\ IF Line.kind = "size" /\ Line.n = 0
             THEN Becomes([reader EXCEPT !.at = "read"], LineLength)
             ELSE IF Line.kind = "size" /\ Line.n <= MaxBody - Len(reader.body)
             THEN Becomes([reader EXCEPT !.at = "chunk", !.length = Line.n], LineLength)
             ELSE Fails("upstream_error")

Chunk == reader.at = "chunk" /\ ReadsBlock(reader.length, "after")

AfterChunk ==
    /\ reader.at = "after"
    /\ \/ NoLine(MaxChunkLine)
       \/ /\ GetsLine(MaxChunkLine)
          /\ IF Line.kind = "blank"
             THEN Becomes([reader EXCEPT !.at = "size"], LineLength)
             ELSE Fails("upstream_error")

ReadStep ==
    /\ StatusLine \/ HeaderLine \/ ReadExact \/ ReadRest \/ ChunkSize \/ Chunk \/ AfterChunk
    /\ UNCHANGED <<ending, sent>>

-----------------------------------------------------------------------------
(* What the upstream sends: interim responses, a status, headers, and the   *)
(* payload in pieces (which are chunks if a header says so).                *)

LineOf(kind, n, length) ==
    [i \in 1 .. length |-> [kind |-> IF i = length THEN kind ELSE "plain",
                            n    |-> IF i = length THEN n ELSE 0]]

HeadBytes(kind, status, headers) ==
    LineOf(kind, status, 2)
        \o FlattenSeq([i \in DOMAIN headers |-> LineOf(headers[i].kind, headers[i].n, 2)])
        \o LineOf("blank", 0, 1)

Payload(from, to) == [i \in 1 .. to - from |-> [kind |-> "data", n |-> from + i]]

\* Where each of the pieces ends that come one after the other.
Ends(pieces) ==
    LET end[i \in 0 .. Len(pieces)] == IF i = 0 THEN 0 ELSE end[i - 1] + pieces[i]
    IN  end
Sum(pieces) == Ends(pieces)[Len(pieces)]

\* What the first n headers say of the body: the last word on chunks, or a length.
SaysChunks(headers, n) ==
    \E i \in 1 .. n : /\ headers[i] = [kind |-> "transfer-encoding", n |-> 1]
                     /\ \A j \in i + 1 .. n : headers[j].kind # "transfer-encoding"
SaysLength(headers, n) == \E i \in 1 .. n : headers[i].kind = "content-length"
Framing(headers) ==
    IF SaysChunks(headers, Len(headers)) THEN "chunked"
    ELSE IF SaysLength(headers, Len(headers)) THEN "length" ELSE "close"

\* The kind of a line that should be `kind`, in a response with one flaw.
Flawed(r, kind, place) == IF r.flaw = place THEN "junk" ELSE kind

ChunkBytes(r, i) ==
    LET before == Ends(r.pieces)[i - 1]
    IN  LineOf(Flawed(r, "size", "chunk size"), r.pieces[i], r.sizeLine)
            \o Payload(before, before + r.pieces[i])
            \o LineOf(Flawed(r, "blank", "chunk end"), 0, 1)

BodyBytes(r) ==
    IF Framing(r.headers) = "chunked"
    THEN FlattenSeq([i \in DOMAIN r.pieces |-> ChunkBytes(r, i)])
             \o LineOf("size", 0, 2) \o LineOf("blank", 0, 1)
    ELSE Payload(0, Sum(r.pieces))

HeadsOf(r) == FlattenSeq([i \in DOMAIN r.interim |-> HeadBytes("status", 100, r.interim[i])])
                  \o HeadBytes(Flawed(r, "status", "status"), r.status, r.headers)

\* What an upstream may mean to send: a length that it states and that counts is
\* the length, and only the last chunk is empty.
Header == [kind : {"transfer-encoding", "content-length", "other", "junk"}, n : Nat]
IsResponse(r) ==
    /\ r.interim \in Seq(Seq(Header)) /\ r.headers \in Seq(Header)
    /\ r.status \in Nat \ (100 .. 199)
    /\ r.pieces \in Seq(Nat) /\ r.sizeLine \in Nat \ {0}
    /\ Framing(r.headers) = "chunked" => \A i \in DOMAIN r.pieces : r.pieces[i] # 0
    /\ Framing(r.headers) = "length" =>
           \A i \in DOMAIN r.headers :
               r.headers[i].kind = "content-length" => r.headers[i].n = Sum(r.pieces)

\* A response that breaks no rule and no limit.
Readable(headers) == \A i \in DOMAIN headers : headers[i].kind # "junk"
IsSound(r) ==
    /\ r.flaw = "none" /\ Readable(r.headers) /\ \A i \in DOMAIN r.interim : Readable(r.interim[i])
    /\ Len(HeadsOf(r)) <= MaxHead /\ Sum(r.pieces) <= MaxBody
    /\ Framing(r.headers) = "chunked" => r.sizeLine <= MaxChunkLine

\* The upstream answers with `r`, of which `arrive` bytes come.
Sends(r, arrive, how) ==
    LET bytes == HeadsOf(r) \o BodyBytes(r)
    IN  /\ stream' = SubSeq(bytes, 1, arrive)
        /\ ending' = how
        /\ sent' = [status |-> r.status, n |-> Sum(r.pieces), framing |-> Framing(r.headers),
                    whole |-> arrive = Len(bytes), sound |-> IsSound(r)]
        /\ reader' = Unread

-----------------------------------------------------------------------------
(* A response is read the way it is framed (read_response, read_chunked):  *)
(* what was read is the whole payload under the final status, whatever     *)
(* interim responses, chunks and contradicting headers came with it; only  *)
(* a body that the end of the connection ends may have lost its end.  A    *)
(* response that is whole and within the limits is not refused, unless     *)
(* nothing ever ends it.                                                   *)
ResponsesAreReadAsFramed ==
    /\ reader.at = "read" =>
           /\ reader.status = sent.status
           /\ reader.body = Payload(0, Len(reader.body))
           /\ Len(reader.body) <= sent.n
           /\ Len(reader.body) = sent.n
                  \/ (sent.framing = "close" /\ ~sent.whole /\ ending = "close")
    /\ reader.at = "failed" =>
           ~sent.whole \/ ~sent.sound \/ (sent.framing = "close" /\ ending = "silence")
=============================================================================
