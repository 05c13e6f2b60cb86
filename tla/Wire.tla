-------------------------------- MODULE Wire --------------------------------
(***************************************************************************)
(* What crosses the wire of one exchange, from the request of the game to  *)
(* the frame its engine takes apart: validation (protocol.rs, living.rs),  *)
(* the upstream's response (ResponseReader), the check of its text         *)
(* (jobs.rs, Sanitizer), the copy the persistent memory keeps, and the     *)
(* frame.  Who asks when is left to JobStore, Memory and GameTransport;    *)
(* here is what becomes of the text.                                       *)
(***************************************************************************)
EXTENDS RequestReader, ResponseReader, Sanitizer

CONSTANTS
    MaxMsg,     \* MAX_MSG
    Requests,   \* the requests that may come
    Deliveries(_), \* how the bytes of one may come: [lines, eol, blank, body, arrive]
    Responses,  \* the responses the upstream may mean to send
    Raws        \* the contents a response may carry

ASSUME RawAssumption == Raws \subseteq Seq(Char)
ASSUME MessageAssumption == MaxMsg \in Nat

ASSUME DeliveryAssumption == \A r \in Requests : \A c \in Deliveries(r) : IsDelivery(c)
ASSUME ResponseAssumption == \A r \in Responses : IsResponse(r)

\* The reasons for which a request is refused or a job fails.
ASSUME ReasonAssumption ==
    {"truncated", "too_long", "bad_param", "bad_version", "empty_msg", "timeout",
     "upstream_error", "empty_reply"} \subseteq Tokens

VARIABLES
    at,       \* how far the exchange is
    request,  \* the request: as it is sent, as it was read, and once it was
              \* admitted only what the answer needs
    result,   \* what the job, and then the memory, holds
    raw,      \* the content the upstream sent (auxiliary)
    answer    \* [code, text, body] of the last frame

wireVars == <<at, request, result, raw, answer>>
vars     == <<receiveVars, readVars, wireVars>>

-----------------------------------------------------------------------------
(* Validation.  A request is [api, op, get, huge, params, meant, said]: the *)
(* parameters as they were read, as [key, val], and, for the properties,    *)
(* the values and the message that its client put into the URL.             *)

Param(r, key) ==
    LET has == {i \in DOMAIN r.params : r.params[i].key = <<key>>}
    IN  IF has = {} THEN <<"none">> ELSE r.params[Min(has)].val

\* A number in the range; the other forms that values have are like it: their
\* beginnings may be valid.
Valid(r, key) == Param(r, key) \in {<<"1">>, <<"1", "2">>}
Version(r)    == IF r.api = "v1" THEN <<"1">> ELSE <<"2">>
Message(r)    == IF Param(r, "msg") = <<"none">> THEN <<>> ELSE SanitizeInput(Param(r, "msg"))

Truncated(r) == Param(r, "end") # <<"1">>

Keys == {"v", "rid", "job", "camp", "branch", "conv", "npc", "day", "nf", "pf", "rel", "ren",
         "hon", "loc", "status", "pname", "msg", "end"}
Numbers == {"day", "nf", "pf", "rel", "ren", "hon", "loc", "status"}

\* The checks of parse_v1 and of living::parse in their order: what is wrong,
\* and the reason it is refused for.
V1Checks(r) ==
    LET talk == r.op = "talk"
    IN  << <<r.huge,                                    "too_long">>,
           <<r.op \notin {"talk", "result", "cancel"},  "bad_param">>,
           <<Truncated(r),                              "truncated">>,
           <<Param(r, "v") # Version(r),                "bad_version">>,
           <<\E key \in {"rid", "job"} : ~Valid(r, key),         "bad_param">>,
           <<talk /\ \E key \in {"npc", "day"} : ~Valid(r, key), "bad_param">>,
           <<talk /\ Message(r) = <<>>,                 "empty_msg">>,
           <<talk /\ Len(Message(r)) > MaxMsg,          "too_long">> >>

V2Checks(r) ==
    LET talk == r.op = "talk"
    IN  << <<r.huge,                                    "too_long">>,
           <<Truncated(r),                              "truncated">>,
           <<Param(r, "v") # Version(r),                "bad_version">>,
           <<~r.get \/ ~Valid(r, "rid"),                "bad_param">>,
           <<r.op \notin {"talk", "result", "cancel", "ack"}, "bad_param">>,
           <<\E i, j \in DOMAIN r.params : i < j /\ r.params[i].key = r.params[j].key, "bad_param">>,
           <<\E i \in DOMAIN r.params : r.params[i].key \notin {<<key>> : key \in Keys}, "bad_param">>,
           <<\E key \in {"job", "camp", "branch", "conv"} : ~Valid(r, key), "bad_param">>,
           <<talk /\ (~Valid(r, "npc") \/ Param(r, "msg") = <<"none">>), "bad_param">>,
           <<talk /\ Message(r) = <<>>,                 "empty_msg">>,
           <<talk /\ Len(Message(r)) > MaxMsg,          "too_long">>,
           <<talk /\ Param(r, "pname") = <<"none">>,        "bad_param">>,
           <<talk /\ \E key \in Numbers : ~Valid(r, key), "bad_param">> >>

Checks(r)   == IF r.api = "v1" THEN V1Checks(r) ELSE V2Checks(r)
Failing(r)  == {i \in DOMAIN Checks(r) : Checks(r)[i][1]}
Admitted(r) == Failing(r) = {}
Reason(r)   == Checks(r)[Min(Failing(r))][2]

-----------------------------------------------------------------------------
(* The frame R|C|T|R, and what the engine makes of a body.                  *)

\* The rid as it was read, if it is one.
Rid(r) == IF Valid(r, "rid") THEN Param(r, "rid") ELSE <<"0">>

READY       == "0"
FAILED      == "2"
BAD_REQUEST == "4"

Frame(rid, code, text) ==
    LET t == SanitizeText(text)
    IN  rid \o <<"|", IF t.ok THEN code ELSE FAILED, "|">> \o t.text \o <<"|">> \o rid

Answers(rid, code, text) ==
    answer' = [rid |-> rid, code |-> code, body |-> Frame(rid, code, text)]

\* The engine splits a body on bars; a field that is empty, or digits after an
\* optional minus, is an integer, any other a string.
Fields(body) == Split("|", body)
IsInteger(field) ==
    \A i \in DOMAIN field : field[i] \in Digits \/ (i = 1 /\ field[i] = "-")

\* It puts the integers into its registers in their order, and so the strings.
Registers(fields, mine) ==
    LET taken[i \in 0 .. Len(fields)] == IF i = 0 THEN <<>>
                                         ELSE IF i \in mine THEN Append(taken[i - 1], fields[i])
                                         ELSE taken[i - 1]
    IN  taken[Len(fields)]
NumericOf(fields) == {i \in DOMAIN fields : IsInteger(fields[i])}
IntegersOf(body) == Registers(Fields(body), NumericOf(Fields(body)))
StringsOf(body)  == Registers(Fields(body), DOMAIN Fields(body) \ NumericOf(Fields(body)))

-----------------------------------------------------------------------------
Init ==
    /\ at = "sent" /\ request \in Requests
    /\ \E c \in Deliveries(request) : Requested(c, c.arrive)
    /\ stream = <<>> /\ ending = "close" /\ sent = NotSent /\ reader = Unread
    /\ result = [state |-> "none", text |-> <<>>] /\ raw = <<>>
    /\ answer = [rid |-> <<"0">>, code |-> "none", body |-> <<>>]

\* The connection's thread reads the request.
Receives == at = "sent" /\ Receive /\ UNCHANGED <<readVars, wireVars>>

Received(next) ==
    /\ at = "sent" /\ at' = next
    /\ incoming' = <<>> /\ buffer' = <<>> /\ receiver' = NotYet /\ asked' = NotAsked
    /\ UNCHANGED <<readVars, result, raw>>

Arrives ==
    /\ receiver.at = "read" /\ Received("arrived")
    /\ request' = [api |-> request.api, op |-> request.op, get |-> request.get, huge |-> request.huge,
                   params |-> ParseQuery(request.query), meant |-> request.meant, said |-> request.said]
    /\ UNCHANGED answer

\* A request that cannot be read is answered, too (handle).
Garbled ==
    /\ receiver.at = "unreadable" /\ Received("answered")
    /\ Answers(<<"0">>, BAD_REQUEST, <<"bad_param">>)
    /\ UNCHANGED request

Refuse ==
    /\ at = "arrived" /\ ~Admitted(request)
    /\ at' = "answered"
    /\ Answers(Rid(request), BAD_REQUEST, <<Reason(request)>>)
    /\ UNCHANGED <<receiveVars, readVars, request, result, raw>>

Admit ==
    /\ at = "arrived" /\ Admitted(request)
    /\ at' = "admitted"
    /\ UNCHANGED <<receiveVars, readVars, request, result, raw, answer>>

\* The talk becomes a job.
Submit ==
    /\ at = "admitted" /\ request.op = "talk"
    /\ at' = "pending" /\ request' = [api |-> request.api, rid |-> Rid(request)]
    /\ UNCHANGED <<receiveVars, readVars, result, raw, answer>>

\* The worker posts it, and the upstream answers.
Generate ==
    /\ at = "pending"
    /\ \E r \in Responses, how \in {"close", "silence"} :
           \E arrive \in 0 .. Len(HeadsOf(r) \o BodyBytes(r)) : Sends(r, arrive, how)
    /\ at' = "generating"
    /\ UNCHANGED <<receiveVars, request, result, raw, answer>>

Read == at = "generating" /\ ReadStep /\ UNCHANGED <<receiveVars, wireVars>>

\* Mutant of Made: any text that is there counts.
Made_AnyText(text) ==
    IF text # <<>> THEN [state |-> READY, text |-> text]
    ELSE [state |-> FAILED, text |-> <<"empty_reply">>]

\* What finish makes of a reply.
Made(text) ==
    IF SanitizeText(text).ok THEN [state |-> READY, text |-> text]
    ELSE [state |-> FAILED, text |-> <<"empty_reply">>]

Done(next) ==
    /\ at = "generating" /\ at' = next
    /\ stream' = <<>> /\ ending' = "close" /\ sent' = NotSent /\ reader' = Unread
    /\ UNCHANGED <<receiveVars, request, raw, answer>>

\* Only a body with a right status that is there to its end is a document.
IsDocument == reader.status \in 200 .. 299 /\ Len(reader.body) = sent.n /\ sent.n > 0

ReadsDocument ==
    reader.at = "read" /\ IsDocument /\ Done("document") /\ UNCHANGED result

ReadsNoDocument ==
    /\ \/ reader.at = "read" /\ ~IsDocument
           /\ result' = [state |-> FAILED, text |-> <<"upstream_error">>]
       \/ reader.at = "failed"
           /\ result' = [state |-> FAILED, text |-> <<reader.reason>>]
    /\ Done("made")

\* Its content: a text (a null or missing one is empty), or something else.
Completes ==
    /\ at = "document" /\ at' = "made"
    /\ \/ \E text \in Raws : raw' = text /\ result' = Made(text)
       \/ raw' = <<>> /\ result' = [state |-> FAILED, text |-> <<"upstream_error">>]
    /\ UNCHANGED <<receiveVars, readVars, request, answer>>

\* v2: the memory keeps a sanitized copy of a reply (collect_finished).
Collect ==
    /\ at = "made" /\ request.api = "v2"
    /\ at' = "kept"
    /\ result' = [result EXCEPT !.text = IF result.state = READY THEN SanitizeText(@).text ELSE @]
    /\ UNCHANGED <<receiveVars, readVars, request, raw, answer>>

\* The answer to a request for the result.
Respond ==
    /\ at = IF request.api = "v2" THEN "kept" ELSE "made"
    /\ at' = "answered" /\ Answers(request.rid, result.state, result.text)
    /\ UNCHANGED <<receiveVars, readVars, request, result, raw>>

Next == \/ Receives \/ Arrives \/ Garbled \/ Refuse \/ Admit \/ Submit \/ Generate \/ Read
        \/ ReadsDocument \/ ReadsNoDocument \/ Completes \/ Collect \/ Respond

Spec == Init /\ [][Next]_vars

-----------------------------------------------------------------------------
(* Both connections carry bytes that may come in any pieces and stop        *)
(* anywhere (read_request, read_response, read_chunked): what is taken for  *)
(* a request, or for the upstream's words, is what the other side framed.   *)
MessagesAreReadAsFramed == RequestsAreReadAsSent /\ ResponsesAreReadAsFramed

\* The characters with bytes from 80 on, which the engine encodes wrongly.
NotAscii == {"e'", "ae", "<thi'", "dash", "...", "nbsp", "rune"}

\* A request of the mod, of whose query n characters come: all, or what a layer
\* on the way left of it.  It ends in end=1.  A value is what the engine puts in
\* the place of {s66} or {reg60}, once it has expanded what the player typed: a
\* {s0} is by then the text of that register, a ^ a line break.
OfTheMod(r, order, value, n) ==
    /\ order # <<>> /\ \A i \in DOMAIN order : order[i] = "end" <=> i = Len(order)
    /\ value["end"] = <<"1">> /\ \A i \in DOMAIN order : ToSet(value[order[i]]) \cap NotAscii = {}
    /\ n \in 0 .. Len(Query(order, value)) /\ r.query = SubSeq(Query(order, value), 1, n)
    /\ \A key \in DOMAIN r.meant : r.meant[key] = value[key]
    /\ r.said = value["msg"]

(* Only what its client put into the URL is admitted (parse_v1,             *)
(* living::parse): a request that lost its end on the way, at whatever      *)
(* place, never becomes a talk with another message, npc, job or day,       *)
(* though what is left of a number or of a message is valid by itself.      *)
(* For the mod that is what the engine substituted, in ASCII: what it makes *)
(* of the player's text before that, and of bytes from 80 on                *)
(* (docs/http-ipc.md), is not the server's doing.                           *)
AdmittedIsWhatWasMeant ==
    at = "admitted" =>
        /\ \A i \in DOMAIN request.params, key \in DOMAIN request.meant :
               request.params[i].key = <<key>> => request.params[i].val = request.meant[key]
        /\ request.op = "talk" => Message(request) = SanitizeInput(request.said)
                                   /\ Len(Message(request)) \in 1 .. MaxMsg

(* Whatever an upstream or a client says, the engine takes the answer apart *)
(* as the server put it together (frame, sanitize_text): the rid, a code,   *)
(* one string, the rid; the string holds nothing that the engine would      *)
(* interpret, and is no longer than MAX_TEXT.                               *)
AnswersAreReadable ==
    at = "answered" =>
        /\ \E code \in {answer.code, FAILED} :
               IntegersOf(answer.body) = <<answer.rid, <<code>>, answer.rid>>
        /\ Len(StringsOf(answer.body)) = 1
        /\ LET shown == StringsOf(answer.body)[1]
           IN  /\ Len(shown) <= MaxText
               /\ \A i \in DOMAIN shown : shown[i] \in Plain

\* What the engine reads from the frame of a text that was ready to be shown.
Shows(body, found) ==
    /\ StringsOf(body) = <<found.text>>
    /\ IntegersOf(body)[2] = <<IF found.ok THEN READY ELSE FAILED>>

(* A reply that made its job ready is shown, and shown as it was found good *)
(* (finish, collect_finished, frame): no later look at the text turns it    *)
(* into a failure or into another text.  But in v2 the text is looked at    *)
(* twice, and a <think> may have come to be in the first look: between the  *)
(* halves of the tag a block was taken out or a character dropped, or one   *)
(* of its letters lost an accent.  The second look takes it out, with all   *)
(* that it opens: then what is left is shown, and if no letter is, the      *)
(* ready reply becomes a failure.                                           *)
ShownIsWhatWasMade ==
    at = "answered" /\ result.state = READY =>
        LET found == SanitizeText(raw)
        IN  IF request.api = "v2" /\ StripThink(found.text) # found.text
            THEN Shows(answer.body, SanitizeText(found.text))
            ELSE found.ok /\ Shows(answer.body, found)
=============================================================================
