------------------------------- MODULE MCWire -------------------------------
(* The instance of Wire: requests of the mod, cut anywhere or damaged in    *)
(* one place, and sent as bytes in every way that HTTP has; responses of    *)
(* one chunk line more or less than the limits allow; and all short texts   *)
(* over the characters that sanitize_text tells apart.                      *)
EXTENDS Wire

Upto(set, n) == UNION {[1 .. k -> set] : k \in 0 .. n}

-----------------------------------------------------------------------------
(* Requests                                                                 *)

Order(api, op) ==
    CASE api = "v1" /\ op = "talk" ->
           <<"v", "rid", "job", "npc", "day", "pname", "msg", "end">>
      [] api = "v1" /\ op # "talk" -> <<"v", "rid", "job", "end">>
      [] api = "v2" /\ op = "talk" ->
           <<"v", "rid", "job", "camp", "branch", "conv", "npc", "day", "nf", "pf", "rel", "ren",
             "hon", "loc", "status", "pname", "msg", "end">>
      [] OTHER -> <<"v", "rid", "job", "camp", "branch", "conv", "end">>

Value(api, key) == CASE key = "v"     -> IF api = "v1" THEN <<"1">> ELSE <<"2">>
                     [] key = "end"   -> <<"1">>
                     [] key = "pname" -> <<"a">>
                     [] OTHER         -> <<"1", "2">>

Values(api, said) == [key \in Keys |-> IF key = "msg" THEN said ELSE Value(api, key)]
Whole(api, op, said) ==
    LET order == Order(api, op)
        value == Values(api, said)
    IN  [api |-> api, op |-> op, get |-> TRUE, huge |-> FALSE, query |-> Query(order, value),
         meant |-> [key \in ToSet(order) \ {"msg"} |-> value[key]], said |-> said]

\* What arrives of a request whose URL was cut.
CutsOf(r) == {[r EXCEPT !.query = SubSeq(@, 1, n)] : n \in 0 .. Len(r.query) - 1}

\* Requests of other clients: one thing is wrong, or unusual.
DamagesOf(r) ==
    LET parts == Split("&", r.query)
        key(n) == parts[n][1]
    IN  {[r EXCEPT !.query = Join(SubSeq(parts, 1, n - 1) \o SubSeq(parts, n + 1, Len(parts)))] :
             n \in DOMAIN parts}
            \cup {[r EXCEPT !.query = Join([parts EXCEPT ![n] = <<key(n)>> \o rest])] :
                      n \in {i \in DOMAIN parts : key(i) \notin {"pname", "msg"}},
                      rest \in {<<>>, <<"=">>, <<"=", "a">>, <<"=", "1", "=", "2">>, <<"=", "%", "1">>}}
            \cup {[r EXCEPT !.query = part \o <<"&">> \o @] :
                      part \in {<<>>, <<"job", "=", "1", "2">>, <<"x">>}}
            \cup {[r EXCEPT !.query = @ \o <<"&", "msg", "=", "a", "a">>]}
            \cup {[r EXCEPT !.get = FALSE], [r EXCEPT !.huge = TRUE], [r EXCEPT !.op = "x"]}

\* What the engine has made of what the player typed: a line break is a "tab".
Sayings == Upto({"a", "tab"}, MaxMsg + 1)
               \cup {<<"-", "/", "|">>, Open \o <<"a">>, Open \o <<"a">> \o Close \o <<"a">>}
               \cup {<<"a", "&", "end", "=", "1">>, <<"%", "2", "6">>, <<"+", " ", "=">>}

Talks  == {Whole(api, "talk", said) : api \in {"v1", "v2"}, said \in Sayings}
Others == {Whole(api, op, <<>>) : api \in {"v1", "v2"}, op \in {"result", "cancel"}}
              \cup {Whole("v2", "ack", <<>>)}

\* The requests of the mod, whole or cut, are what OfTheMod says.
ASSUME TalksAreOfTheMod ==
    \A api \in {"v1", "v2"}, op \in {"talk", "result"}, said \in Sayings :
        LET r == Whole(api, op, said)
        IN  \A n \in 0 .. Len(r.query) :
                OfTheMod([r EXCEPT !.query = SubSeq(@, 1, n)], Order(api, op), Values(api, said), n)

MCRequests ==
    Talks \cup Others \cup UNION {CutsOf(r) : r \in Talks \cup Others}
        \cup UNION {DamagesOf(r) : r \in {Whole("v1", "talk", <<"a">>), Whole("v2", "talk", <<"a">>)}}

\* The bytes of most requests come as the engine sends them.
Starting(kind, length) == [i \in 1 .. length |-> IF i = 1 THEN kind ELSE Byte("x")]
Sent(headers, eol, blank, body) ==
    [lines |-> <<Starting(Byte("request"), 2)>> \o headers, eol |-> eol, blank |-> blank,
     body |-> body, arrive |-> 0]
HeaderLineOf(kind, n, length) == Starting([kind |-> kind, n |-> n], length)

Usual == Sent(<<>>, "crlf", "crlf", 0)

Headers == {<<>>, <<HeaderLineOf("junk", 0, 2)>>, <<HeaderLineOf("bad length", 0, 1)>>}
               \cup {<<HeaderLineOf("header", 0, n)>> : n \in 1 .. MaxReqHead}
               \cup {<<HeaderLineOf("length", n, 2)>> : n \in 0 .. MaxReqBody + 1}
               \cup {<<HeaderLineOf("length", n, 1), HeaderLineOf("length", k, 1)>> : n, k \in 0 .. 1}

Unusual == {Sent(headers, eol, blank, body) : headers \in Headers, eol \in {"crlf", "lf"},
                blank \in {"crlf", "lf"}, body \in 0 .. MaxReqBody + 1}
               \cup {[Usual EXCEPT !.lines[1] = first] : first \in {<<>>, <<Byte("junk")>>}}

MCDeliveries(r) ==
    IF r = Whole("v1", "result", <<>>)
    THEN UNION {{[c EXCEPT !.arrive = n] : n \in 0 .. Len(SentBytes(c))} : c \in Unusual}
    ELSE {[Usual EXCEPT !.arrive = Len(SentBytes(Usual))]}

-----------------------------------------------------------------------------
(* Responses                                                                *)

Chunked   == [kind |-> "transfer-encoding", n |-> 1]
Length(n) == [kind |-> "content-length", n |-> n]
Other     == [kind |-> "other", n |-> 0]
Junk      == [kind |-> "junk", n |-> 0]

Interims == { <<>>, << <<>> >>, << <<Length(1)>> >>, << <<Chunked>> >>, << <<>>, <<Other>> >> }

Response(interim, status, headers, pieces, sizeLine) ==
    [interim |-> interim, status |-> status, headers |-> headers, pieces |-> pieces,
     sizeLine |-> sizeLine, flaw |-> "none"]

Splits == {pieces \in UNION {[1 .. k -> 1 .. MaxBody + 1] : k \in 0 .. MaxBody + 1} :
              Sum(pieces) <= MaxBody + 1}

Unmeasured == {Response(interim, 200, headers, <<n>>, 2) :
             interim \in Interims, headers \in { <<>>, <<Other>> }, n \in 0 .. MaxBody + 1}
Measured == UNION {{Response(interim, 200, <<Length(n)>>, <<n>>, 2),
                    Response(interim, 200, <<Other, Length(n)>>, <<n>>, 2)} :
                      interim \in Interims, n \in 0 .. MaxBody + 1}
InChunks == {Response(interim, 200, headers, pieces, sizeLine) :
                interim \in Interims, pieces \in Splits, sizeLine \in {2, 3},
                headers \in { <<Chunked>>, <<Chunked, Length(1)>>, <<Length(1), Chunked>> }}
Statuses == {Response(<<>>, status, <<Length(1)>>, <<1>>, 2) :
                status \in {42, 201, 204, 299, 300, 500}}
Wrong == {Response(<<>>, 200, <<Junk>>, <<1>>, 2)}
             \cup {[Response(<<>>, 200, <<Chunked>>, <<1>>, 2) EXCEPT !.flaw = place] :
                       place \in {"status", "chunk size", "chunk end"}}

MCResponses == Unmeasured \cup Measured \cup InChunks \cup Statuses \cup Wrong

-----------------------------------------------------------------------------
(* Contents                                                                 *)

MCRaws ==
    Upto({"a", "1", " ", "e'", "ae", "<thi'", "dash", "...", "nbsp", "rune", "tab", "^", "|", "{", "}"}, 3)
        \cup Upto({"a", " ", "..."}, MaxText + 2)
        \cup Upto({"a", "<thi", "</thi", "nk>"}, 6)
        \cup Upto({"a", "rune", "<thi'", "<thi", "nk>"}, 4)

MCTokens == {"truncated", "too_long", "bad_param", "bad_version", "empty_msg", "timeout",
             "upstream_error", "empty_reply"}
=============================================================================
