--------------------------- MODULE RequestParser ----------------------------
(***************************************************************************)
(* The incremental request parser and the request handler of the http      *)
(* server (http_server/request_parser.cpp, request_handler.cpp), and a     *)
(* definition of the requests by lines to compare the parser with.         *)
(*                                                                         *)
(* A text is a sequence of characters.  Those the code tells apart are     *)
(* themselves; "g" stands for the other token characters, "?" for the      *)
(* other tspecials, "ctl" for the other controls, "high" for what is not   *)
(* ASCII.                                                                  *)
(***************************************************************************)
EXTENDS Integers, Sequences, FiniteSets, FiniteSetsExt, TLC

CONSTANT Files              \* the paths of the files under doc_root_

Value == "0" :> 0 @@ "1" :> 1 @@ "2" :> 2 @@ "E" :> 14 @@ "F" :> 15

Digits == {"0", "1", "2"}
Tspecials == {"/", ":", " ", "TAB", "?"}
Ctls == {"TAB", "CR", "LF", "ctl"}
Tokens == {"g", "H", "T", "P", "E", "F", ".", "%", "+"} \cup Digits     \* is_char, neither ctl nor tspecial
Chars == Tokens \cup Tspecials \cup Ctls \cup {"high"}
NotCtl == Chars \ Ctls

EmptyRequest == [method |-> <<>>, uri |-> <<>>, major |-> 0, minor |-> 0, headers |-> <<>>]
NewParser == [state_ |-> "method_start", request |-> EmptyRequest, result |-> "indeterminate"]
-----------------------------------------------------------------------------
(***************************************************************************)
(* consume: in each state the first rule that has the character gives the  *)
(* next state and where the character goes; without one the request is bad.*)
(***************************************************************************)
\* Where a character of the set leads, and the field of the request it goes to.
Then(set, to, field) == [set |-> set, to |-> to, field |-> field]

\* Variant of Foldable that lets a line continue a header before there is one.
Foldable_Always(req) == {" ", "TAB"}

Foldable(req) == IF req.headers # <<>> THEN {" ", "TAB"} ELSE {}

Rules(req) ==
    [method_start |-> <<Then(Tokens, "method", "method")>>,
     method |-> <<Then({" "}, "uri", "none"), Then(Tokens, "method", "method")>>,
     uri |-> <<Then({" "}, "http_version_h", "none"), Then(NotCtl, "uri", "uri")>>,
     http_version_h |-> <<Then({"H"}, "http_version_t_1", "none")>>,
     http_version_t_1 |-> <<Then({"T"}, "http_version_t_2", "none")>>,
     http_version_t_2 |-> <<Then({"T"}, "http_version_p", "none")>>,
     http_version_p |-> <<Then({"P"}, "http_version_slash", "none")>>,
     http_version_slash |-> <<Then({"/"}, "http_version_major_start", "version")>>,
     http_version_major_start |-> <<Then(Digits, "http_version_major", "major")>>,
     http_version_major |-> <<Then({"."}, "http_version_minor_start", "none"),
                              Then(Digits, "http_version_major", "major")>>,
     http_version_minor_start |-> <<Then(Digits, "http_version_minor", "minor")>>,
     http_version_minor |-> <<Then({"CR"}, "expecting_newline_1", "none"),
                              Then(Digits, "http_version_minor", "minor")>>,
     expecting_newline_1 |-> <<Then({"LF"}, "header_line_start", "none")>>,
     header_line_start |-> <<Then({"CR"}, "expecting_newline_3", "none"), Then(Foldable(req), "header_lws", "none"),
                             Then(Tokens, "header_name", "header")>>,
     header_lws |-> <<Then({"CR"}, "expecting_newline_2", "none"), Then({" ", "TAB"}, "header_lws", "none"),
                      Then(NotCtl, "header_value", "value")>>,
     header_name |-> <<Then({":"}, "space_before_header_value", "none"), Then(Tokens, "header_name", "name")>>,
     space_before_header_value |-> <<Then({" "}, "header_value", "none")>>,
     header_value |-> <<Then({"CR"}, "expecting_newline_2", "none"), Then(NotCtl, "header_value", "value")>>,
     expecting_newline_2 |-> <<Then({"LF"}, "header_line_start", "none")>>,
     expecting_newline_3 |-> <<Then({"LF"}, "good", "none")>>]

Pushed(req, field, c) ==
    CASE field = "none" -> req
      [] field \in {"method", "uri"} -> [req EXCEPT ![field] = Append(@, c)]
      [] field = "version" -> [req EXCEPT !.major = 0, !.minor = 0]
      [] field \in {"major", "minor"} -> [req EXCEPT ![field] = @ * 10 + Value[c]]
      [] field = "header" -> [req EXCEPT !.headers = Append(@, [name |-> <<c>>, value |-> <<>>])]
      [] field \in {"name", "value"} -> [req EXCEPT !.headers[Len(req.headers)][field] = Append(@, c)]

consume(parser, c) ==
    LET rules == SelectSeq(Rules(parser.request)[parser.state_], LAMBDA rule : c \in rule.set)
    IN  IF rules = <<>> THEN [parser EXCEPT !.result = "bad"]
        ELSE [state_ |-> rules[1].to,
              request |-> Pushed(parser.request, rules[1].field, c),
              result |-> IF rules[1].to = "good" THEN "good" ELSE "indeterminate"]

\* The rest of the data behind a complete or bad request is not looked at.
parse(parser, data) ==
    LET after[i \in 0..Len(data)] ==
            IF i = 0 THEN {parser}
            ELSE {IF p.result = "indeterminate" THEN consume(p, data[i]) ELSE p : p \in after[i - 1]}
    IN  CHOOSE p \in after[Len(data)] : TRUE
-----------------------------------------------------------------------------
(***************************************************************************)
(* handle_request, without the contents and the type of the file.          *)
(***************************************************************************)
\* istringstream >> hex on two characters: a sign, or one digit, will do.  (No
\* character of the model is the minus sign, which the code takes too, and the
\* decoded NUL, which ends the name given to the file system, is one of "?".)
HexValue(a, b) ==
    IF a \in DOMAIN Value THEN IF b \in DOMAIN Value THEN 16 * Value[a] + Value[b] ELSE Value[a]
    ELSE IF a = "+" /\ b \in DOMAIN Value THEN Value[b] ELSE -1

CharOf(value) == IF value = 47 THEN "/" ELSE IF value = 46 THEN "." ELSE IF value = 32 THEN " " ELSE "?"

\* The decoded path; it ends in "bad" where an escape is not complete.
url_decode(uri) ==
    LET n == Len(uri)
        out[i \in 1..n + 1] ==
            IF i > n THEN <<>>
            ELSE IF uri[i] = "+" THEN <<" ">> \o out[i + 1]
            ELSE IF uri[i] # "%" THEN <<uri[i]>> \o out[i + 1]
            ELSE IF i + 2 > n THEN <<"bad">>
            ELSE IF HexValue(uri[i + 1], uri[i + 2]) < 0 THEN <<"bad">>
            ELSE <<CharOf(HexValue(uri[i + 1], uri[i + 2]))>> \o out[i + 3]
    IN  out[1]

BadRequest == [status |-> "bad_request", path |-> <<>>]

handle_request(uri) ==
    LET path == url_decode(uri)
        full == IF path[Len(path)] = "/" THEN Append(path, "index.html") ELSE path
    IN  IF path = <<>> THEN BadRequest
        ELSE IF path[Len(path)] = "bad" THEN BadRequest
        ELSE IF path[1] # "/" \/ \E i \in 1..Len(path) - 1 : path[i] = "." /\ path[i + 1] = "." THEN BadRequest
        ELSE IF full \in Files THEN [status |-> "ok", path |-> full]
        ELSE [status |-> "not_found", path |-> <<>>]
-----------------------------------------------------------------------------
(***************************************************************************)
(* The requests, by lines.                                                 *)
(***************************************************************************)
In(seq, set) == \A i \in DOMAIN seq : seq[i] \in set
From(seq, i) == SubSeq(seq, i, Len(seq))

Sorted(S) == [k \in 1..Cardinality(S) |-> CHOOSE i \in S : Cardinality({j \in S : j <= i}) = k]

\* The lines of a text that ends in LF, without CR and LF.
LinesOf(text) ==
    LET ends == Sorted({i \in DOMAIN text : text[i] = "LF"})
    IN  [k \in DOMAIN ends |-> SubSeq(text, IF k = 1 THEN 1 ELSE ends[k - 1] + 1, ends[k] - 2)]

\* The request line: method, uri and version between two spaces.
IsVersion(seq) ==
    \E i \in 7..Len(seq) - 1 :
        /\ SubSeq(seq, 1, 5) = <<"H", "T", "T", "P", "/">> /\ seq[i] = "."
        /\ In(SubSeq(seq, 6, i - 1), Digits) /\ In(From(seq, i + 1), Digits)

IsRequestLine(line) ==
    \E i, j \in DOMAIN line :
        /\ 1 < i /\ i < j /\ line[i] = " " /\ line[j] = " "
        /\ In(SubSeq(line, 1, i - 1), Tokens) /\ In(SubSeq(line, i + 1, j - 1), NotCtl \ {" "})
        /\ IsVersion(From(line, j + 1))

Colon(line) == Min({i \in DOMAIN line : line[i] = ":"} \cup {Len(line) + 1})
IsHeader(line) ==
    /\ 1 < Colon(line) /\ Colon(line) < Len(line) /\ line[Colon(line) + 1] = " "
    /\ In(SubSeq(line, 1, Colon(line) - 1), Tokens) /\ In(From(line, Colon(line) + 1), NotCtl)

\* A line that continues a header, behind the white space.
Rest(line) == Min({i \in DOMAIN line : line[i] \notin {" ", "TAB"}} \cup {Len(line) + 1})
IsContinuation(line) == 1 < Rest(line) /\ In(From(line, Rest(line)), NotCtl)

\* Whether the text is exactly one request.
IsRequest(text) ==
    LET lines == LinesOf(text)
        n == Len(lines)
    IN  /\ n >= 2 /\ text[Len(text)] = "LF"
        /\ \A i \in DOMAIN text : text[i] = "LF" => i > 1 /\ text[i - 1] = "CR"
        /\ IsRequestLine(lines[1]) /\ lines[n] = <<>>
        /\ \A k \in 2..n - 1 : IsHeader(lines[k]) \/ (k > 2 /\ IsContinuation(lines[k]))

\* What a request says.
RequestOf(text) ==
    LET lines == LinesOf(text)
        spaces == Sorted({i \in DOMAIN lines[1] : lines[1][i] = " "})
        version == From(lines[1], spaces[2] + 6)
        dot == CHOOSE i \in DOMAIN version : version[i] = "."
        Number(seq) ==
            LET value[i \in 0..Len(seq)] == IF i = 0 THEN 0 ELSE value[i - 1] * 10 + Value[seq[i]]
            IN  value[Len(seq)]
        Header(hs, line) ==
            IF IsHeader(line)
            THEN Append(hs, [name |-> SubSeq(line, 1, Colon(line) - 1), value |-> From(line, Colon(line) + 2)])
            ELSE [hs EXCEPT ![Len(hs)].value = @ \o From(line, Rest(line))]
        headers[k \in 1..Len(lines) - 1] == IF k = 1 THEN <<>> ELSE Header(headers[k - 1], lines[k])
    IN  [method |-> SubSeq(lines[1], 1, spaces[1] - 1),
         uri |-> SubSeq(lines[1], spaces[1] + 1, spaces[2] - 1),
         major |-> Number(SubSeq(version, 1, dot - 1)), minor |-> Number(From(version, dot + 1)),
         headers |-> headers[Len(lines) - 1]]
=============================================================================
