----------------------------- MODULE MCServices -----------------------------
(***************************************************************************)
(* TLC instance of HttpServer and EnvQueue.  They share no state: a        *)
(* behaviour is one of the server or one of the work queue.                *)
(***************************************************************************)
EXTENDS HttpServer, EnvQueue

MCFiles == {<<"/", "index.html">>, <<"/", "g">>}

\* "g / HTTP/1.1", and "g /g HTTP/10.0" with a header of two lines.
Line(uri, version) == <<"g", " ">> \o uri \o <<" ", "H", "T", "T", "P", "/">> \o version \o <<"CR", "LF">>
Plain == Line(<<"/">>, <<"1", ".", "1">>) \o <<"CR", "LF">>
Folded ==
    Line(<<"/", "g">>, <<"1", "0", ".", "0">>)
    \o <<"g", ":", " ", "g", "CR", "LF", " ", "TAB", "g", "CR", "LF", "CR", "LF">>

MCRequests == {Plain, Folded}

\* The texts one character away from t.
Near(t) ==
    {[t EXCEPT ![i] = c] : i \in DOMAIN t, c \in {"g", " ", ":", "CR", "LF", "high"}}
    \cup {SubSeq(t, 1, i - 1) \o SubSeq(t, i + 1, Len(t)) : i \in DOMAIN t}

Uris == UNION {[1..n -> {"/", ".", "%", "+", "2", "E", "g"}] : n \in 0..2} \cup {<<"/", "%", "2", c>> : c \in {"E", "F", "g"}}

MCSent ==
    {<<t, <<>> >> : t \in Near(Folded) \cup {Line(u, <<"1", ".", "1">>) \o <<"CR", "LF">> : u \in Uris}}
    \cup {<<Plain, <<"CR">> >>}
-----------------------------------------------------------------------------
VARIABLE part                  \* which of them moves; the other has one initial state

ServicesInit ==
    /\ HttpInit /\ QueueInit
    /\ part = "http" \/ (part = "queue" /\ text = <<Plain, <<"CR">> >>)
ServicesNext ==
    \/ part = "http" /\ HttpNext /\ UNCHANGED <<queueVars, part>>
    \/ part = "queue" /\ QueueNext /\ UNCHANGED <<httpVars, part>>
ServicesSpec ==
    ServicesInit /\ [][ServicesNext]_<<httpVars, queueVars, part>> /\ HttpFairness /\ QueueFairness
=============================================================================
