----------------------------- MODULE HttpServer -----------------------------
(***************************************************************************)
(* The http server (http_server/server.cpp, connection.cpp,                *)
(* connection_manager.cpp): one thread runs the completion handlers of     *)
(* io_service_, an asynchronous accept, a wait for a signal, and a read or *)
(* a write for each connection.  An operation completes when its handler   *)
(* is queued; other handlers may run before it does, stop_all among them.  *)
(* Asio is modelled by how it is used: closing a socket or the acceptor    *)
(* aborts the operations that are pending on it, not those that have       *)
(* completed, and an operation begun on a closed socket fails.             *)
(***************************************************************************)
EXTENDS RequestParser

CONSTANTS
    Connections,               \* the connections clients may make
    Sent,                      \* what their clients may send: a set of functions
    Chunks,                    \* how many characters a read gets, if not all
    Requests                   \* some of the texts that are requests

ASSUME RequestsAssumption == \A t \in Requests : IsRequest(t)

VARIABLES
    text,                      \* what the client of each connection sends
    acceptor_,                 \* "open" or "closed"
    accept,                    \* ec of the accept: "none" without one, "pending", "ok", "error", "aborted"
    signals_,                  \* "waiting", "raised", "handled"
    connections_,              \* of the connection manager
    conn,                      \* the connection objects
    running                    \* whether run() has not returned

httpVars == <<text, acceptor_, accept, signals_, connections_, conn, running>>

\* op is the operation outstanding and ec its outcome; got counts the
\* characters received, of which those behind parsed are in buffer_.
NewConnection ==
    [socket_ |-> "none", op |-> "none", ec |-> "none", got |-> 0, parsed |-> 0,
     parser |-> NewParser, reply_ |-> [status |-> "none", path |-> <<>>]]

HttpInit ==
    /\ text \in Sent
    /\ acceptor_ = "open" /\ accept = "pending" /\ signals_ = "waiting"
    /\ connections_ = {} /\ conn = [c \in Connections |-> NewConnection]
    /\ running = TRUE
-----------------------------------------------------------------------------
(***************************************************************************)
(* Operations complete.                                                    *)
(***************************************************************************)
\* The clients that have something to send and no connection yet.
Clients == {c \in Connections : conn[c].socket_ = "none" /\ text[c] # <<>>}

Accepted ==
    /\ accept = "pending" /\ accept' \in (IF Clients = {} THEN {} ELSE {"ok"}) \cup {"error"}
    /\ UNCHANGED <<text, acceptor_, signals_, connections_, conn, running>>

Signalled ==
    /\ signals_ = "waiting" /\ signals_' = "raised"
    /\ UNCHANGED <<text, acceptor_, accept, connections_, conn, running>>

Completes(c, op, ec, got) ==
    /\ conn[c].op = op /\ conn[c].ec = "pending"
    /\ conn' = [conn EXCEPT ![c].ec = ec, ![c].got = got]
    /\ UNCHANGED <<text, acceptor_, accept, signals_, connections_, running>>

ReadSome(c) ==
    \E got \in {conn[c].got + n : n \in Chunks} \cup {Len(text[c])} :
        conn[c].got < got /\ got <= Len(text[c]) /\ Completes(c, "read", "ok", got)
Written(c) == Completes(c, "write", "ok", conn[c].got)
PeerFails(c) == \E op \in {"read", "write"} : Completes(c, op, "error", conn[c].got)
-----------------------------------------------------------------------------
(***************************************************************************)
(* Handlers.                                                               *)
(***************************************************************************)
\* connection::stop closes the socket.
Stopped(x) == [x EXCEPT !.socket_ = "closed", !.ec = IF @ = "pending" THEN "aborted" ELSE @]

\* do_read and do_write.
Begun(x, op) == [x EXCEPT !.op = op, !.ec = IF x.socket_ = "closed" THEN "error" ELSE "pending"]

\* The handler returns; with it goes the last reference to a connection that
\* the manager no longer has.
Done(x) == [x EXCEPT !.op = "none", !.ec = "none"]

\* Variant of HandleAccept that does not look whether the server was stopped.
HandleAccept_Unchecked ==
    /\ accept \in {"ok", "error", "aborted"} /\ running
    /\ accept' = IF acceptor_ = "open" THEN "pending" ELSE "none"
    /\ \/ /\ accept = "ok"
          /\ \E c \in Clients :
                /\ connections_' = connections_ \cup {c}
                /\ conn' = [conn EXCEPT ![c] = Begun([NewConnection EXCEPT !.socket_ = "open"], "read")]
       \/ accept # "ok" /\ UNCHANGED <<connections_, conn>>
    /\ UNCHANGED <<text, acceptor_, signals_, running>>

\* Variant of HandleAccept that always calls do_accept again.
HandleAccept_Again ==
    /\ accept \in {"ok", "error", "aborted"} /\ running
    /\ accept' = IF acceptor_ = "open" THEN "pending" ELSE "error"
    /\ \/ /\ acceptor_ = "open" /\ accept = "ok"
          /\ \E c \in Clients :
                /\ connections_' = connections_ \cup {c}
                /\ conn' = [conn EXCEPT ![c] = Begun([NewConnection EXCEPT !.socket_ = "open"], "read")]
       \/ (acceptor_ = "closed" \/ accept # "ok") /\ UNCHANGED <<connections_, conn>>
    /\ UNCHANGED <<text, acceptor_, signals_, running>>

HandleAccept ==
    /\ accept \in {"ok", "error", "aborted"} /\ running
    /\ accept' = IF acceptor_ = "open" THEN "pending" ELSE "none"
    /\ \/ /\ acceptor_ = "open" /\ accept = "ok"
          /\ \E c \in Clients :
                /\ connections_' = connections_ \cup {c}
                /\ conn' = [conn EXCEPT ![c] = Begun([NewConnection EXCEPT !.socket_ = "open"], "read")]
       \/ (acceptor_ = "closed" \/ accept # "ok") /\ UNCHANGED <<connections_, conn>>
    /\ UNCHANGED <<text, acceptor_, signals_, running>>

HandleSignal ==
    /\ signals_ = "raised" /\ running
    /\ signals_' = "handled" /\ acceptor_' = "closed"
    /\ accept' = IF accept = "pending" THEN "aborted" ELSE accept
    /\ conn' = [c \in Connections |-> IF c \in connections_ THEN Stopped(conn[c]) ELSE conn[c]]
    /\ connections_' = {}
    /\ UNCHANGED <<text, running>>

\* connection_manager::stop.
Leave(c) ==
    /\ connections_' = connections_ \ {c}
    /\ conn' = [conn EXCEPT ![c] = Done(Stopped(@))]

Parsed(x, t) ==
    [x EXCEPT !.parser = parse(x.parser, SubSeq(t, x.parsed + 1, x.got)), !.parsed = x.got]

HandleRead(c) ==
    /\ conn[c].op = "read" /\ conn[c].ec \in {"ok", "error", "aborted"} /\ running
    /\ \/ /\ conn[c].ec = "ok" /\ UNCHANGED connections_
          /\ \E x \in {Parsed(conn[c], text[c])} :
                conn' = [conn EXCEPT ![c] =
                    CASE x.parser.result = "good" -> Begun([x EXCEPT !.reply_ = handle_request(x.parser.request.uri)], "write")
                      [] x.parser.result = "bad" -> Begun([x EXCEPT !.reply_ = BadRequest], "write")
                      [] OTHER -> Begun(x, "read")]
       \/ conn[c].ec = "error" /\ Leave(c)
       \/ conn[c].ec = "aborted" /\ conn' = [conn EXCEPT ![c] = Done(@)] /\ UNCHANGED connections_
    /\ UNCHANGED <<text, acceptor_, accept, signals_, running>>

HandleWrite(c) ==
    /\ conn[c].op = "write" /\ conn[c].ec \in {"ok", "error", "aborted"} /\ running
    /\ \/ conn[c].ec # "aborted" /\ Leave(c)
       \/ conn[c].ec = "aborted" /\ conn' = [conn EXCEPT ![c] = Done(@)] /\ UNCHANGED connections_
    /\ UNCHANGED <<text, acceptor_, accept, signals_, running>>

\* io_service::run returns when no operation is outstanding and no handler queued.
RunReturns ==
    /\ running /\ accept = "none" /\ signals_ = "handled"
    /\ \A c \in Connections : conn[c].op = "none"
    /\ running' = FALSE
    /\ UNCHANGED <<text, acceptor_, accept, signals_, connections_, conn>>

Over == ~running /\ UNCHANGED httpVars

HttpNext ==
    \/ Accepted \/ Signalled \/ HandleAccept \/ HandleSignal \/ RunReturns \/ Over
    \/ \E c \in Connections : ReadSome(c) \/ Written(c) \/ PeerFails(c) \/ HandleRead(c) \/ HandleWrite(c)

\* io_service_ runs the handlers that are queued; nothing is asked of clients.
HttpFairness ==
    /\ WF_httpVars(HandleAccept) /\ WF_httpVars(HandleSignal) /\ WF_httpVars(RunReturns)
    /\ \A c \in Connections : WF_httpVars(HandleRead(c)) /\ WF_httpVars(HandleWrite(c))

HttpSpec == HttpInit /\ [][HttpNext]_httpVars /\ HttpFairness
-----------------------------------------------------------------------------
(***************************************************************************)
(* Properties.                                                             *)
(***************************************************************************)
\* The manager has exactly the connections whose sockets are open, each with an
\* operation outstanding that will end it, and none once the acceptor is
\* closed: whatever handlers were queued when stop_all ran, none brings a
\* connection back.
ConnectionsAccounted ==
    /\ connections_ = {c \in Connections : conn[c].socket_ = "open"}
    /\ \A c \in connections_ : conn[c].op # "none"
    /\ acceptor_ = "closed" => connections_ = {}

\* However the text is cut into reads, the reply is the one the text asks for by
\* its lines: that of the first request in it, or bad_request when what was
\* received has no request in front and begins none.
RepliesMatch ==
    \A c \in Connections :
        LET x == conn[c]
            requests == {n \in 4..x.parsed : /\ SubSeq(text[c], n - 3, n) = <<"CR", "LF", "CR", "LF">>
                                            /\ IsRequest(SubSeq(text[c], 1, n))}
            first == SubSeq(text[c], 1, Min(requests))
            begun == \E t \in Requests : x.parsed <= Len(t) /\ SubSeq(t, 1, x.parsed) = SubSeq(text[c], 1, x.parsed)
        IN  CASE x.parser.result = "good" ->
                    /\ requests # {} /\ x.parser.request = RequestOf(first)
                    /\ x.reply_ = handle_request(RequestOf(first).uri)
              [] x.parser.result = "bad" -> requests = {} /\ ~begun /\ x.reply_ = BadRequest
              [] OTHER -> requests = {} /\ x.reply_.status = "none"

\* After a signal run() returns, although clients may hold connections open and
\* say nothing.
ServerStops == signals_ = "raised" ~> ~running
=============================================================================
