----------------------------- MODULE WebServer -----------------------------
(***************************************************************************)
(* The web server (freertos_lwip_example_webserver.c and                   *)
(* freertos_lwip_example_ws_http_response.c): main_thread accepts one      *)
(* connection, reads a request once, answers it and closes the connection, *)
(* for ever.  Browsers connect, send, stop reading and leave when they     *)
(* like, and the file system may fail.  Bodies are counted in units of     *)
(* data; the wording of requests and headers is abstracted.                *)
(***************************************************************************)
EXTENDS Integers, Sequences, FiniteSets

CONSTANTS
  Client,       \* browsers
  NoClient,     \* what lwip_accept returns when it fails
  MaxSize,      \* bound on the size of a file
  BUFSIZE       \* what one f_read reads at most

ASSUME ClientAssumption == NoClient \notin Client
ASSUME SizeAssumption == MaxSize \in Nat /\ BUFSIZE \in Nat \ {0}

NotFoundParts == 3          \* do_404 sends header, request and footer as body
PostParts     == 1          \* do_http_post sends its text with the header
MaxBody == IF MaxSize < NotFoundParts THEN NotFoundParts ELSE MaxSize

VARIABLES
  conn,         \* conn[c]: where client c is with its connection
  backlog,      \* connections not accepted yet, in order
  server,       \* where main_thread is
  sd,           \* new_sd: the client being served
  sockets,      \* the accepted sockets that are not closed
  page,         \* what is being sent: a file, the 404 page, or a POST's text
  fsize,        \* units of the body still to be sent
  announced,    \* Content-length of the header
  broken,       \* the file system fails from now on
  \* History variables, read by no guard:
  sent,         \* units of the body that have been sent
  complete      \* the response has been written without an error

response == <<page, fsize, announced, sent, complete>>
clients  == <<conn, backlog>>
vars     == <<clients, server, sd, sockets, response, broken>>

TypeOK ==
  /\ conn \in [Client -> {"idle", "silent", "asked", "stalled", "left", "gone"}]
  /\ backlog \in Seq(Client)
  /\ server \in {"accept", "read", "respond", "header", "body", "post",
                 "close", "hangup", "deleted"}
  /\ sd \in Client \union {NoClient}
  /\ sockets \subseteq Client
  /\ page \in {"file", "404", "text"}
  /\ fsize \in 0 .. MaxBody
  /\ announced \in 0 .. MaxBody
  /\ broken \in BOOLEAN
  /\ sent \in 0 .. MaxBody
  /\ complete \in BOOLEAN

\* The socket listens.
Init ==
  /\ conn = [c \in Client |-> "idle"]
  /\ backlog = << >>
  /\ server = "accept"
  /\ sd = NoClient
  /\ sockets = {}
  /\ page = "file"
  /\ fsize = 0
  /\ announced = 0
  /\ broken = FALSE
  /\ sent = 0
  /\ complete = FALSE

-----------------------------------------------------------------------------
(* start_application and process_http_request.                             *)

Accept ==
  /\ server = "accept"
  /\ backlog # << >>
  /\ sd' = Head(backlog)
  /\ backlog' = Tail(backlog)
  /\ sockets' = sockets \union {Head(backlog)}
  /\ server' = "read"
  /\ UNCHANGED <<conn, response, broken>>

\* lwip_accept returns -1 (no socket is free); nobody looks at it.
AcceptFails ==
  /\ server = "accept"
  /\ sd' = NoClient
  /\ server' = "read"
  /\ UNCHANGED <<clients, sockets, response, broken>>

\* The request, or as much of it as has arrived.
Read ==
  /\ server = "read"
  /\ sd # NoClient
  /\ conn[sd] \in {"asked", "stalled", "left"}
  /\ server' = "respond"
  /\ UNCHANGED <<clients, sd, sockets, response, broken>>

\* read returns 0 or -1.
ReadFails ==
  /\ server = "read"
  /\ sd # NoClient => conn[sd] \in {"left", "gone"}
  /\ server' = "hangup"
  /\ UNCHANGED <<clients, sd, sockets, response, broken>>

\* Fault: the socket stays open.
SocketsKept == sockets

SocketsAfterClose == sockets \ {sd}

\* The connection is closed; the client may connect again.
Hung == [c \in Client |-> IF c = sd THEN "idle" ELSE conn[c]]

\* The variables of generate_response go out of scope.
Forget ==
  /\ page' = "file"
  /\ fsize' = 0
  /\ announced' = 0
  /\ sent' = 0
  /\ complete' = FALSE

Close ==
  /\ server = "close"
  /\ sockets' = SocketsAfterClose
  /\ conn' = Hung
  /\ Forget
  /\ sd' = NoClient
  /\ server' = "accept"
  /\ UNCHANGED <<backlog, broken>>

\* process_http_request deletes the thread it runs in, which is main_thread.
Hangup ==
  /\ server = "hangup"
  /\ sockets' = SocketsAfterClose
  /\ conn' = Hung
  /\ server' = "deleted"
  /\ UNCHANGED <<backlog, sd, response, broken>>

-----------------------------------------------------------------------------
(* generate_response.                                                      *)

Respond(p, size, next) ==
  /\ server = "respond"
  /\ page' = p
  /\ fsize' = size
  /\ announced' = size
  /\ sent' = 0
  /\ complete' = FALSE
  /\ server' = next
  /\ UNCHANGED <<clients, sd, sockets, broken>>

\* do_http_get opens the file.
Get == ~broken /\ \E size \in 0 .. MaxSize : Respond("file", size, "header")

\* The file cannot be opened, or the request is neither GET nor POST: do_404.
NotFound == Respond("404", NotFoundParts, "header")

\* do_http_post has done the command and formatted the answer,
Post == Respond("text", PostParts, "post")

\* or found it to be incomplete or unknown, or read no sensor value.
PostRejected == Respond("text", 0, "close")

-----------------------------------------------------------------------------
(* Writing: lwip_write (lwip_netconn_do_writemore) takes all the data,     *)
(* fails, or blocks as long as the client neither reads nor leaves.        *)

Writable    == conn[sd] # "stalled"
Unreachable == conn[sd] = "left"

WriteHeader ==
  /\ server = "header"
  /\ \/ Writable /\ server' = "body"
     \/ Unreachable /\ server' = "close"
  /\ UNCHANGED <<clients, sd, sockets, response, broken>>

\* What f_read returns in n, or the next part of the 404 page.
Piece ==
  IF page = "404" THEN 1
  ELSE IF broken THEN 0
  ELSE IF fsize < BUFSIZE THEN fsize ELSE BUFSIZE

\* Faults: the loop goes round once more, or leaves out the last piece.
MoreOrEqual == fsize >= 0
MoreButLast == fsize > BUFSIZE

\* The body is not finished.
More == fsize > 0

\* One round of do_http_get's loop, or one write of do_404.
WriteBody ==
  /\ server = "body"
  /\ More
  /\ \/ /\ Writable \/ Piece = 0
        /\ sent' = sent + Piece
        /\ fsize' = fsize - Piece
        /\ UNCHANGED server
     \/ /\ Unreachable /\ Piece > 0
        /\ server' = "close"
        /\ UNCHANGED <<sent, fsize>>
  /\ UNCHANGED <<clients, sd, sockets, page, announced, complete, broken>>

BodyDone ==
  /\ server = "body"
  /\ ~More
  /\ complete' = TRUE
  /\ server' = "close"
  /\ UNCHANGED <<clients, sd, sockets, page, fsize, announced, sent, broken>>

\* Header and text of a POST go out in one write.
WritePost ==
  /\ server = "post"
  /\ \/ /\ Writable
        /\ sent' = fsize
        /\ complete' = TRUE
     \/ /\ Unreachable
        /\ UNCHANGED <<sent, complete>>
  /\ server' = "close"
  /\ UNCHANGED <<clients, sd, sockets, page, fsize, announced, broken>>

Server ==
  \/ Accept \/ Read \/ ReadFails \/ Close \/ Hangup
  \/ Get \/ NotFound \/ Post \/ PostRejected
  \/ WriteHeader \/ WriteBody \/ BodyDone \/ WritePost

-----------------------------------------------------------------------------
(* The browsers and the SD card.                                           *)

Connect(c) ==
  /\ conn[c] = "idle"
  /\ conn' = [conn EXCEPT ![c] = "silent"]
  /\ backlog' = Append(backlog, c)
  /\ UNCHANGED <<server, sd, sockets, response, broken>>

\* A client sends its request, stops reading, or goes away.
Move(c, from, to) ==
  /\ conn[c] = from
  /\ conn' = [conn EXCEPT ![c] = to]
  /\ UNCHANGED <<backlog, server, sd, sockets, response, broken>>

Ask(c)   == Move(c, "silent", "asked")
Stall(c) == Move(c, "asked", "stalled")
Leave(c) == \/ Move(c, "silent", "gone")
            \/ Move(c, "asked", "left")
            \/ Move(c, "stalled", "left")

CardFails ==
  /\ ~broken
  /\ broken' = TRUE
  /\ UNCHANGED <<clients, server, sd, sockets, response>>

Next ==
  \/ Server \/ AcceptFails \/ CardFails
  \/ \E c \in Client : Connect(c) \/ Ask(c) \/ Stall(c) \/ Leave(c)

\* main_thread runs whenever it can; the clients owe nothing.
Spec == Init /\ [][Next]_vars /\ WF_vars(Server)

-----------------------------------------------------------------------------
(* Properties                                                              *)

\* A response written without an error has as long a body as its header says.
LengthMatches == server = "close" /\ complete => sent = announced

\* The only accepted socket that may be open is that of the client being
\* served: no way out of process_http_request leaks one.
SocketsClosed ==
  sockets = IF server \in {"accept", "deleted"} THEN {}
            ELSE {sd} \ {NoClient}

\* The ways in which the server stops: a client that left (or an accept that
\* failed) deleted the thread, the client sends nothing or reads nothing, or
\* do_http_get reads a failing file for ever.
Stopped ==
  \/ server = "deleted"
  \/ server = "read" /\ sd # NoClient /\ conn[sd] = "silent"
  \/ server \in {"header", "body", "post"} /\ conn[sd] = "stalled"
  \/ server = "body" /\ page = "file" /\ broken

\* A client that has sent its request and waits is answered, or at least its
\* connection closed, unless the server has stopped in one of these ways.
EveryoneServed ==
  \A c \in Client : <>[](conn[c] = "asked") => <>[]Stopped

\* "The webpage should open in the browser" (README.md:77-78): whatever a
\* client did before, there is a server to open it.
ServerRuns == server = "deleted" => sd = NoClient
=============================================================================
