---------------------------- MODULE WebPageProofs ----------------------------
(***************************************************************************)
(* Proofs about WebServer and WebPage, for any number of clients, any      *)
(* sizes of files and buffer, and any colours.  WebServer's inductive      *)
(* invariant adds to its properties that while a body is being sent, what  *)
(* was sent and what is left make up what the header announced.  WebPage's *)
(* follows the commands that may still be obeyed: those in the backlog and *)
(* the one being read.                                                     *)
(***************************************************************************)
EXTENDS WebPage, TLAPS

-----------------------------------------------------------------------------
(* The server.                                                             *)

\* While a response is being written it is not complete, and nothing of the
\* announced length is lost.
Accounted ==
  /\ server \in {"header", "body", "post"} =>
       ~complete /\ sent + fsize = announced
  /\ server = "post" => sent = 0

Inv == TypeOK /\ Accounted /\ LengthMatches /\ SocketsClosed

\* The bounds are naturals, and a page's body may be as long as the bound.
LEMMA Bounds == /\ MaxBody \in Nat
                /\ NotFoundParts \in 0 .. MaxBody
                /\ PostParts \in 0 .. MaxBody
                /\ 0 .. MaxSize \subseteq 0 .. MaxBody
BY SizeAssumption DEF MaxBody, NotFoundParts, PostParts

\* A round of the loop sends something between nothing and all that is left.
LEMMA PieceFits ==
  ASSUME TypeOK, More
  PROVE  Piece \in 0 .. fsize
BY Bounds, SizeAssumption DEF TypeOK, More, Piece

\* Closing the connection leaves every client somewhere.
LEMMA HungType ==
  ASSUME TypeOK
  PROVE  Hung \in [Client -> {"idle", "silent", "asked", "stalled", "left", "gone"}]
BY DEF TypeOK, Hung

\* Every answer that generate_response chooses keeps the invariant.
LEMMA RespondKeeps ==
  ASSUME Inv,
         NEW p \in {"file", "404", "text"},
         NEW size \in 0 .. MaxBody,
         NEW next \in {"header", "post", "close"},
         Respond(p, size, next)
  PROVE  Inv'
<1>1. TypeOK'
  <2>1. conn' = conn /\ backlog' = backlog
    BY DEF Respond, clients
  <2>2. 0 \in 0 .. MaxBody
    BY Bounds
  <2> QED BY <2>1, <2>2 DEF Inv, TypeOK, Respond
<1>2. Accounted'
  BY Bounds DEF Accounted, Respond
<1>3. LengthMatches'
  BY DEF LengthMatches, Respond
<1>4. SocketsClosed'
  BY DEF Inv, SocketsClosed, Respond
<1> QED BY <1>1, <1>2, <1>3, <1>4 DEF Inv

\* The initial state satisfies the invariant.
LEMMA InvInit == Init => Inv
<1> SUFFICES ASSUME Init PROVE Inv
  OBVIOUS
<1>1. TypeOK
  <2>1. 0 \in 0 .. MaxBody
    BY Bounds
  <2>2. backlog \in Seq(Client)
    BY DEF Init
  <2> QED BY <2>1, <2>2 DEF Init, TypeOK
<1>2. Accounted /\ LengthMatches /\ SocketsClosed
  BY DEF Init, Accounted, LengthMatches, SocketsClosed
<1> QED BY <1>1, <1>2 DEF Inv

\* Every step of the server, the clients and the card keeps the invariant.
LEMMA InvNext == Inv /\ [Next]_vars => Inv'
<1> SUFFICES ASSUME Inv, [Next]_vars PROVE Inv'
  OBVIOUS
<1> USE ClientAssumption
<1>1. CASE Accept
  <2>1. TypeOK'
    BY <1>1 DEF Inv, TypeOK, Accept, response
  <2>2. SocketsClosed'
    BY <1>1 DEF Inv, TypeOK, SocketsClosed, Accept
  <2>3. Accounted' /\ LengthMatches'
    BY <1>1 DEF Inv, Accounted, LengthMatches, Accept, response
  <2> QED BY <2>1, <2>2, <2>3 DEF Inv
<1>2. CASE AcceptFails
  <2>1. TypeOK'
    BY <1>2 DEF Inv, TypeOK, AcceptFails, response, clients
  <2>2. SocketsClosed'
    BY <1>2 DEF Inv, SocketsClosed, AcceptFails
  <2>3. Accounted' /\ LengthMatches'
    BY <1>2 DEF Inv, Accounted, LengthMatches, AcceptFails, response
  <2> QED BY <2>1, <2>2, <2>3 DEF Inv
<1>3. CASE Read \/ ReadFails
  <2>1. TypeOK'
    BY <1>3 DEF Inv, TypeOK, Read, ReadFails, response, clients
  <2>2. SocketsClosed'
    BY <1>3 DEF Inv, SocketsClosed, Read, ReadFails
  <2>3. Accounted' /\ LengthMatches'
    BY <1>3 DEF Inv, Accounted, LengthMatches, Read, ReadFails, response
  <2> QED BY <2>1, <2>2, <2>3 DEF Inv
<1>4. CASE Close \/ Hangup
  <2>1. TypeOK'
    <3>1. Hung \in [Client -> {"idle", "silent", "asked", "stalled", "left", "gone"}]
      BY HungType DEF Inv
    <3>2. 0 \in 0 .. MaxBody
      BY Bounds
    <3>3. CASE Close
      BY <3>1, <3>2, <3>3 DEF Inv, TypeOK, Close, Forget, SocketsAfterClose
    <3>4. CASE Hangup
      BY <3>1, <3>4 DEF Inv, TypeOK, Hangup, SocketsAfterClose, response
    <3> QED BY <1>4, <3>3, <3>4
  <2>2. SocketsClosed'
    BY <1>4 DEF Inv, SocketsClosed, Close, Hangup, SocketsAfterClose
  <2>3. Accounted' /\ LengthMatches'
    BY <1>4 DEF Inv, Accounted, LengthMatches, Close, Forget, Hangup, response
  <2> QED BY <2>1, <2>2, <2>3 DEF Inv
<1>5. CASE Get
  BY <1>5, RespondKeeps, Bounds DEF Get
<1>6. CASE NotFound
  BY <1>6, RespondKeeps, Bounds DEF NotFound
<1>7. CASE Post \/ PostRejected
  BY <1>7, RespondKeeps, Bounds DEF Post, PostRejected
<1>8. CASE WriteHeader
  <2>1. TypeOK'
    BY <1>8 DEF Inv, TypeOK, WriteHeader, response, clients
  <2>2. SocketsClosed'
    BY <1>8 DEF Inv, SocketsClosed, WriteHeader
  <2>3. Accounted' /\ LengthMatches'
    BY <1>8 DEF Inv, Accounted, LengthMatches, WriteHeader, response
  <2> QED BY <2>1, <2>2, <2>3 DEF Inv
<1>9. CASE WriteBody
  <2>1. Piece \in 0 .. fsize
    BY <1>9, PieceFits DEF Inv, WriteBody
  <2>2. sent + fsize = announced
    BY <1>9 DEF Inv, Accounted, WriteBody
  <2>3. (sent + fsize = announced)' /\ sent' \in 0 .. MaxBody /\ fsize' \in 0 .. MaxBody
    BY <1>9, <2>1, <2>2, Bounds DEF Inv, TypeOK, WriteBody
  <2>4. TypeOK'
    BY <1>9, <2>3 DEF Inv, TypeOK, WriteBody, clients
  <2>5. SocketsClosed'
    BY <1>9 DEF Inv, SocketsClosed, WriteBody
  <2>6. Accounted' /\ LengthMatches'
    BY <1>9, <2>3 DEF Inv, Accounted, LengthMatches, WriteBody
  <2> QED BY <2>4, <2>5, <2>6 DEF Inv
<1>10. CASE BodyDone
  <2>1. fsize = 0 /\ sent = announced
    BY <1>10, Bounds DEF Inv, TypeOK, Accounted, BodyDone, More
  <2>2. TypeOK'
    BY <1>10 DEF Inv, TypeOK, BodyDone, clients
  <2>3. SocketsClosed'
    BY <1>10 DEF Inv, SocketsClosed, BodyDone
  <2>4. Accounted' /\ LengthMatches'
    BY <1>10, <2>1 DEF Accounted, LengthMatches, BodyDone
  <2> QED BY <2>2, <2>3, <2>4 DEF Inv
<1>11. CASE WritePost
  <2>1. fsize = announced /\ ~complete
    BY <1>11, Bounds DEF Inv, TypeOK, Accounted, WritePost
  <2>2. TypeOK'
    BY <1>11 DEF Inv, TypeOK, WritePost, clients
  <2>3. SocketsClosed'
    BY <1>11 DEF Inv, SocketsClosed, WritePost
  <2>4. Accounted' /\ LengthMatches'
    BY <1>11, <2>1 DEF Accounted, LengthMatches, WritePost
  <2> QED BY <2>2, <2>3, <2>4 DEF Inv
<1>12. CASE CardFails
  <2>1. TypeOK'
    BY <1>12 DEF Inv, TypeOK, CardFails, response, clients
  <2>2. SocketsClosed' /\ Accounted' /\ LengthMatches'
    BY <1>12 DEF Inv, SocketsClosed, Accounted, LengthMatches, CardFails, response
  <2> QED BY <2>1, <2>2 DEF Inv
<1>13. ASSUME NEW c \in Client, Connect(c)
       PROVE  Inv'
  <2>1. TypeOK'
    BY <1>13 DEF Inv, TypeOK, Connect, response
  <2>2. SocketsClosed' /\ Accounted' /\ LengthMatches'
    BY <1>13 DEF Inv, SocketsClosed, Accounted, LengthMatches, Connect, response
  <2> QED BY <2>1, <2>2 DEF Inv
<1>14. ASSUME NEW c \in Client, Ask(c) \/ Stall(c) \/ Leave(c)
       PROVE  Inv'
  <2>1. TypeOK'
    BY <1>14 DEF Inv, TypeOK, Ask, Stall, Leave, Move, response
  <2>2. SocketsClosed' /\ Accounted' /\ LengthMatches'
    BY <1>14 DEF Inv, SocketsClosed, Accounted, LengthMatches,
                 Ask, Stall, Leave, Move, response
  <2> QED BY <2>1, <2>2 DEF Inv
<1>15. CASE UNCHANGED vars
  BY <1>15 DEF Inv, TypeOK, Accounted, LengthMatches, SocketsClosed,
               vars, clients, response
<1> QED
  BY <1>1, <1>2, <1>3, <1>4, <1>5, <1>6, <1>7, <1>8, <1>9, <1>10, <1>11,
     <1>12, <1>13, <1>14, <1>15 DEF Next, Server

\* The invariant holds in every reachable state.
THEOREM Inductive == Spec => []Inv
BY InvInit, InvNext, PTL DEF Spec

\* Types, for every set of clients and every size of files and buffer.
THEOREM TypeCorrect == Spec => []TypeOK
<1>1. Inv => TypeOK
  BY DEF Inv
<1> QED BY <1>1, Inductive, PTL

\* do_http_get, do_404 and do_http_post send as much as they announced, for
\* every size of the file and of the buffer.
THEOREM BodyAsAnnounced == Spec => []LengthMatches
<1>1. Inv => LengthMatches
  BY DEF Inv
<1> QED BY <1>1, Inductive, PTL

\* process_http_request leaks no socket, however it ends.
THEOREM NoSocketLeaks == Spec => []SocketsClosed
<1>1. Inv => SocketsClosed
  BY DEF Inv
<1> QED BY <1>1, Inductive, PTL

-----------------------------------------------------------------------------
(* The page.                                                               *)

\* A connection is in the backlog once, before it is served and not after.
Queue ==
  /\ \A i, j \in 1 .. Len(backlog) : backlog[i] = backlog[j] => i = j
  /\ \A i \in 1 .. Len(backlog) : conn[backlog[i]] # "idle"
  /\ server = "accept" => sd = NoClient
  /\ server \in {"respond", "header", "body", "post", "close"} => sd \in Client
  /\ server # "deleted" /\ sd \in Client =>
       /\ conn[sd] # "idle"
       /\ \A i \in 1 .. Len(backlog) : backlog[i] # sd

\* What is being sent belongs to the request, and a command was obeyed before
\* it is answered.
Answering ==
  /\ server \in {"header", "body"} => ask[sd] \notin Color
  /\ server = "post" /\ ask[sd] \in Color => led = ask[sd]

\* No command for the LED can be obeyed any more, unless a new one is made.
NonePending ==
  /\ \A k \in 1 .. Len(backlog) : ask[backlog[k]] \notin Color
  /\ server \in {"read", "respond"} /\ sd \in Client => ask[sd] \notin Color

\* Commands that were under way together know it.
CrossedKnown == \A c, d \in UnderWay : c # d => c \in crossed

\* No command for the LED comes after d's in the backlog.
LastCommand(d) ==
  \A k \in 1 .. Len(backlog) :
    ask[backlog[k]] \in Color => \E j \in k .. Len(backlog) : backlog[j] = d

\* A command that was under way alone is the last in the backlog; when it has
\* been answered, the LED is as it says and stays so.
AloneIsLast ==
  \A d \in UnderWay \ crossed :
    /\ xhr[d] = "sent" => LastCommand(d)
    /\ xhr[d] = "answered" => led = ask[d] /\ NonePending

\* The page is sure of the LED only when no command can be obeyed any more.
SureOfIt == UnderWay = {} /\ sure => shown = led /\ NonePending

PageInv ==
  Inv /\ PageTypeOK /\ Queue /\ Answering /\ CrossedKnown /\ AloneIsLast /\ SureOfIt

XhrState == {"none", "sent", "answered", "failed", "fading"}

\* The page's steps are steps of the server and its clients.
LEMMA PageRefines == [PageNext]_all => [Next]_vars
<1> SUFFICES ASSUME [PageNext]_all PROVE [Next]_vars
  OBVIOUS
<1> USE DEF Next, Server
<1>1. CASE Serve
  BY <1>1
  DEF Serve, Obey, Command, ReadSwitches, Reject, GetFile, Finish, End
<1>2. CASE Network
  BY <1>2 DEF Network
<1>4. ASSUME NEW c \in Client,
             \/ PageLoaded(c) \/ SwitchSubmit(c) \/ Navigate(c)
             \/ Success(c) \/ Failed(c) \/ Timeout(c) \/ Stop(c) \/ FadedIn(c)
             \/ \E color \in Color : LedSubmit(c, color)
      PROVE  [Next]_vars
  BY <1>4
  DEF PageLoaded, SwitchSubmit, Navigate, Success, Failed, Timeout, Stop,
      FadedIn, LedSubmit, Request
<1>5. CASE UNCHANGED all
  BY <1>5 DEF all
<1> QED BY <1>1, <1>2, <1>4, <1>5 DEF PageNext

\* The backlog and the connections, step by step.
LEMMA QueueNext == Inv /\ Queue /\ [Next]_vars => Queue'
<1> SUFFICES ASSUME Inv, Queue, [Next]_vars PROVE Queue'
  OBVIOUS
<1> USE ClientAssumption DEF Queue
<1>0. /\ backlog \in Seq(Client) /\ sd \in Client \union {NoClient}
      /\ conn \in [Client -> {"idle", "silent", "asked", "stalled", "left", "gone"}]
  BY DEF Inv, TypeOK
<1>1. CASE Accept
  <2>1. sd' = Head(backlog) /\ backlog' = Tail(backlog) /\ server' = "read" /\ conn' = conn
    BY <1>1 DEF Accept
  <2>2. Len(backlog) > 0 /\ sd' = backlog[1] /\ sd' \in Client
    BY <1>0, <1>1, <2>1 DEF Accept
  <2>3. /\ Len(backlog') = Len(backlog) - 1
        /\ \A i \in 1 .. Len(backlog') : backlog'[i] = backlog[i + 1]
    BY <1>0, <2>1, <2>2
  <2> QED BY <1>0, <2>1, <2>2, <2>3
<1>2. CASE AcceptFails
  BY <1>2 DEF AcceptFails, clients
<1>3. CASE Read \/ ReadFails
  BY <1>0, <1>3 DEF Read, ReadFails, clients
<1>4. CASE Close \/ Hangup
  <2>1. /\ backlog' = backlog
        /\ conn' = Hung
        /\ (server' = "accept" /\ sd' = NoClient) \/ server' = "deleted"
        /\ server # "deleted"
    BY <1>4 DEF Close, Hangup
  <2>2. \A i \in 1 .. Len(backlog) : backlog[i] \in Client /\ backlog[i] # sd
    BY <1>0, <1>4 DEF Close, Hangup
  <2>3. \A i \in 1 .. Len(backlog) : conn'[backlog[i]] = conn[backlog[i]]
    BY <2>1, <2>2 DEF Hung
  <2> QED BY <2>1, <2>3
<1>5. CASE Get \/ NotFound \/ Post \/ PostRejected
  <2>1. /\ server = "respond" /\ UNCHANGED <<conn, backlog, sd>>
        /\ server' \in {"header", "post", "close"}
    BY <1>5 DEF Get, NotFound, Post, PostRejected, Respond, clients
  <2> QED BY <2>1
<1>6. CASE WriteHeader \/ WriteBody \/ BodyDone \/ WritePost
  <2>1. /\ server \in {"header", "body", "post"} /\ UNCHANGED <<conn, backlog, sd>>
        /\ server' \in {"header", "body", "post", "close"}
    BY <1>6 DEF WriteHeader, WriteBody, BodyDone, WritePost, clients
  <2> QED BY <2>1
<1>7. CASE CardFails
  BY <1>7 DEF CardFails, clients
<1>8. ASSUME NEW c \in Client, Connect(c)
      PROVE  Queue'
  <2>1. /\ conn[c] = "idle" /\ conn' = [conn EXCEPT ![c] = "silent"]
        /\ backlog' = Append(backlog, c) /\ UNCHANGED <<server, sd>>
    BY <1>8 DEF Connect
  <2>2. /\ Len(backlog') = Len(backlog) + 1
        /\ \A i \in 1 .. Len(backlog) : backlog'[i] = backlog[i]
        /\ backlog'[Len(backlog) + 1] = c
    BY <1>0, <2>1
  <2>3. \A i \in 1 .. Len(backlog) : backlog[i] \in Client /\ backlog[i] # c
    BY <1>0, <2>1
  <2>4. server # "deleted" /\ sd \in Client => sd # c
    BY <2>1
  <2>5. Len(backlog) \in Nat
    BY <1>0
  <2>6. \A i \in 1 .. Len(backlog') : i \in 1 .. Len(backlog) \/ i = Len(backlog) + 1
    BY <2>2, <2>5
  <2>7. \A d \in Client : d # c => conn'[d] = conn[d]
    BY <1>0, <2>1
  <2>8. \A i \in 1 .. Len(backlog') : conn'[backlog'[i]] # "idle"
    BY <1>0, <2>1, <2>2, <2>3, <2>6, <2>7
  <2>9. \A i, j \in 1 .. Len(backlog') : backlog'[i] = backlog'[j] => i = j
    BY <2>2, <2>3, <2>6
  <2>10. server' # "deleted" /\ sd' \in Client =>
           /\ conn'[sd'] # "idle"
           /\ \A i \in 1 .. Len(backlog') : backlog'[i] # sd'
    BY <2>1, <2>2, <2>4, <2>6, <2>7
  <2> QED BY <2>1, <2>8, <2>9, <2>10
<1>9. ASSUME NEW c \in Client, Ask(c) \/ Stall(c) \/ Leave(c)
      PROVE  Queue'
  <2>1. /\ UNCHANGED <<backlog, server, sd>>
        /\ \A d \in Client : conn[d] # "idle" => conn'[d] # "idle"
    BY <1>0, <1>9 DEF Ask, Stall, Leave, Move
  <2>2. \A i \in 1 .. Len(backlog) : backlog[i] \in Client
    BY <1>0
  <2> QED BY <2>1, <2>2
<1>10. CASE UNCHANGED vars
  BY <1>10 DEF vars, clients
<1> QED
  BY <1>1, <1>2, <1>3, <1>4, <1>5, <1>6, <1>7, <1>8, <1>9, <1>10
  DEF Next, Server

\* What a request does to the page, whoever makes it.
LEMMA RequestMade ==
  ASSUME PageInv, NEW c \in Client, NEW q, Request(c, q)
  PROVE  /\ xhr[c] = "none" /\ conn[c] = "idle"
         /\ ask' = [ask EXCEPT ![c] = q] /\ xhr' = [xhr EXCEPT ![c] = "sent"]
         /\ UNCHANGED <<led, shown, sure, server, sd>>
         /\ Len(backlog) \in Nat /\ Len(backlog') = Len(backlog) + 1
         /\ \A k \in 1 .. Len(backlog) :
              backlog'[k] = backlog[k] /\ backlog[k] \in Client /\ backlog[k] # c
         /\ backlog'[Len(backlog) + 1] = c
         /\ server # "deleted" => sd # c
<1>1. backlog \in Seq(Client)
  BY DEF PageInv, Inv, TypeOK
<1>2. conn[c] = "idle" /\ backlog' = Append(backlog, c) /\ UNCHANGED <<server, sd>>
  BY DEF Request, Connect
<1>3. \A k \in 1 .. Len(backlog) : backlog[k] \in Client /\ backlog[k] # c
  BY <1>1, <1>2 DEF PageInv, Queue
<1>4. server # "deleted" => sd # c
  BY <1>2 DEF PageInv, Queue
<1> QED BY <1>1, <1>2, <1>3, <1>4 DEF Request

\* What the end of a request does to the page, whichever way it ends.
LEMMA FailureMade ==
  ASSUME PageInv, NEW c \in Client, Failed(c) \/ Timeout(c) \/ Stop(c)
  PROVE  /\ Failure(c) /\ Waiting(c)
         /\ UNCHANGED <<backlog, server, sd>>
         /\ conn'[c] = "idle" =>
              /\ \A k \in 1 .. Len(backlog) : backlog[k] # c
              /\ server # "deleted" => sd # c
<1>1. Failure(c) /\ Waiting(c)
  BY DEF Failed, Timeout, Stop, Waiting
<1>2. UNCHANGED vars \/ Leave(c)
  BY DEF Failed, Timeout, Stop
<1>3. UNCHANGED <<backlog, server, sd>>
  BY <1>2 DEF vars, clients, Leave, Move
<1>4. conn'[c] = "idle" => conn[c] = "idle"
  <2>1. conn \in [Client -> {"idle", "silent", "asked", "stalled", "left", "gone"}]
    BY DEF PageInv, Inv, TypeOK
  <2> QED BY <1>2, <2>1 DEF vars, clients, Leave, Move
<1>5. conn[c] = "idle" =>
        /\ \A k \in 1 .. Len(backlog) : backlog[k] # c
        /\ server # "deleted" => sd # c
  BY DEF PageInv, Queue
<1> QED BY <1>1, <1>3, <1>4, <1>5

\* Types are kept by every step.
LEMMA PageTypeNext == PageInv /\ [PageNext]_all => PageTypeOK'
<1> SUFFICES ASSUME PageInv, [PageNext]_all PROVE PageTypeOK'
  OBVIOUS
<1>0. PageTypeOK /\ (server = "respond" => sd \in Client)
  BY DEF PageInv, Queue
<1> USE ColorAssumption DEF PageTypeOK, Commands, XhrState
<1>1. CASE UNCHANGED page_vars
  BY <1>0, <1>1 DEF page_vars
<1>2. CASE Obey
  <2>1. led' \in Color /\ UNCHANGED <<ask, xhr, shown, form, crossed, sure>>
    BY <1>2 DEF Obey, Command
  <2> QED BY <1>0, <2>1
<1>3. CASE Finish
  <2>1. xhr' = xhr \/ xhr' = [xhr EXCEPT ![sd] = "answered"]
    BY <1>3 DEF Finish
  <2>2. xhr' \in [Client -> XhrState]
    BY <1>0, <2>1
  <2> QED BY <1>0, <1>3, <2>2 DEF Finish
<1>4. CASE End
  <2>1. xhr' \in [Client -> XhrState]
    BY <1>0, <1>4 DEF End
  <2>2. ask' \in [Client -> Commands \union {"file"}]
    BY <1>0, <1>4 DEF End
  <2> QED BY <1>0, <1>4, <2>1, <2>2 DEF End
<1>5. ASSUME NEW c \in Client, NEW color \in Color, LedSubmit(c, color)
      PROVE  PageTypeOK'
  BY <1>0, <1>5 DEF LedSubmit, Request, UnderWay, Waiting
<1>6. ASSUME NEW c \in Client, PageLoaded(c) \/ SwitchSubmit(c)
      PROVE  PageTypeOK'
  BY <1>0, <1>6 DEF PageLoaded, SwitchSubmit, Request
<1>7. ASSUME NEW c \in Client, Navigate(c)
      PROVE  PageTypeOK'
  BY <1>0, <1>7 DEF Navigate, Request
<1>8. ASSUME NEW c \in Client, Success(c)
      PROVE  PageTypeOK'
  BY <1>0, <1>8 DEF Success, Forgotten
<1>9. ASSUME NEW c \in Client, Failed(c) \/ Timeout(c) \/ Stop(c)
      PROVE  PageTypeOK'
  <2>1. Failure(c)
    BY <1>9 DEF Failed, Timeout, Stop
  <2>2. sure' \in BOOLEAN
    BY <2>1, Zenon DEF Failure
  <2> QED BY <1>0, <2>1, <2>2 DEF Failure, Forgotten, FadingAfterFailure
<1>10. ASSUME NEW c \in Client, FadedIn(c)
       PROVE  PageTypeOK'
  BY <1>0, <1>10 DEF FadedIn
<1> QED
  BY <1>1, <1>2, <1>3, <1>4, <1>5, <1>6, <1>7, <1>8, <1>9, <1>10
  DEF PageNext, Serve, Network, ReadSwitches, Reject, GetFile, all

\* Commands that can be obeyed only become fewer while none is made.
LEMMA Fewer ==
  ASSUME PageInv, UNCHANGED backlog,
         \A c \in Client : ask'[c] \in Color => ask[c] \in Color,
         server' \in {"read", "respond"} /\ sd' \in Client =>
           server \in {"read", "respond"} /\ sd' = sd
  PROVE  /\ NonePending => NonePending'
         /\ \A d \in Client : LastCommand(d) => LastCommand(d)'
<1>1. \A k \in 1 .. Len(backlog) : backlog[k] \in Client
  BY DEF PageInv, Inv, TypeOK
<1>2. NonePending => NonePending'
  BY <1>1 DEF NonePending
<1>3. ASSUME NEW d \in Client, LastCommand(d)
      PROVE  LastCommand(d)'
  BY <1>1, <1>3 DEF LastCommand
<1> QED BY <1>2, <1>3

\* The next connection is accepted: the same holds.
LEMMA FewerAccepted ==
  ASSUME PageInv, Accept, UNCHANGED ask
  PROVE  /\ NonePending => NonePending'
         /\ \A d \in Client : LastCommand(d) => LastCommand(d)'
<1>1. /\ backlog \in Seq(Client) /\ Len(backlog) \in Nat /\ Len(backlog) > 0
      /\ backlog' = Tail(backlog) /\ sd' = backlog[1]
  BY DEF PageInv, Inv, TypeOK, Accept
<1>2. /\ Len(backlog') = Len(backlog) - 1
      /\ \A i \in 1 .. Len(backlog') : backlog'[i] = backlog[i + 1]
  BY <1>1
<1>3. NonePending => NonePending'
  BY <1>1, <1>2 DEF NonePending
<1>4. ASSUME NEW d \in Client, LastCommand(d)
      PROVE  LastCommand(d)'
  <2>1. SUFFICES ASSUME NEW k \in 1 .. Len(backlog'), ask[backlog'[k]] \in Color
                 PROVE  \E j \in k .. Len(backlog') : backlog'[j] = d
    BY DEF LastCommand
  <2>2. k + 1 \in 1 .. Len(backlog) /\ ask[backlog[k + 1]] \in Color
    BY <1>1, <1>2, <2>1
  <2>3. PICK j \in (k + 1) .. Len(backlog) : backlog[j] = d
    BY <1>4, <2>2 DEF LastCommand
  <2>4. j - 1 \in k .. Len(backlog') /\ backlog'[j - 1] = d
    BY <1>1, <1>2, <2>3
  <2> QED BY <2>4
<1> QED BY <1>3, <1>4

\* While the page does nothing, what it knows stays true.
LEMMA Steady ==
  ASSUME PageInv, UNCHANGED page_vars,
         NonePending => NonePending',
         \A d \in Client : LastCommand(d) => LastCommand(d)'
  PROVE  CrossedKnown' /\ AloneIsLast' /\ SureOfIt'
<1>1. UNCHANGED <<ask, xhr, led, shown, crossed, sure>> /\ UnderWay' = UnderWay
  BY DEF page_vars, UnderWay, Waiting
<1>2. UnderWay \subseteq Client
  BY DEF UnderWay, Waiting
<1> QED BY <1>1, <1>2 DEF PageInv, CrossedKnown, AloneIsLast, SureOfIt

Known == Answering /\ CrossedKnown /\ AloneIsLast /\ SureOfIt

\* The steps that the page takes no notice of.
Unnoticed ==
  \/ ReadSwitches \/ Reject \/ GetFile \/ Network
  \/ (Accept \/ Read \/ ReadFails \/ WriteHeader \/ WriteBody) /\ UNCHANGED page_vars
  \/ UNCHANGED all

LEMMA KnownUnnoticed == PageInv /\ Unnoticed => Known'
<1> SUFFICES ASSUME PageInv, Unnoticed PROVE Known'
  OBVIOUS
<1> USE ClientAssumption, ColorAssumption
<1>0. UNCHANGED page_vars
  BY DEF Unnoticed, ReadSwitches, Reject, GetFile, Network, all
<1>1. UNCHANGED <<ask, xhr, led, shown, crossed, sure>>
  BY <1>0 DEF page_vars
<1>2. Answering
  BY DEF PageInv
<1>3. CASE Accept
  <2>1. Answering'
    BY <1>3 DEF Accept, Answering
  <2> QED BY <1>0, <1>1, <1>3, <2>1, FewerAccepted, Steady DEF Known
<1>4. ASSUME UNCHANGED backlog,
             server' \in {"read", "respond"} /\ sd' \in Client =>
               server \in {"read", "respond"} /\ sd' = sd,
             Answering'
      PROVE  Known'
  BY <1>0, <1>1, <1>4, Fewer, Steady DEF Known
<1>5. CASE ReadSwitches
  BY <1>1, <1>4, <1>5
  DEF ReadSwitches, Post, Respond, Answering, clients
<1>6. CASE Reject
  BY <1>1, <1>4, <1>6
  DEF Reject, PostRejected, Respond, Answering, clients
<1>7. CASE GetFile
  BY <1>1, <1>4, <1>7
  DEF GetFile, Get, NotFound, Respond, Answering, clients
<1>8. CASE Network
  BY <1>1, <1>2, <1>4, <1>8
  DEF Network, AcceptFails, CardFails, Ask, Stall, Move, Answering, clients
<1>9. CASE Read \/ ReadFails \/ WriteHeader \/ WriteBody
  BY <1>1, <1>2, <1>4, <1>9
  DEF Read, ReadFails, WriteHeader, WriteBody, Answering, clients
<1>10. CASE UNCHANGED all
  BY <1>1, <1>2, <1>4, <1>10 DEF all, vars, clients, Answering
<1> QED BY <1>3, <1>5, <1>6, <1>7, <1>8, <1>9, <1>10 DEF Unnoticed

\* The LED is set: nobody who knew what it shows can be there, because this
\* command could still be obeyed.
LEMMA KnownObey == PageInv /\ Obey => Known'
<1> SUFFICES ASSUME PageInv, Obey PROVE Known'
  OBVIOUS
<1>1. /\ server = "respond" /\ sd \in Client /\ ask[sd] \in Color
      /\ led' = ask[sd] /\ server' = "post"
      /\ UNCHANGED <<ask, xhr, shown, crossed, sure, backlog, sd>>
  BY DEF Obey, Command, Post, Respond, clients, PageInv, Queue
<1>2. ~NonePending
  BY <1>1 DEF NonePending
<1>3. Answering'
  BY <1>1 DEF Answering
<1>4. CrossedKnown' /\ UnderWay' = UnderWay
  BY <1>1 DEF PageInv, CrossedKnown, UnderWay, Waiting
<1>5. \A d \in Client : LastCommand(d) => LastCommand(d)'
  BY <1>1, Fewer
<1>6. UnderWay \subseteq Client
  BY DEF UnderWay, Waiting
<1>7. AloneIsLast'
  BY <1>1, <1>2, <1>4, <1>5, <1>6 DEF PageInv, AloneIsLast
<1>8. SureOfIt'
  BY <1>1, <1>2, <1>4 DEF PageInv, SureOfIt
<1> QED BY <1>3, <1>4, <1>7, <1>8 DEF Known

\* The answer goes out.  If it is to a command that was under way alone, that
\* was the last one.
LEMMA KnownFinish == PageInv /\ Finish => Known'
<1> SUFFICES ASSUME PageInv, Finish PROVE Known'
  OBVIOUS
<1>1. /\ server \in {"post", "body"} /\ sd \in Client /\ server' = "close"
      /\ UNCHANGED <<ask, led, shown, crossed, sure, backlog, sd>>
      /\ \A k \in 1 .. Len(backlog) : backlog[k] # sd
  BY DEF Finish, WritePost, BodyDone, clients, PageInv, Queue
<1>2. /\ NonePending => NonePending'
      /\ \A d \in Client : LastCommand(d) => LastCommand(d)'
  BY <1>1, Fewer
<1>3. xhr \in [Client -> XhrState]
  BY DEF PageInv, PageTypeOK, XhrState
<1>4. /\ \A d \in Client : d # sd => xhr'[d] = xhr[d]
      /\ xhr'[sd] = xhr[sd] \/ (xhr[sd] = "sent" /\ xhr'[sd] = "answered")
  BY <1>1, <1>3 DEF Finish
<1>5. UnderWay' = UnderWay /\ UnderWay \subseteq Client
  BY <1>1, <1>4 DEF UnderWay, Waiting
<1>6. Answering' /\ CrossedKnown' /\ SureOfIt'
  BY <1>1, <1>2, <1>5 DEF PageInv, Answering, CrossedKnown, SureOfIt
<1>7. ASSUME sd \in UnderWay \ crossed, xhr[sd] = "sent"
      PROVE  led = ask[sd] /\ NonePending'
  <2>1. ask[sd] \in Color /\ LastCommand(sd)
    BY <1>7 DEF UnderWay, Waiting, PageInv, AloneIsLast
  <2>2. led = ask[sd]
    BY <1>1, <2>1 DEF PageInv, Answering
  <2>3. \A k \in 1 .. Len(backlog) : ask[backlog[k]] \notin Color
    <3>1. SUFFICES ASSUME NEW k \in 1 .. Len(backlog), ask[backlog[k]] \in Color
                   PROVE  FALSE
      OBVIOUS
    <3>2. PICK j \in k .. Len(backlog) : backlog[j] = sd
      BY <2>1, <3>1 DEF LastCommand
    <3>3. j \in 1 .. Len(backlog)
      BY <3>2
    <3> QED BY <1>1, <3>2, <3>3
  <2> QED BY <1>1, <2>2, <2>3 DEF NonePending
<1>8. AloneIsLast'
  BY <1>1, <1>2, <1>4, <1>5, <1>7 DEF PageInv, AloneIsLast
<1> QED BY <1>6, <1>8 DEF Known

\* The connection is closed, whether the page waits or not.
LEMMA KnownEnd == PageInv /\ End => Known'
<1> SUFFICES ASSUME PageInv, End PROVE Known'
  OBVIOUS
<1> USE ClientAssumption, ColorAssumption
<1>1. /\ server' \in {"accept", "deleted"} /\ UNCHANGED backlog
      /\ UNCHANGED <<led, shown, crossed, sure>>
  BY DEF End, Close, Hangup
<1>2. /\ xhr \in [Client -> XhrState]
      /\ ask \in [Client -> Commands \union {"file"}] /\ sd \in Client \union {NoClient}
  BY DEF PageInv, PageTypeOK, XhrState, Inv, TypeOK
<1>3. \A d \in Client :
        /\ xhr'[d] = xhr[d] \/ (xhr[d] = "sent" /\ xhr'[d] = "failed")
        /\ ask'[d] = ask[d] \/ (xhr[d] \in {"none", "fading"} /\ ask'[d] = "file")
  BY <1>2 DEF End
<1>4. /\ NonePending => NonePending'
      /\ \A d \in Client : LastCommand(d) => LastCommand(d)'
  BY <1>1, <1>3, Fewer
<1>5. UnderWay' = UnderWay /\ UnderWay \subseteq Client
  BY <1>3 DEF UnderWay, Waiting
<1>6. \A d \in UnderWay : ask'[d] = ask[d]
  BY <1>3 DEF UnderWay, Waiting
<1>7. Answering' /\ CrossedKnown' /\ SureOfIt'
  BY <1>1, <1>4, <1>5 DEF PageInv, Answering, CrossedKnown, SureOfIt
<1>8. AloneIsLast'
  BY <1>1, <1>3, <1>4, <1>5, <1>6 DEF PageInv, AloneIsLast
<1> QED BY <1>7, <1>8 DEF Known

\* A request that is no command for the LED makes no difference.
LEMMA KnownOther ==
  ASSUME PageInv, NEW c \in Client, PageLoaded(c) \/ SwitchSubmit(c) \/ Navigate(c)
  PROVE  Known'
<1> USE ColorAssumption
<1>1. PICK q : q \in {"switch", "file"} /\ Request(c, q)
  BY DEF PageLoaded, SwitchSubmit, Navigate
<1>2. UNCHANGED crossed
  BY DEF PageLoaded, SwitchSubmit, Navigate
<1>3. /\ xhr[c] = "none"
      /\ ask' = [ask EXCEPT ![c] = q] /\ xhr' = [xhr EXCEPT ![c] = "sent"]
      /\ UNCHANGED <<led, shown, sure, server, sd>>
      /\ Len(backlog) \in Nat /\ Len(backlog') = Len(backlog) + 1
      /\ \A k \in 1 .. Len(backlog) :
           backlog'[k] = backlog[k] /\ backlog[k] \in Client /\ backlog[k] # c
      /\ backlog'[Len(backlog) + 1] = c
      /\ server # "deleted" => sd # c
  BY <1>1, RequestMade
<1>4. /\ xhr \in [Client -> XhrState]
      /\ ask \in [Client -> Commands \union {"file"}] /\ sd \in Client \union {NoClient}
      /\ Answering /\ CrossedKnown /\ AloneIsLast /\ SureOfIt
      /\ (server \in {"header", "body", "post"} => sd \in Client)
  BY DEF PageInv, PageTypeOK, XhrState, Inv, TypeOK, Queue
<1>5. /\ ask'[c] \notin Color
      /\ \A d \in Client : d # c => ask'[d] = ask[d] /\ xhr'[d] = xhr[d]
  BY <1>1, <1>3, <1>4
<1>6. UnderWay' = UnderWay /\ UnderWay \subseteq Client \ {c}
  BY <1>3, <1>5 DEF UnderWay, Waiting
<1>7. \A k \in 1 .. Len(backlog') : k \in 1 .. Len(backlog) \/ backlog'[k] = c
  BY <1>3
<1>8. NonePending => NonePending'
  BY <1>3, <1>5, <1>7 DEF NonePending
<1>9. ASSUME NEW d \in Client, LastCommand(d)
      PROVE  LastCommand(d)'
  <2>1. SUFFICES ASSUME NEW k \in 1 .. Len(backlog'), ask'[backlog'[k]] \in Color
                 PROVE  \E j \in k .. Len(backlog') : backlog'[j] = d
    BY DEF LastCommand
  <2>2. k \in 1 .. Len(backlog) /\ ask[backlog[k]] \in Color
    BY <1>3, <1>5, <1>7, <2>1
  <2>3. PICK j \in k .. Len(backlog) : backlog[j] = d
    BY <1>9, <2>2 DEF LastCommand
  <2>4. j \in k .. Len(backlog') /\ backlog'[j] = d
    BY <1>3, <2>2, <2>3
  <2> QED BY <2>4
<1>10. Answering'
  BY <1>3, <1>4, <1>5 DEF Answering
<1>11. CrossedKnown' /\ SureOfIt'
  BY <1>2, <1>3, <1>4, <1>6, <1>8 DEF CrossedKnown, SureOfIt
<1>12. AloneIsLast'
  BY <1>2, <1>3, <1>4, <1>5, <1>6, <1>8, <1>9 DEF AloneIsLast
<1> QED BY <1>10, <1>11, <1>12 DEF Known

\* A command for the LED is the last one in the backlog, and the page knows
\* of all that are under way when there are others.
LEMMA KnownLedSubmit ==
  ASSUME PageInv, NEW c \in Client, NEW color \in Color, LedSubmit(c, color)
  PROVE  Known'
<1>1. Request(c, color)
  BY DEF LedSubmit
<1>2. crossed' = IF UnderWay = {} THEN crossed ELSE crossed \union {c} \union UnderWay
  BY DEF LedSubmit
<1>3. /\ xhr[c] = "none"
      /\ ask' = [ask EXCEPT ![c] = color] /\ xhr' = [xhr EXCEPT ![c] = "sent"]
      /\ UNCHANGED <<led, shown, sure, server, sd>>
      /\ Len(backlog) \in Nat /\ Len(backlog') = Len(backlog) + 1
      /\ backlog'[Len(backlog) + 1] = c
      /\ server # "deleted" => sd # c
  BY <1>1, RequestMade
<1>4. /\ xhr \in [Client -> XhrState]
      /\ ask \in [Client -> Commands \union {"file"}]
      /\ Answering
      /\ (server \in {"header", "body", "post"} => sd \in Client)
  BY DEF PageInv, PageTypeOK, XhrState, Queue
<1>5. /\ ask'[c] = color /\ xhr'[c] = "sent"
      /\ \A d \in Client : d # c => ask'[d] = ask[d] /\ xhr'[d] = xhr[d]
  BY <1>3, <1>4
<1>6. UnderWay' = UnderWay \union {c}
  BY <1>3, <1>5 DEF UnderWay, Waiting
<1>7. UnderWay' \ crossed' \subseteq {c}
  BY <1>2, <1>6
<1>8. LastCommand(c)'
  <2>1. \A k \in 1 .. Len(backlog') : Len(backlog') \in k .. Len(backlog')
    BY <1>3
  <2> QED BY <1>3, <2>1 DEF LastCommand
<1>9. AloneIsLast'
  BY <1>5, <1>7, <1>8 DEF AloneIsLast
<1>10. Answering'
  BY <1>3, <1>4, <1>5 DEF Answering
<1>11. CrossedKnown' /\ SureOfIt'
  BY <1>2, <1>6 DEF CrossedKnown, SureOfIt
<1> QED BY <1>9, <1>10, <1>11 DEF Known

\* An answer that arrives: if nothing was under way with its command, the page
\* is right from now on.
LEMMA KnownSuccess ==
  ASSUME PageInv, NEW c \in Client, Success(c)
  PROVE  Known'
<1> USE ColorAssumption
<1>1. /\ xhr[c] = "answered"
      /\ \E end \in {"none", "fading"} : xhr' = [xhr EXCEPT ![c] = end]
      /\ crossed' = crossed \ {c}
      /\ ask' = (IF conn[c] = "idle" THEN [ask EXCEPT ![c] = "file"] ELSE ask)
      /\ UNCHANGED <<led, server, sd, backlog, conn>>
  BY DEF Success, Forgotten, vars, clients
<1>2. IF ask[c] \in Color THEN shown' = ask[c] /\ sure' = (c \notin crossed)
                          ELSE UNCHANGED <<shown, sure>>
  BY DEF Success
<1>3. /\ xhr \in [Client -> XhrState]
      /\ ask \in [Client -> Commands \union {"file"}]
      /\ Answering /\ CrossedKnown /\ AloneIsLast /\ SureOfIt
      /\ (server \in {"header", "body", "post"} => sd \in Client /\ conn[sd] # "idle")
  BY DEF PageInv, PageTypeOK, XhrState, Queue
<1>4. /\ xhr'[c] \in {"none", "fading"}
      /\ \A d \in Client : d # c => ask'[d] = ask[d] /\ xhr'[d] = xhr[d]
      /\ \A d \in Client : ask'[d] \in Color => ask[d] \in Color
  BY <1>1, <1>3
<1>5. UnderWay' = UnderWay \ {c} /\ UnderWay \subseteq Client
  BY <1>1, <1>4 DEF UnderWay, Waiting
<1>6. /\ NonePending => NonePending'
      /\ \A d \in Client : LastCommand(d) => LastCommand(d)'
  BY <1>1, <1>4, Fewer
<1>7. Answering'
  BY <1>1, <1>3, <1>4 DEF Answering
<1>8. CrossedKnown'
  BY <1>1, <1>3, <1>5 DEF CrossedKnown
<1>9. AloneIsLast'
  BY <1>1, <1>3, <1>4, <1>5, <1>6 DEF AloneIsLast
<1>10. SureOfIt'
  <2>1. CASE ask[c] \in Color
    <3>1. c \in UnderWay
      BY <1>1, <2>1 DEF UnderWay, Waiting
    <3>2. c \notin crossed => led = ask[c] /\ NonePending
      BY <1>1, <1>3, <3>1 DEF AloneIsLast
    <3> QED BY <1>1, <1>2, <1>6, <2>1, <3>2 DEF SureOfIt
  <2>2. CASE ask[c] \notin Color
    <3>1. UnderWay' = UnderWay
      BY <1>5, <2>2 DEF UnderWay, Waiting
    <3> QED BY <1>1, <1>2, <1>3, <1>6, <2>2, <3>1 DEF SureOfIt
  <2> QED BY <2>1, <2>2
<1> QED BY <1>7, <1>8, <1>9, <1>10 DEF Known

\* A command that fails, or is given up, leaves the page unsure.
LEMMA KnownFailure ==
  ASSUME PageInv, NEW c \in Client, Failed(c) \/ Timeout(c) \/ Stop(c)
  PROVE  Known'
<1> USE ColorAssumption
<1>1. /\ Failure(c) /\ Waiting(c)
      /\ UNCHANGED <<backlog, server, sd>>
      /\ conn'[c] = "idle" => (server # "deleted" => sd # c)
  BY FailureMade
<1>2. /\ \E end \in {"none", "fading"} : xhr' = [xhr EXCEPT ![c] = end]
      /\ crossed' = crossed \ {c}
      /\ ask' = (IF conn'[c] = "idle" THEN [ask EXCEPT ![c] = "file"] ELSE ask)
      /\ UNCHANGED <<led, shown>>
  BY <1>1 DEF Failure, Forgotten, FadingAfterFailure
<1>3. sure' => sure /\ ask[c] \notin Color
  BY <1>1, Zenon DEF Failure
<1>4. /\ xhr \in [Client -> XhrState]
      /\ ask \in [Client -> Commands \union {"file"}]
      /\ Answering /\ CrossedKnown /\ AloneIsLast /\ SureOfIt
      /\ (server \in {"header", "body", "post"} => sd \in Client)
  BY DEF PageInv, PageTypeOK, XhrState, Queue
<1>5. /\ xhr'[c] \in {"none", "fading"}
      /\ \A d \in Client : d # c => ask'[d] = ask[d] /\ xhr'[d] = xhr[d]
      /\ \A d \in Client : ask'[d] \in Color => ask[d] \in Color
  BY <1>2, <1>4
<1>6. UnderWay' = UnderWay \ {c} /\ UnderWay \subseteq Client
  BY <1>1, <1>5 DEF UnderWay, Waiting
<1>7. /\ NonePending => NonePending'
      /\ \A d \in Client : LastCommand(d) => LastCommand(d)'
  BY <1>1, <1>5, Fewer
<1>8. Answering'
  BY <1>1, <1>2, <1>4, <1>5 DEF Answering
<1>9. CrossedKnown'
  BY <1>2, <1>4, <1>6 DEF CrossedKnown
<1>10. AloneIsLast'
  BY <1>2, <1>4, <1>5, <1>6, <1>7 DEF AloneIsLast
<1>11. SureOfIt'
  <2>1. sure' => UnderWay' = UnderWay
    BY <1>3, <1>6 DEF UnderWay, Waiting
  <2> QED BY <1>2, <1>3, <1>4, <1>7, <2>1 DEF SureOfIt
<1> QED BY <1>8, <1>9, <1>10, <1>11 DEF Known

\* The form for the switches has nothing to do with it.
LEMMA KnownFadedIn ==
  ASSUME PageInv, NEW c \in Client, FadedIn(c)
  PROVE  Known'
<1>1. /\ UNCHANGED <<ask, led, shown, crossed, sure, backlog, server, sd>>
      /\ xhr[c] = "fading" /\ xhr' = [xhr EXCEPT ![c] = "none"]
  BY DEF FadedIn, vars, clients
<1>2. /\ xhr'[c] = "none"
      /\ \A d \in Client : d # c => xhr'[d] = xhr[d]
  BY <1>1 DEF PageInv, PageTypeOK, XhrState
<1>3. /\ NonePending => NonePending'
      /\ \A d \in Client : LastCommand(d) => LastCommand(d)'
  BY <1>1, Fewer
<1>4. UnderWay' = UnderWay /\ UnderWay \subseteq Client
  BY <1>1, <1>2 DEF UnderWay, Waiting
<1> QED
  BY <1>1, <1>2, <1>3, <1>4
  DEF Known, PageInv, Answering, CrossedKnown, AloneIsLast, SureOfIt

LEMMA PageInvInit == PageInit => PageInv
<1> SUFFICES ASSUME PageInit PROVE PageInv
  OBVIOUS
<1> USE ClientAssumption, ColorAssumption
<1>1. /\ Init /\ Inv
      /\ ask = [c \in Client |-> "file"] /\ xhr = [c \in Client |-> "none"]
      /\ led \in Color /\ shown = Off /\ form = "new" /\ crossed = {} /\ sure = FALSE
  BY InvInit DEF PageInit
<1>2. backlog = << >> /\ server = "accept" /\ sd = NoClient
  BY <1>1 DEF Init
<1>3. PageTypeOK
  BY <1>1 DEF PageTypeOK, Commands
<1>4. Queue
  BY <1>2 DEF Queue
<1>5. UnderWay = {}
  BY <1>1 DEF UnderWay, Waiting
<1>6. Answering /\ CrossedKnown /\ AloneIsLast /\ SureOfIt
  BY <1>1, <1>2, <1>5 DEF Answering, CrossedKnown, AloneIsLast, SureOfIt
<1> QED BY <1>1, <1>3, <1>4, <1>6 DEF PageInv

LEMMA PageInvNext == PageInv /\ [PageNext]_all => PageInv'
<1> SUFFICES ASSUME PageInv, [PageNext]_all PROVE PageInv'
  OBVIOUS
<1>1. Inv' /\ Queue' /\ PageTypeOK'
  BY PageRefines, InvNext, QueueNext, PageTypeNext DEF PageInv
<1>2. Known'
  BY KnownUnnoticed, KnownObey, KnownFinish, KnownEnd, KnownOther, KnownLedSubmit,
     KnownSuccess, KnownFailure, KnownFadedIn
  DEF PageNext, Serve, Unnoticed
<1> QED BY <1>1, <1>2 DEF PageInv, Known

\* The invariant of the page and the server together.
THEOREM PageInductive == PageSpec => []PageInv
BY PageInvInit, PageInvNext, PTL DEF PageSpec

\* Types of the page, for any number of connections and colours.
THEOREM PageTypes == PageSpec => []PageTypeOK
<1>1. PageInv => PageTypeOK
  BY DEF PageInv
<1> QED BY <1>1, PageInductive, PTL

\* When the last command for the LED has been answered and was under way
\* alone, the page shows the LED as it is: no command that the page gave up
\* before (main.js:116) is obeyed later.
THEOREM PageTrue == PageSpec => []PageAgrees
<1>1. PageInv => PageAgrees
  BY DEF PageInv, SureOfIt, PageAgrees
<1> QED BY <1>1, PageInductive, PTL

\* Composed with the page, the server keeps what is proved of it above.
THEOREM PageKeepsServer == PageSpec => [](LengthMatches /\ SocketsClosed)
<1>1. PageInv => LengthMatches /\ SocketsClosed
  BY DEF PageInv, Inv
<1> QED BY <1>1, PageInductive, PTL
=============================================================================
