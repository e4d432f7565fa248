------------------------------ MODULE WebPage ------------------------------
(***************************************************************************)
(* The page in the browser (webpages/js/main.js) and the web server        *)
(* (WebServer) that it talks to.  The page sends commands for an LED while *)
(* others are under way and requests for the switches, and gives a request *)
(* up after three seconds, which the server does not know of.  The browser *)
(* also gets files.  Each element of Client is a connection of this        *)
(* browser, which carries one request, and the next when what the page     *)
(* shows of it has been faded in.  One of the two LEDs is here, and nobody *)
(* else sets it.                                                           *)
(***************************************************************************)
EXTENDS WebServer

CONSTANTS
  Color,        \* the colours of the LED
  Off           \* the colour at the start

ASSUME ColorAssumption == Off \in Color /\ Color \cap {"switch", "file"} = {}

Commands == Color \union {"switch"}

VARIABLES
  ask,          \* ask[c]: the request that was made on connection c
  xhr,          \* xhr[c]: "none" under way, "sent", its answer is on its way
                \* to the page ("answered"), or it ends without one ("failed");
                \* what the page shows of its end is "fading" in
  led,          \* the colour that control_rgb_leds has set
  shown,        \* the colour that the page shows
  form,         \* the form for the switches: not there yet ("new"), enabled
                \* ("on") or disabled ("off")
  \* History variables, read by no guard:
  crossed,      \* commands for the LED that were under way with another
  sure          \* the last command for the LED that ended was answered, and
                \* not crossed

page_vars == <<ask, xhr, led, shown, form, crossed, sure>>
all == <<vars, page_vars>>

PageTypeOK ==
  /\ ask \in [Client -> Commands \union {"file"}]
  /\ xhr \in [Client -> {"none", "sent", "answered", "failed", "fading"}]
  /\ led \in Color /\ shown \in Color
  /\ form \in {"new", "off", "on"}
  /\ crossed \subseteq Client /\ sure \in BOOLEAN

\* The board may have been used before: the colours are any.
PageInit ==
  /\ Init
  /\ ask = [c \in Client |-> "file"]
  /\ xhr = [c \in Client |-> "none"]
  /\ led \in Color
  /\ shown = Off
  /\ form = "new"
  /\ crossed = {} /\ sure = FALSE

-----------------------------------------------------------------------------
(* The page.                                                               *)

Waiting(c) == xhr[c] \in {"sent", "answered", "failed"}

UnderWay == {c \in Client : Waiting(c) /\ ask[c] \in Color}

Request(c, q) ==
  /\ xhr[c] = "none"
  /\ Connect(c)
  /\ ask' = [ask EXCEPT ![c] = q]
  /\ xhr' = [xhr EXCEPT ![c] = "sent"]
  /\ UNCHANGED <<led, shown, sure>>

\* led_submit; the form stays enabled.
LedSubmit(c, color) ==
  /\ Request(c, color)
  /\ crossed' = IF UnderWay = {} THEN crossed ELSE crossed \union {c} \union UnderWay
  /\ UNCHANGED form

\* init asks for the switches and leaves the form enabled.
PageLoaded(c) ==
  /\ form = "new"
  /\ Request(c, "switch")
  /\ form' = "on"
  /\ UNCHANGED crossed

\* switch_submit.
SwitchSubmit(c) ==
  /\ form = "on"
  /\ Request(c, "switch")
  /\ form' = "off"
  /\ UNCHANGED crossed

\* The browser follows a link, or the user loads the page.
Navigate(c) ==
  /\ Request(c, "file")
  /\ UNCHANGED <<crossed, form>>

\* The page has done with the request on c, and so has the connection if it is
\* closed.
Forgotten(c) ==
  /\ ask' = IF conn'[c] = "idle" THEN [ask EXCEPT ![c] = "file"] ELSE ask
  /\ crossed' = crossed \ {c}

\* success of led_callback, to which the answer repeats the command, and of
\* switch_callback.
Success(c) ==
  /\ xhr[c] = "answered"
  /\ xhr' = [xhr EXCEPT ![c] = IF ask[c] = "switch" THEN "fading" ELSE "none"]
  /\ IF ask[c] \in Color
     THEN shown' = ask[c] /\ sure' = (c \notin crossed)
     ELSE UNCHANGED <<shown, sure>>
  /\ UNCHANGED vars
  /\ Forgotten(c)
  /\ UNCHANGED <<led, form>>

\* Fault: nothing enables the form again.
NeverFading(c) == "none"

FadingAfterFailure(c) == IF ask[c] = "switch" THEN "fading" ELSE "none"

\* failure of led_callback, which says so, and switch_callback.
Failure(c) ==
  /\ xhr' = [xhr EXCEPT ![c] = FadingAfterFailure(c)]
  /\ sure' = (sure /\ ask[c] \notin Color)
  /\ Forgotten(c)
  /\ UNCHANGED <<led, shown, form>>

Failed(c) == xhr[c] = "failed" /\ UNCHANGED vars /\ Failure(c)

\* After three seconds the page gives a command up, even if the answer is on
\* its way.
Timeout(c) ==
  /\ Waiting(c) /\ ask[c] \in Commands
  /\ Leave(c) \/ (conn[c] = "idle" /\ UNCHANGED vars)
  /\ Failure(c)

\* The user leaves a page that is being loaded.
Stop(c) ==
  /\ xhr[c] = "sent" /\ ask[c] = "file"
  /\ Leave(c)
  /\ Failure(c)

\* onComplete of result_fade_in: it enables the form, even if another request
\* for the switches is under way.
FadedIn(c) ==
  /\ xhr[c] = "fading"
  /\ xhr' = [xhr EXCEPT ![c] = "none"]
  /\ form' = "on"
  /\ UNCHANGED <<vars, ask, led, shown, crossed, sure>>

-----------------------------------------------------------------------------
(* The server, as far as the page takes notice.                            *)

\* Fault: control_rgb_leds may fail, and nobody looks at its result.
CommandUnchecked(color) ==
  /\ Post
  /\ led' \in {color, led}
  /\ UNCHANGED <<ask, xhr, shown, form, crossed, sure>>

\* do_http_post sets the LED and formats the answer.
Command(color) ==
  /\ Post
  /\ led' = color
  /\ UNCHANGED <<ask, xhr, shown, form, crossed, sure>>

\* Fault: any command is taken for one for the LED.
ObeyAny == server = "respond" /\ Command(ask[sd])

Obey == server = "respond" /\ ask[sd] \in Color /\ Command(ask[sd])

\* get_switch_state and the formatting of what it returns.
ReadSwitches == Post /\ ask[sd] = "switch" /\ UNCHANGED page_vars

\* The request was read once and only the header had arrived: strstr finds no
\* command, or the one before, whose '&' has been replaced by the end of the
\* string.  (The same happens to a request whose sensor cannot be read.)
Reject == PostRejected /\ ask[sd] \in Commands /\ UNCHANGED page_vars

GetFile == (Get \/ NotFound) /\ ask[sd] = "file" /\ UNCHANGED page_vars

\* The response goes out; the page hears of it unless it has gone.
Finish ==
  /\ WritePost \/ BodyDone
  /\ xhr' = IF complete' /\ xhr[sd] = "sent" /\ conn[sd] # "left"
            THEN [xhr EXCEPT ![sd] = "answered"] ELSE xhr
  /\ UNCHANGED <<ask, led, shown, form, crossed, sure>>

\* The connection is closed; the page hears of it if it still waits.
End ==
  /\ Close \/ Hangup
  /\ IF sd = NoClient THEN UNCHANGED <<xhr, ask>>
     ELSE /\ xhr' = IF xhr[sd] = "sent" THEN [xhr EXCEPT ![sd] = "failed"] ELSE xhr
          /\ ask' = IF xhr[sd] \in {"none", "fading"}
                    THEN [ask EXCEPT ![sd] = "file"] ELSE ask
  /\ UNCHANGED <<led, shown, form, crossed, sure>>

Serve ==
  \/ Obey \/ ReadSwitches \/ Reject \/ GetFile \/ Finish \/ End
  \/ (Accept \/ Read \/ ReadFails \/ WriteHeader \/ WriteBody) /\ UNCHANGED page_vars

Network ==
  /\ \/ AcceptFails \/ CardFails
     \/ \E c \in Client : Ask(c) \/ Stall(c)
  /\ UNCHANGED page_vars

PageNext ==
  \/ Serve \/ Network
  \/ \E c \in Client :
       \/ PageLoaded(c) \/ SwitchSubmit(c) \/ Navigate(c)
       \/ Success(c) \/ Failed(c) \/ Timeout(c) \/ Stop(c) \/ FadedIn(c)
       \/ \E color \in Color : LedSubmit(c, color)

\* main_thread runs whenever it can, timers fire and callbacks are called.
PageSpec ==
  /\ PageInit /\ [][PageNext]_all
  /\ WF_all(Serve)
  /\ \A c \in Client :
       /\ WF_all(Success(c)) /\ WF_all(Failed(c)) /\ WF_all(Timeout(c))
       /\ WF_all(FadedIn(c))

-----------------------------------------------------------------------------
(* Properties                                                              *)

\* When the last command for the LED has been answered, and was not under way
\* together with another one, the page shows the LED as it is: commands that
\* the page gave up before are not obeyed later than that.
PageAgrees == UnderWay = {} /\ sure => shown = led

\* The form for the switches does not stay disabled, whatever becomes of the
\* server.
FormReturns == form = "off" ~> form = "on"
=============================================================================
