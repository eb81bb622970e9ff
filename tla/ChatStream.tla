----------------------------- MODULE ChatStream -----------------------------
(***************************************************************************)
(* One answer on its way: the llama server, the handler of POST /api/chat  *)
(* in server.js, and the page's readAssistantStream.                       *)
(*                                                                         *)
(* The stream is a sequence of events, each of three pieces: the beginning *)
(* of a `data:' line, its rest with the end of line, and the empty line    *)
(* that dispatches it.  Pieces are numbered from 1; the last event is      *)
(* [DONE].  Network chunks of any size are runs of pieces.  The page and   *)
(* the server each notice in their own time that the other has gone.       *)
(***************************************************************************)
EXTENDS Naturals, Sequences

CONSTANT Answer     \* the number of events before [DONE]

ASSUME AnswerAssumption == Answer \in Nat

VARIABLES
    page,       \* where sendMessage is with the answer, and how it ended
    buffer,     \* text that has no end of line yet
    data,       \* dataLines: an event that is not dispatched yet, or NoData
    shown,      \* the events that were given to onChunk
    left,       \* the page has dropped the connection
    handler,    \* what the handler awaits
    aborted,    \* controller.signal.aborted
    head,       \* what res.writeHead has been called with
    wire,       \* the body on its way from res.write to the page
    ended,      \* res.end() has been called
    closed,     \* res.destroyed
    upstream,   \* the llama server, for this request
    sent        \* how many pieces of the stream it has sent

pageVars == <<page, buffer, data, shown, left>>
responseVars == <<head, wire, ended>>
upstreamVars == <<upstream, sent>>
vars == <<pageVars, handler, aborted, responseVars, closed, upstreamVars>>

Done == Answer + 1
Length == 3 * Done
ErrorText == Length + 1     \* {"error":...}: as the beginning of a line, not an end
Pieces == 1..ErrorText
NoData == 0
Broken == Done + 1          \* data that JSON.parse refuses

Waiting == {"fetching", "reading"}
Settled == {"completed", "stopped", "interrupted"}
\* Between res.on("close") and res.off("close").
Listening == {"calling", "cancelling", "streaming"}
Working == {"asked", "generating"}

TypeOK ==
    /\ page \in Waiting \union Settled
    /\ buffer \in Seq(Pieces)
    /\ data \in NoData..Broken
    /\ shown \in Seq(1..Answer)
    /\ left \in BOOLEAN
    /\ handler \in {"none", "reading-body", "over"} \union Listening
    /\ aborted \in BOOLEAN
    /\ head \in {"none", "stream", "error"}
    /\ wire \in Seq(Pieces)
    /\ ended \in BOOLEAN
    /\ closed \in BOOLEAN
    /\ upstream \in {"none", "refused", "ended", "failed", "cancelled"} \union Working
    /\ sent \in 0..Length

\* The page has just called fetch("/api/chat").
Init ==
    /\ page = "fetching"
    /\ buffer = <<>> /\ data = NoData /\ shown = <<>>
    /\ left = FALSE
    /\ handler = "none"
    /\ aborted = FALSE
    /\ head = "none" /\ wire = <<>> /\ ended = FALSE
    /\ closed = FALSE
    /\ upstream = "none" /\ sent = 0

-----------------------------------------------------------------------------
(* The handler before its call.                                            *)

\* A status and a text; the page shows the text as the reason.
RespondWithError ==
    /\ head' = "error"
    /\ ended' = TRUE
    /\ UNCHANGED wire

RequestArrives ==
    /\ handler = "none"
    /\ ~closed
    /\ \/ handler' = "reading-body" /\ UNCHANGED responseVars
       \/ handler' = "over" /\ RespondWithError
    /\ UNCHANGED <<pageVars, aborted, closed, upstreamVars>>

\* The body is good and a model is configured: down to the await of fetch.
BodyRead ==
    /\ handler = "reading-body"
    /\ ~closed
    /\ handler' = "calling"
    /\ upstream' = "asked"
    /\ UNCHANGED <<pageVars, aborted, responseVars, closed, sent>>

\* It is not, or the connection broke while it was read.
BodyFails ==
    /\ handler = "reading-body"
    /\ handler' = "over"
    /\ RespondWithError
    /\ UNCHANGED <<pageVars, aborted, closed, upstreamVars>>

-----------------------------------------------------------------------------
(* The handler and the llama server.                                       *)

UpstreamAccepts ==
    /\ handler = "calling" /\ upstream = "asked" /\ ~aborted
    /\ upstream' = "generating"
    /\ head' = "stream"
    /\ handler' = "streaming"
    /\ UNCHANGED <<pageVars, aborted, wire, ended, closed, sent>>

\* !upstream.ok: its body is cancelled first.
UpstreamRefuses ==
    /\ handler = "calling" /\ upstream = "asked" /\ ~aborted
    /\ upstream' = "refused"
    /\ handler' = "cancelling"
    /\ UNCHANGED <<pageVars, aborted, responseVars, closed, sent>>

RefusalForwarded ==
    /\ handler = "cancelling" /\ ~aborted
    /\ handler' = "over"
    /\ IF closed THEN UNCHANGED responseVars ELSE RespondWithError
    /\ UNCHANGED <<pageVars, aborted, closed, upstreamVars>>

\* A read of the loop; what the llama server has sent is read before it is done.
PieceForwarded ==
    /\ handler = "streaming" /\ upstream = "generating" /\ ~aborted
    /\ sent < Length
    /\ sent' = sent + 1
    /\ wire' = IF closed THEN wire ELSE Append(wire, sent + 1)
    /\ handler' = IF closed THEN "over" ELSE handler
    /\ UNCHANGED <<pageVars, aborted, head, ended, closed, upstream>>

\* The end of the upstream is forgotten to be passed on.
FaultyUpstreamEnds ==
    /\ handler = "streaming" /\ upstream = "generating" /\ ~aborted
    /\ upstream' = "ended"
    /\ handler' = "over"
    /\ UNCHANGED <<pageVars, aborted, responseVars, closed, sent>>

\* `done', after [DONE] or (a slot that is released early) before it.
UpstreamEnds ==
    /\ handler = "streaming" /\ upstream = "generating" /\ ~aborted
    /\ sent % 3 # 1
    /\ upstream' = "ended"
    /\ handler' = "over"
    /\ ended' = (ended \/ ~closed)
    /\ UNCHANGED <<pageVars, aborted, head, wire, closed, sent>>

\* An error after the headers is not told.
FaultyUpstreamFails ==
    /\ handler \in {"calling", "streaming"} /\ upstream \in Working /\ ~aborted
    /\ upstream' = "failed"
    /\ handler' = "over"
    /\ IF closed \/ head # "none" THEN UNCHANGED responseVars ELSE RespondWithError
    /\ UNCHANGED <<pageVars, aborted, closed, sent>>

\* No connection, a connection that breaks or times out, in the middle of a line
\* or not.  After the headers the error text can only go behind the stream.
UpstreamFails ==
    /\ handler \in {"calling", "streaming"} /\ upstream \in Working /\ ~aborted
    /\ upstream' = "failed"
    /\ handler' = "over"
    /\ IF closed THEN UNCHANGED responseVars
       ELSE IF head = "none" THEN RespondWithError
       ELSE /\ wire' = Append(wire, ErrorText)
            /\ ended' = TRUE
            /\ UNCHANGED head
    /\ UNCHANGED <<pageVars, aborted, closed, sent>>

\* fetch, read or cancel rejects: nothing is written for nobody.
HandlerUnwinds ==
    /\ handler \in Listening
    /\ aborted
    /\ handler' = "over"
    /\ UNCHANGED <<pageVars, aborted, responseVars, closed, upstreamVars>>

UpstreamCancelled ==
    /\ aborted
    /\ upstream \in Working
    /\ upstream' = "cancelled"
    /\ UNCHANGED <<pageVars, handler, aborted, responseVars, closed, sent>>

-----------------------------------------------------------------------------
(* The connection.                                                         *)

\* A listener that is attached only when the stream has begun.
FaultyOnDisconnect == aborted' = (aborted \/ handler = "streaming")

\* res emits `close'.
OnDisconnect == aborted' = (aborted \/ handler \in Listening)

ConnectionCloses ==
    /\ ~closed
    /\ closed' = TRUE
    /\ OnDisconnect
    /\ UNCHANGED <<pageVars, handler, responseVars, upstreamVars>>

\* The server learns that the page has gone.
ResponseCloses == left /\ ConnectionCloses

\* closeAllConnections() of a shutdown, or the network.
Severed == ~left /\ ConnectionCloses

-----------------------------------------------------------------------------
(* The page.                                                               *)

ServerUnchanged == UNCHANGED <<handler, aborted, head, ended, closed, upstreamVars>>

\* Stop, another session, a cleared or deleted chat, a closed tab.
PageLeaves ==
    /\ page \in Waiting
    /\ page' = "stopped"
    /\ left' = TRUE
    /\ UNCHANGED <<buffer, data, shown, wire>>
    /\ ServerUnchanged

PageSeesHead ==
    /\ page = "fetching"
    /\ head # "none"
    /\ page' = IF head = "stream" THEN "reading" ELSE "interrupted"
    /\ UNCHANGED <<buffer, data, shown, left, wire>>
    /\ ServerUnchanged

\* line(text): the data line that is pending after it.
DataAfter(text) ==
    IF Len(text) = 2 /\ text[1] % 3 = 1 /\ text[2] = text[1] + 1 THEN (text[1] + 2) \div 3
    ELSE IF text = <<ErrorText>> THEN data
    ELSE Broken

\* A piece that ends no line.
PageBuffers ==
    /\ page = "reading" /\ wire # <<>>
    /\ Head(wire) % 3 = 1
    /\ buffer' = Append(buffer, Head(wire))
    /\ wire' = Tail(wire)
    /\ UNCHANGED <<page, data, shown, left>>
    /\ ServerUnchanged

PageReadsLine ==
    /\ page = "reading" /\ wire # <<>>
    /\ Head(wire) % 3 # 1
    /\ Head(wire) % 3 = 0 => buffer # <<>>
    /\ data' = DataAfter(Append(buffer, Head(wire)))
    /\ buffer' = <<>>
    /\ wire' = Tail(wire)
    /\ UNCHANGED <<page, shown, left>>
    /\ ServerUnchanged

\* dispatch() on an empty line.  [DONE] also cancels the rest of the stream; an
\* event that cannot be parsed or shown is thrown, which cancels nothing.
PageDispatches ==
    /\ page = "reading" /\ wire # <<>>
    /\ Head(wire) % 3 = 0 /\ buffer = <<>>
    /\ data' = NoData
    /\ wire' = Tail(wire)
    /\ \/ /\ data \in 1..Answer
          /\ shown' = Append(shown, data)
          /\ UNCHANGED <<page, left>>
       \/ /\ data \in 1..Answer \union {Broken}
          /\ page' = "interrupted"
          /\ UNCHANGED <<shown, left>>
       \/ /\ data = Done
          /\ page' = "completed"
          /\ left' = TRUE
          /\ UNCHANGED shown
    /\ UNCHANGED buffer
    /\ ServerUnchanged

\* What is still pending at the end is dispatched.
Pending == IF buffer = <<>> THEN data ELSE DataAfter(buffer)

\* An end without [DONE] is taken for the end of the answer.
FaultyPageSeesEnd ==
    /\ page = "reading" /\ wire = <<>> /\ ended
    /\ \/ UNCHANGED shown
       \/ Pending \in 1..Answer /\ shown' = Append(shown, Pending)
    /\ page' = "completed"
    /\ UNCHANGED <<buffer, data, left, wire>>
    /\ ServerUnchanged

\* "Stream ended before completion.", after a last event that may be thrown.
PageSeesEnd ==
    /\ page = "reading" /\ wire = <<>> /\ ended
    /\ \/ UNCHANGED shown
       \/ Pending \in 1..Answer /\ shown' = Append(shown, Pending)
    /\ page' = IF Pending = Done THEN "completed" ELSE "interrupted"
    /\ UNCHANGED <<buffer, data, left, wire>>
    /\ ServerUnchanged

\* fetch or read rejects.
PageSeesBreak ==
    /\ page \in Waiting
    /\ closed
    /\ page' = "interrupted"
    /\ UNCHANGED <<buffer, data, shown, left, wire>>
    /\ ServerUnchanged

-----------------------------------------------------------------------------
PageReceives ==
    \/ PageSeesHead
    \/ PageBuffers
    \/ PageReadsLine
    \/ PageDispatches
    \/ PageSeesEnd
    \/ PageSeesBreak

HandlerStarts == RequestArrives \/ BodyRead \/ BodyFails

UpstreamMoves ==
    \/ UpstreamAccepts
    \/ UpstreamRefuses
    \/ PieceForwarded
    \/ UpstreamEnds
    \/ UpstreamFails

Next ==
    \/ PageReceives
    \/ PageLeaves
    \/ HandlerStarts
    \/ UpstreamMoves
    \/ RefusalForwarded
    \/ HandlerUnwinds
    \/ UpstreamCancelled
    \/ ResponseCloses
    \/ Severed

\* What is due is delivered: a request and its body, the close of a connection,
\* an abort, what lies on the wire.  The llama server owes nothing.
Fairness ==
    /\ WF_vars(PageReceives)
    /\ WF_vars(HandlerStarts)
    /\ WF_vars(RefusalForwarded)
    /\ WF_vars(HandlerUnwinds)
    /\ WF_vars(UpstreamCancelled)
    /\ WF_vars(ResponseCloses)

Spec == Init /\ [][Next]_vars /\ Fairness

-----------------------------------------------------------------------------
(* Properties.                                                             *)

\* A handler that is over has ended its response or lost its connection, and the
\* llama server does not go on for it unless it is being told to stop: on no path
\* does the handler leave a client waiting or a generation behind.
HandlerLeavesNothingBehind ==
    handler = "over" =>
        /\ ended \/ closed
        /\ upstream \in Working => aborted

\* However the stream is cut, the page is given the model's events in order and
\* takes the answer for complete only if it got them all; an error text that the
\* server appends to a stream is never taken for a part of the answer.
Promise == INSTANCE AnswerPromise WITH
    given   <- shown,
    verdict <- IF page = "completed" THEN "complete"
               ELSE IF page \in Waiting THEN "pending"
               ELSE "incomplete"

DeliversAnswer == Promise!Spec

\* Once the page has left or the connection is severed, at whatever await of the
\* handler, the handler ends (a shutdown waits for it) and the model stops
\* generating, although nobody reads its answer and it would go on by itself.
AbandonedRequestEnds ==
    (left \/ closed) ~> [](handler \in {"none", "over"} /\ upstream \notin Working)

\* If the llama server gets on, fails or times out, the page is not left waiting:
\* whatever breaks, the handler ends the response of a connected page.
AnswerSettles ==
    WF_vars(UpstreamMoves) => (page \in Waiting ~> page \in Settled)
=============================================================================
