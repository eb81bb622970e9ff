-------------------------- MODULE ChatStreamProofs --------------------------
(***************************************************************************)
(* Theorems about ChatStream, for an answer of any length: its types, that *)
(* the handler leaves nothing behind, and that the stream delivers what    *)
(* AnswerPromise promises.                                                 *)
(*                                                                         *)
(* The argument is a ledger.  What the page has read of the stream is      *)
(* determined by what it has shown, what is pending and what is buffered   *)
(* (Received); the wire carries on from there, piece by piece, up to what  *)
(* the llama server has sent; and the error text of the server can only be *)
(* the last piece of all.                                                  *)
(***************************************************************************)
EXTENDS ChatStream, SequenceTheorems, TLAPS

USE AnswerAssumption

\* How many pieces of the stream the page has read.
Received == 3 * Len(shown) + (IF data = NoData THEN 0 ELSE 2) + Len(buffer)

\* The events were shown in order, from the first.
ShownInOrder ==
    /\ Len(shown) <= Answer
    /\ \A i \in 1..Len(shown) : shown[i] = i

\* The beginning of the line of the next event.
NextLine == 3 * Len(shown) + 1

\* What a waiting page holds belongs to the next event; the error text may follow.
HeldByPage ==
    /\ data \in {NoData, Len(shown) + 1}
    /\ \/ buffer = <<>>
       \/ buffer = <<NextLine>> /\ data = NoData
       \/ /\ \/ buffer = <<ErrorText>>
             \/ buffer = <<NextLine, ErrorText>> /\ data = NoData
          /\ wire = <<>> /\ ended

\* The wire carries on where the page is; only its last piece can be the error text.
OnTheWire ==
    \A i \in 1..Len(wire) :
        \/ wire[i] = Received + i /\ wire[i] <= Length
        \/ wire[i] = ErrorText /\ i = Len(wire) /\ ended

PageLedger ==
    page \in Waiting =>
        /\ HeldByPage
        /\ OnTheWire
        /\ handler = "streaming" => Received + Len(wire) = sent

\* A page that awaits the head has read nothing; there is no body without a head.
HeadFirst ==
    /\ page = "fetching" => Received = 0
    /\ page = "reading" => head = "stream"
    /\ head # "stream" => wire = <<>>

\* What the handler's place says of its response, its call and its connection.
HandlerState ==
    /\ handler \in {"none", "reading-body"} => upstream = "none"
    /\ handler = "cancelling" => upstream \notin Working
    /\ handler \in {"none", "reading-body", "calling", "cancelling"} =>
        head = "none" /\ sent = 0
    /\ handler = "streaming" => head = "stream"
    /\ handler # "over" => ~ended
    /\ aborted => closed
    /\ closed /\ handler \in Listening => aborted

ServerInv == HandlerState /\ HandlerLeavesNothingBehind

IInv ==
    /\ TypeOK
    /\ ShownInOrder
    /\ PageLedger
    /\ HeadFirst
    /\ ServerInv

-----------------------------------------------------------------------------
(* Numbers.                                                                *)

LEMMA Numbers ==
    /\ Done \in Nat /\ Length \in Nat /\ ErrorText \in Nat
    /\ Done = Answer + 1 /\ Length = 3 * Answer + 3 /\ ErrorText = 3 * Answer + 4
    /\ Broken = Answer + 2 /\ NoData = 0
    /\ ErrorText % 3 = 1
  BY DEF Done, Length, ErrorText, Broken, NoData

LEMMA Remainders ==
    ASSUME NEW k \in Nat
    PROVE  /\ (3 * k) % 3 = 0 /\ (3 * k + 1) % 3 = 1 /\ (3 * k + 2) % 3 = 2
           /\ (3 * k + 3) % 3 = 0 /\ (3 * k + 3) \div 3 = k + 1
  OBVIOUS

LEMMA TwoPieces ==
    ASSUME NEW x \in Nat, NEW y \in Nat
    PROVE  Append(<<x>>, y) = <<x, y>>
  <1> DEFINE s == Append(<<x>>, y)
             t == <<x, y>>
  <1>1. s \in Seq(Nat) /\ Len(s) = 2 /\ s[1] = x /\ s[2] = y
    OBVIOUS
  <1>2. t \in Seq(Nat) /\ Len(t) = 2 /\ t[1] = x /\ t[2] = y
    OBVIOUS
  <1> HIDE DEF s, t
  <1>3. \A i \in 1..2 : s[i] = t[i]
    BY <1>1, <1>2
  <1>4. s = t
    BY <1>1, <1>2, <1>3, SeqEqual
  <1> QED
    BY <1>4 DEF s, t

\* The beginning of a line and its end make the next event.
LEMMA NextEvent ==
    ASSUME TypeOK, ShownInOrder,
           buffer = <<NextLine>>, wire # <<>>, Head(wire) = NextLine + 1
    PROVE  DataAfter(Append(buffer, Head(wire))) = Len(shown) + 1
  <1> DEFINE text == Append(buffer, Head(wire))
  <1>1. Len(shown) \in Nat
    BY DEF TypeOK
  <1>2. NextLine % 3 = 1 /\ (NextLine + 2) \div 3 = Len(shown) + 1 /\ NextLine \in Nat
    BY <1>1, Remainders DEF NextLine
  <1>3. buffer \in Seq(Nat) /\ Len(buffer) = 1 /\ buffer[1] = NextLine
    BY <1>2
  <1>4. Len(text) = 2 /\ text[1] = NextLine /\ text[2] = NextLine + 1
    BY <1>2, <1>3
  <1> HIDE DEF text
  <1> QED
    BY <1>2, <1>4 DEF DataAfter

\* What is pending at the end of a stream: nothing, the next event, or a piece
\* of a line, with or without the error text, which cannot be parsed.
LEMMA PendingAtEnd ==
    ASSUME TypeOK, ShownInOrder, HeldByPage
    PROVE  Pending \in {NoData, Len(shown) + 1, Broken}
  <1> USE DEF HeldByPage
  <1>1. Len(shown) \in Nat /\ Len(shown) <= Answer
    BY DEF TypeOK, ShownInOrder
  <1>2. CASE buffer = <<>>
    BY <1>2 DEF Pending
  <1>3. CASE buffer = <<NextLine>>
    <2>1. NextLine # ErrorText
      BY <1>1, Numbers DEF NextLine
    <2>2. buffer # <<>> /\ Len(buffer) = 1 /\ buffer # <<ErrorText>>
      BY <1>3, <2>1
    <2> QED
      BY <2>2 DEF Pending, DataAfter
  <1>4. CASE buffer = <<ErrorText>>
    <2>1. buffer # <<>> /\ Len(buffer) = 1
      BY <1>4
    <2> QED
      BY <1>4, <2>1 DEF Pending, DataAfter
  <1>5. CASE buffer = <<NextLine, ErrorText>>
    <2>1. buffer # <<>> /\ buffer # <<ErrorText>>
      BY <1>5
    <2>2. buffer[1] = NextLine /\ buffer[2] = ErrorText
      BY <1>5
    <2>3. (3 * Len(shown) + 2) % 3 = 2
      BY <1>1, Remainders
    <2>4. buffer[2] # buffer[1] + 1
      BY <2>2, <2>3, <1>1, Numbers DEF NextLine
    <2> QED
      BY <2>1, <2>4 DEF Pending, DataAfter
  <1> QED
    BY <1>2, <1>3, <1>4, <1>5

LEMMA DataAfterType ==
    ASSUME TypeOK, NEW text \in Seq(Pieces)
    PROVE  DataAfter(text) \in NoData..Broken
  <1>1. CASE Len(text) = 2 /\ text[1] % 3 = 1 /\ text[2] = text[1] + 1
    <2>1. text[1] \in Pieces /\ text[2] \in Pieces
      BY <1>1
    <2>2. text[1] \in 1..Length
      BY <2>1, <1>1, Numbers DEF Pieces
    <2>3. (text[1] + 2) \div 3 \in 0..Done
      BY <2>2, Numbers
    <2> QED
      BY <1>1, <2>3, Numbers DEF DataAfter
  <1>2. CASE ~(Len(text) = 2 /\ text[1] % 3 = 1 /\ text[2] = text[1] + 1)
    BY <1>2, Numbers DEF DataAfter, TypeOK
  <1> QED
    BY <1>1, <1>2

LEMMA PendingType ==
    ASSUME TypeOK
    PROVE  Pending \in NoData..Broken
  BY DataAfterType DEF Pending, TypeOK

-----------------------------------------------------------------------------
(* The types.                                                              *)

LEMMA TypeStep ==
    ASSUME TypeOK, [Next]_vars
    PROVE  TypeOK'
  <1> USE DEF TypeOK
  <1>1. CASE PageReceives
    <2>1. ASSUME wire # <<>>
          PROVE  /\ Head(wire) \in Pieces /\ Tail(wire) \in Seq(Pieces)
                 /\ Append(buffer, Head(wire)) \in Seq(Pieces)
                 /\ DataAfter(Append(buffer, Head(wire))) \in NoData..Broken
      <3>1. Head(wire) \in Pieces /\ Tail(wire) \in Seq(Pieces)
        BY <2>1
      <3>2. Append(buffer, Head(wire)) \in Seq(Pieces)
        BY <3>1
      <3> QED
        BY <3>1, <3>2, DataAfterType
    <2>2. CASE PageSeesHead \/ PageSeesBreak
      BY <2>2 DEF PageSeesHead, PageSeesBreak, ServerUnchanged, upstreamVars, Waiting, Settled
    <2>3. CASE PageBuffers
      BY <2>3, <2>1 DEF PageBuffers, ServerUnchanged, upstreamVars
    <2>4. CASE PageReadsLine
      BY <2>4, <2>1 DEF PageReadsLine, ServerUnchanged, upstreamVars
    <2>5. CASE PageDispatches
      <3>1. NoData \in NoData..Broken
        BY Numbers
      <3>2. /\ shown' \in Seq(1..Answer)
            /\ left' \in BOOLEAN
            /\ page' \in Waiting \union Settled
        <4>1. CASE data \in 1..Answer /\ shown' = Append(shown, data) /\ UNCHANGED <<page, left>>
          BY <4>1
        <4>2. CASE page' = "interrupted" /\ UNCHANGED <<shown, left>>
          BY <4>2 DEF Settled
        <4>3. CASE page' = "completed" /\ left' = TRUE /\ UNCHANGED shown
          BY <4>3 DEF Settled
        <4> QED
          BY <2>5, <4>1, <4>2, <4>3 DEF PageDispatches
      <3>3. wire' \in Seq(Pieces) /\ data' \in NoData..Broken /\ buffer' \in Seq(Pieces)
        BY <2>5, <2>1, <3>1 DEF PageDispatches
      <3> QED
        BY <2>5, <3>2, <3>3 DEF PageDispatches, ServerUnchanged, upstreamVars
    <2>6. CASE PageSeesEnd
      BY <2>6 DEF PageSeesEnd, ServerUnchanged, upstreamVars, Settled
    <2> QED
      BY <1>1, <2>2, <2>3, <2>4, <2>5, <2>6 DEF PageReceives
  <1>2. CASE PageLeaves
    BY <1>2 DEF PageLeaves, ServerUnchanged, upstreamVars, Settled
  <1>3. CASE HandlerStarts
    BY <1>3 DEF HandlerStarts, RequestArrives, BodyRead, BodyFails, RespondWithError,
        pageVars, responseVars, upstreamVars, Listening, Working
  <1>4. CASE UpstreamMoves
    <2>1. CASE UpstreamAccepts \/ UpstreamRefuses \/ UpstreamEnds
      BY <2>1 DEF UpstreamAccepts, UpstreamRefuses, UpstreamEnds,
          pageVars, responseVars, upstreamVars, Listening, Working
    <2>2. CASE PieceForwarded
      <3>1. sent + 1 \in 0..Length /\ sent + 1 \in Pieces
        BY <2>2, Numbers DEF PieceForwarded, Pieces
      <3> QED
        BY <2>2, <3>1 DEF PieceForwarded, pageVars
    <2>3. CASE UpstreamFails
      <3>1. ErrorText \in Pieces
        BY Numbers DEF Pieces
      <3>2. \/ UNCHANGED <<wire, ended, head>>
            \/ UNCHANGED wire /\ ended' = TRUE /\ head' = "error"
            \/ wire' = Append(wire, ErrorText) /\ ended' = TRUE /\ UNCHANGED head
        BY <2>3 DEF UpstreamFails, RespondWithError, responseVars
      <3>3. wire' \in Seq(Pieces)
        <4>1. Append(wire, ErrorText) \in Seq(Pieces)
          BY <3>1
        <4> QED
          BY <3>2, <4>1
      <3>4. ended' \in BOOLEAN /\ head' \in {"none", "stream", "error"}
        BY <3>2
      <3> QED
        BY <2>3, <3>3, <3>4 DEF UpstreamFails, pageVars
    <2> QED
      BY <1>4, <2>1, <2>2, <2>3 DEF UpstreamMoves
  <1>5. CASE RefusalForwarded \/ HandlerUnwinds \/ UpstreamCancelled
    BY <1>5 DEF RefusalForwarded, HandlerUnwinds, UpstreamCancelled, RespondWithError,
        pageVars, responseVars, upstreamVars
  <1>6. CASE ResponseCloses \/ Severed
    BY <1>6 DEF ResponseCloses, Severed, ConnectionCloses, OnDisconnect,
        pageVars, responseVars, upstreamVars
  <1>7. CASE UNCHANGED vars
    BY <1>7 DEF vars, pageVars, responseVars, upstreamVars
  <1> QED
    BY <1>1, <1>2, <1>3, <1>4, <1>5, <1>6, <1>7 DEF Next

-----------------------------------------------------------------------------
(* The server: no step of the page touches it.                             *)

LEMMA ServerStep ==
    ASSUME TypeOK, ServerInv, [Next]_vars
    PROVE  ServerInv'
  <1> USE DEF ServerInv, HandlerState, HandlerLeavesNothingBehind, Working, Listening
  <1>1. CASE PageReceives \/ PageLeaves
    <2>1. ServerUnchanged
      BY <1>1 DEF PageReceives, PageSeesHead, PageBuffers, PageReadsLine, PageDispatches,
          PageSeesEnd, PageSeesBreak, PageLeaves
    <2> QED
      BY <2>1 DEF ServerUnchanged, upstreamVars
  <1>2. CASE HandlerStarts
    BY <1>2 DEF HandlerStarts, RequestArrives, BodyRead, BodyFails, RespondWithError,
        responseVars, upstreamVars
  <1>3. CASE UpstreamAccepts \/ UpstreamRefuses
    BY <1>3 DEF UpstreamAccepts, UpstreamRefuses, responseVars
  <1>4. CASE PieceForwarded
    BY <1>4 DEF PieceForwarded
  <1>5. CASE UpstreamEnds
    BY <1>5 DEF UpstreamEnds
  <1>6. CASE UpstreamFails
    <2>1. \/ closed /\ UNCHANGED <<wire, ended, head>>
          \/ ended' = TRUE
      BY <1>6 DEF UpstreamFails, RespondWithError, responseVars
    <2> QED
      BY <1>6, <2>1 DEF UpstreamFails
  <1>7. CASE RefusalForwarded \/ HandlerUnwinds \/ UpstreamCancelled
    BY <1>7 DEF RefusalForwarded, HandlerUnwinds, UpstreamCancelled, RespondWithError,
        responseVars, upstreamVars
  <1>8. CASE ResponseCloses \/ Severed
    <2>1. closed' = TRUE /\ UNCHANGED <<handler, head, ended, upstream, sent>>
      BY <1>8 DEF ResponseCloses, Severed, ConnectionCloses, responseVars, upstreamVars
    <2>2. (aborted \/ handler \in Listening) => aborted'
      BY <1>8 DEF ResponseCloses, Severed, ConnectionCloses, OnDisconnect
    <2> QED
      BY <2>1, <2>2
  <1>9. CASE UNCHANGED vars
    BY <1>9 DEF vars, responseVars, upstreamVars
  <1> QED
    BY <1>1, <1>2, <1>3, <1>4, <1>5, <1>6, <1>7, <1>8, <1>9 DEF Next, UpstreamMoves

-----------------------------------------------------------------------------
(* What is shown.                                                          *)

LEMMA NextIsShown ==
    ASSUME TypeOK, ShownInOrder, Len(shown) < Answer,
           shown' = Append(shown, Len(shown) + 1)
    PROVE  ShownInOrder'
  <1>1. Len(shown) \in Nat /\ Len(shown') = Len(shown) + 1
    BY DEF TypeOK
  <1>2. \A i \in 1..Len(shown) : shown'[i] = shown[i]
    BY DEF TypeOK
  <1>3. shown'[Len(shown) + 1] = Len(shown) + 1
    BY DEF TypeOK
  <1> QED
    BY <1>1, <1>2, <1>3 DEF ShownInOrder

LEMMA ShownStep ==
    ASSUME TypeOK, ShownInOrder, PageLedger, [Next]_vars
    PROVE  ShownInOrder'
  <1>1. CASE PageDispatches
    <2>1. HeldByPage
      BY <1>1 DEF PageDispatches, PageLedger, Waiting
    <2>2. CASE data \in 1..Answer /\ shown' = Append(shown, data)
      <3>1. data = Len(shown) + 1 /\ Len(shown) < Answer
        BY <2>1, <2>2 DEF HeldByPage, NoData, TypeOK
      <3> QED
        BY <2>2, <3>1, NextIsShown
    <2>3. CASE UNCHANGED shown
      BY <2>3 DEF ShownInOrder
    <2> QED
      BY <1>1, <2>2, <2>3 DEF PageDispatches
  <1>2. CASE PageSeesEnd
    <2>1. HeldByPage
      BY <1>2 DEF PageSeesEnd, PageLedger, Waiting
    <2>2. CASE Pending \in 1..Answer /\ shown' = Append(shown, Pending)
      <3>1. Pending = Len(shown) + 1 /\ Len(shown) < Answer
        BY <2>1, <2>2, PendingAtEnd, Numbers DEF TypeOK
      <3> QED
        BY <2>2, <3>1, NextIsShown
    <2>3. CASE UNCHANGED shown
      BY <2>3 DEF ShownInOrder
    <2> QED
      BY <1>2, <2>2, <2>3 DEF PageSeesEnd
  <1>3. CASE ~PageDispatches /\ ~PageSeesEnd
    <2>1. UNCHANGED shown
      BY <1>3 DEF Next, vars, pageVars, PageReceives, PageSeesHead, PageBuffers, PageReadsLine,
          PageSeesBreak, PageLeaves, HandlerStarts, RequestArrives, BodyRead, BodyFails,
          UpstreamMoves, UpstreamAccepts, UpstreamRefuses, PieceForwarded, UpstreamEnds,
          UpstreamFails, RefusalForwarded, HandlerUnwinds, UpstreamCancelled,
          ResponseCloses, Severed, ConnectionCloses
    <2> QED
      BY <2>1 DEF ShownInOrder
  <1> QED
    BY <1>1, <1>2, <1>3

-----------------------------------------------------------------------------
(* The ledger.                                                             *)

\* Nothing was read, nothing was written.
LEMMA LedgerKept ==
    ASSUME PageLedger, UNCHANGED <<page, buffer, data, shown, wire>>, ended => ended',
           handler' = "streaming" => handler = "streaming" /\ sent' = sent
    PROVE  PageLedger'
  <1>1. NextLine' = NextLine /\ Received' = Received
    BY DEF NextLine, Received
  <1>2. HeldByPage => HeldByPage'
    BY <1>1 DEF HeldByPage
  <1>3. OnTheWire => OnTheWire'
    BY <1>1 DEF OnTheWire
  <1> QED
    BY <1>1, <1>2, <1>3 DEF PageLedger

\* A piece of the stream is put on the wire.
LEMMA PieceOnTheWire ==
    ASSUME TypeOK, HeldByPage, OnTheWire, ~ended, Received + Len(wire) = sent, sent < Length,
           UNCHANGED <<buffer, data, shown>>, wire' = Append(wire, sent + 1)
    PROVE  HeldByPage' /\ OnTheWire' /\ Received' + Len(wire') = sent + 1
  <1>1. NextLine' = NextLine /\ Received' = Received
    BY DEF NextLine, Received
  <1>2. Len(wire') = Len(wire) + 1 /\ Len(wire) \in Nat
    BY DEF TypeOK
  <1>3. Received \in Nat
    BY DEF Received, TypeOK
  <1>4. HeldByPage'
    BY <1>1 DEF HeldByPage
  <1>5. ASSUME NEW i \in 1..Len(wire')
        PROVE  wire'[i] = Received + i /\ wire'[i] <= Length
    <2>1. CASE i = Len(wire) + 1
      <3>1. wire'[i] = sent + 1
        BY <2>1 DEF TypeOK
      <3> QED
        BY <3>1, <2>1, <1>3, <1>2, Numbers DEF TypeOK
    <2>2. CASE i \in 1..Len(wire)
      BY <2>2 DEF OnTheWire, TypeOK
    <2> QED
      BY <1>2, <2>1, <2>2
  <1> QED
    BY <1>1, <1>2, <1>3, <1>4, <1>5 DEF OnTheWire, TypeOK

\* The error text is put on the wire, and the response ended.
LEMMA ErrorOnTheWire ==
    ASSUME TypeOK, HeldByPage, OnTheWire, ~ended, ended',
           UNCHANGED <<buffer, data, shown>>, wire' = Append(wire, ErrorText)
    PROVE  HeldByPage' /\ OnTheWire'
  <1>1. NextLine' = NextLine /\ Received' = Received
    BY DEF NextLine, Received
  <1>2. Len(wire') = Len(wire) + 1 /\ Len(wire) \in Nat
    BY DEF TypeOK
  <1>3. HeldByPage'
    BY <1>1 DEF HeldByPage
  <1>4. wire'[Len(wire')] = ErrorText
    BY DEF TypeOK
  <1>5. ASSUME NEW i \in 1..Len(wire)
        PROVE  wire'[i] = Received + i /\ wire'[i] <= Length
    BY DEF OnTheWire, TypeOK
  <1> QED
    BY <1>1, <1>2, <1>3, <1>4, <1>5 DEF OnTheWire

\* What the page reads next: a piece of the stream, the one after all it has, or
\* the error text, and then nothing more.
LEMMA NextPiece ==
    ASSUME TypeOK, HeldByPage, OnTheWire, wire # <<>>
    PROVE  /\ Received \in Nat /\ Len(shown) \in Nat
           /\ \/ Head(wire) = Received + 1 /\ Head(wire) # ErrorText
              \/ Head(wire) = ErrorText /\ Tail(wire) = <<>> /\ ended
           /\ \/ data = NoData /\ buffer = <<>> /\ Received = 3 * Len(shown)
              \/ data = NoData /\ buffer = <<NextLine>> /\ Received = 3 * Len(shown) + 1
              \/ data = Len(shown) + 1 /\ buffer = <<>> /\ Received = 3 * Len(shown) + 2
           /\ Len(Tail(wire)) = Len(wire) - 1 /\ Len(wire) \in Nat
           /\ \A i \in 1..Len(Tail(wire)) :
                 \/ Tail(wire)[i] = Received + 1 + i /\ Tail(wire)[i] <= Length
                 \/ Tail(wire)[i] = ErrorText /\ i = Len(Tail(wire)) /\ ended
  <1> DEFINE n == Len(wire)
             rest == Tail(wire)
  <1>1. Received \in Nat /\ Len(shown) \in Nat /\ n \in Nat /\ n >= 1
    BY DEF Received, TypeOK
  <1>2. rest \in Seq(Pieces) /\ Len(rest) = n - 1 /\ \A i \in 1..n - 1 : rest[i] = wire[i + 1]
    BY HeadTailProperties DEF TypeOK
  <1>3. Head(wire) = wire[1]
    BY DEF TypeOK
  <1>4. \A i \in 1..n : \/ wire[i] = Received + i /\ wire[i] <= Length
                        \/ wire[i] = ErrorText /\ i = n /\ ended
    BY DEF OnTheWire
  <1>5. Len(rest) = 0 => rest = <<>>
    BY <1>2, EmptySeq
  <1> HIDE DEF n, rest
  <1>6. \/ data = NoData /\ buffer = <<>> /\ Received = 3 * Len(shown)
        \/ data = NoData /\ buffer = <<NextLine>> /\ Received = 3 * Len(shown) + 1
        \/ data = Len(shown) + 1 /\ buffer = <<>> /\ Received = 3 * Len(shown) + 2
    <2>1. data \in {NoData, Len(shown) + 1}
      BY DEF HeldByPage
    <2>2. \/ buffer = <<>>
          \/ buffer = <<NextLine>> /\ data = NoData
      BY DEF HeldByPage
    <2>3. CASE buffer = <<>>
      <3>1. Len(buffer) = 0
        BY <2>3
      <3> QED
        BY <1>1, <2>1, <2>3, <3>1 DEF Received, NoData
    <2>4. CASE buffer = <<NextLine>> /\ data = NoData
      <3>1. Len(buffer) = 1
        BY <2>4
      <3> QED
        BY <1>1, <2>4, <3>1 DEF Received
    <2> QED
      BY <2>2, <2>3, <2>4
  <1>7. \/ Head(wire) = Received + 1 /\ Head(wire) # ErrorText
        \/ Head(wire) = ErrorText /\ rest = <<>> /\ ended
    <2>1. \/ wire[1] = Received + 1 /\ wire[1] <= Length
          \/ wire[1] = ErrorText /\ 1 = n /\ ended
      BY <1>1, <1>4
    <2>2. ~(ErrorText <= Length) /\ (1 = n => rest = <<>>)
      BY <1>1, <1>2, <1>5, Numbers
    <2> QED
      BY <1>3, <2>1, <2>2
  <1>8. ASSUME NEW i \in 1..Len(rest)
        PROVE  \/ rest[i] = Received + 1 + i /\ rest[i] <= Length
               \/ rest[i] = ErrorText /\ i = Len(rest) /\ ended
    <2>1. i + 1 \in 1..n /\ rest[i] = wire[i + 1]
      BY <1>1, <1>2
    <2>2. Received + (i + 1) = Received + 1 + i /\ (i + 1 = n => i = Len(rest))
      BY <1>1, <1>2
    <2> QED
      BY <1>4, <2>1, <2>2
  <1> QED
    BY <1>1, <1>2, <1>6, <1>7, <1>8 DEF n, rest

\* One more piece was read: the wire carries on behind it.
LEMMA WireCarriesOn ==
    ASSUME TypeOK, HeldByPage, OnTheWire, wire # <<>>, wire' = Tail(wire),
           Received' = Received + 1, UNCHANGED <<ended, handler, sent>>,
           handler = "streaming" => Received + Len(wire) = sent
    PROVE  OnTheWire' /\ (handler' = "streaming" => Received' + Len(wire') = sent')
  BY NextPiece DEF OnTheWire

LEMMA LedgerBuffers ==
    ASSUME TypeOK, PageLedger, HandlerState, PageBuffers
    PROVE  PageLedger'
  <1> USE DEF PageBuffers
  <1>1. HeldByPage /\ OnTheWire /\ (handler = "streaming" => Received + Len(wire) = sent)
    BY DEF PageLedger, Waiting
  <1>2. UNCHANGED <<shown, data, ended, handler, sent>> /\ NextLine' = NextLine
    BY DEF ServerUnchanged, upstreamVars, NextLine
  <1>3. CASE Head(wire) = Received + 1 /\ Head(wire) # ErrorText
    <2>1. data = NoData /\ buffer = <<>> /\ Received = 3 * Len(shown)
      <3>1. /\ (3 * Len(shown) + 2) % 3 = 2
            /\ (3 * Len(shown) + 3) % 3 = 0
            /\ Len(shown) \in Nat
        BY <1>1, NextPiece, Remainders
      <3>2. (Received + 1) % 3 = 1
        BY <1>3
      <3>3. CASE Received = 3 * Len(shown) + 1
        <4>1. Received + 1 = 3 * Len(shown) + 2
          BY <3>1, <3>3
        <4> QED
          BY <3>1, <3>2, <4>1
      <3>4. CASE Received = 3 * Len(shown) + 2
        <4>1. Received + 1 = 3 * Len(shown) + 3
          BY <3>1, <3>4
        <4> QED
          BY <3>1, <3>2, <4>1
      <3> QED
        BY <1>1, <3>3, <3>4, NextPiece
    <2>2. buffer' = <<NextLine>>
      BY <1>3, <2>1 DEF NextLine
    <2>3. Received' = Received + 1
      <3>1. Len(buffer) = 0 /\ Len(buffer') = 1
        BY <2>1, <2>2
      <3> QED
        BY <3>1, <2>1, <1>2 DEF Received, TypeOK
    <2>4. HeldByPage'
      BY <1>1, <1>2, <2>1, <2>2 DEF HeldByPage
    <2> QED
      BY <1>1, <1>2, <2>3, <2>4, WireCarriesOn DEF PageLedger
  <1>4. CASE Head(wire) = ErrorText /\ Tail(wire) = <<>> /\ ended
    <2>1. \/ buffer' = <<ErrorText>>
          \/ buffer' = <<NextLine, ErrorText>> /\ data = NoData
      <3>1. \/ buffer = <<>>
            \/ buffer = <<NextLine>> /\ data = NoData
        BY <1>1, NextPiece
      <3>2. Append(<<>>, ErrorText) = <<ErrorText>>
        OBVIOUS
      <3>3. Append(<<NextLine>>, ErrorText) = <<NextLine, ErrorText>>
        <4>1. Len(shown) \in Nat
          BY DEF TypeOK
        <4>2. NextLine \in Nat
          BY <4>1 DEF NextLine
        <4> QED
          BY <4>2, TwoPieces, Numbers
      <3> QED
        BY <1>4, <3>1, <3>2, <3>3
    <2>2. HeldByPage'
      BY <1>1, <1>2, <1>4, <2>1 DEF HeldByPage
    <2>3. OnTheWire'
      BY <1>4 DEF OnTheWire
    <2> QED
      BY <1>2, <1>4, <2>2, <2>3 DEF PageLedger, HandlerState
  <1>5. \/ Head(wire) = Received + 1 /\ Head(wire) # ErrorText
        \/ Head(wire) = ErrorText /\ Tail(wire) = <<>> /\ ended
    BY <1>1, NextPiece
  <1> QED
    BY <1>3, <1>4, <1>5

LEMMA LedgerReadsLine ==
    ASSUME TypeOK, ShownInOrder, PageLedger, PageReadsLine
    PROVE  PageLedger'
  <1> USE DEF PageReadsLine
  <1>1. HeldByPage /\ OnTheWire /\ (handler = "streaming" => Received + Len(wire) = sent)
    BY DEF PageLedger, Waiting
  <1>2. UNCHANGED <<shown, ended, handler, sent>>
    BY DEF ServerUnchanged, upstreamVars
  <1>3. /\ (3 * Len(shown) + 1) % 3 = 1
        /\ (3 * Len(shown) + 3) % 3 = 0
        /\ Len(shown) \in Nat
    BY Remainders DEF TypeOK
  <1>4. Head(wire) = Received + 1
    BY <1>1, NextPiece, Numbers
  <1>5. data = NoData /\ buffer = <<NextLine>> /\ Received = 3 * Len(shown) + 1
    <2>1. CASE data = NoData /\ buffer = <<>> /\ Received = 3 * Len(shown)
      BY <1>3, <1>4, <2>1
    <2>2. CASE data = Len(shown) + 1 /\ buffer = <<>> /\ Received = 3 * Len(shown) + 2
      <3>1. Received + 1 = 3 * Len(shown) + 3
        BY <1>3, <2>2
      <3> QED
        BY <1>3, <1>4, <2>2, <3>1
    <2> QED
      BY <1>1, <2>1, <2>2, NextPiece
  <1>6. data' = Len(shown) + 1
    <2>1. Head(wire) = NextLine + 1
      BY <1>3, <1>4, <1>5 DEF NextLine
    <2> QED
      BY <1>5, <2>1, NextEvent
  <1>7. HeldByPage'
    BY <1>2, <1>6 DEF HeldByPage
  <1>8. Received' = Received + 1
    <2>1. Len(buffer') = 0
      OBVIOUS
    <2> QED
      BY <1>2, <1>3, <1>5, <1>6, <2>1 DEF Received, NoData
  <1> QED
    BY <1>1, <1>2, <1>7, <1>8, WireCarriesOn DEF PageLedger

LEMMA LedgerDispatches ==
    ASSUME TypeOK, ShownInOrder, PageLedger, PageDispatches
    PROVE  PageLedger'
  <1> USE DEF PageDispatches
  <1>1. HeldByPage /\ OnTheWire /\ (handler = "streaming" => Received + Len(wire) = sent)
    BY DEF PageLedger, Waiting
  <1>2. UNCHANGED <<ended, handler, sent>> /\ Len(shown) \in Nat
    BY DEF ServerUnchanged, upstreamVars, TypeOK
  <1>3. CASE data \in 1..Answer /\ shown' = Append(shown, data)
    <2>1. data = Len(shown) + 1 /\ buffer = <<>> /\ Received = 3 * Len(shown) + 2
      <3>1. data # NoData
        BY <1>3 DEF NoData
      <3> QED
        BY <1>1, <3>1, NextPiece
    <2>2. Len(shown') = Len(shown) + 1
      BY <1>3 DEF TypeOK
    <2>3. Received' = Received + 1
      <3>1. Len(buffer') = 0
        BY <2>1
      <3> QED
        BY <1>2, <2>1, <2>2, <3>1 DEF Received
    <2>4. HeldByPage'
      BY <2>1 DEF HeldByPage
    <2> QED
      BY <1>1, <1>2, <2>3, <2>4, WireCarriesOn DEF PageLedger
  <1>4. CASE page' \notin Waiting
    BY <1>4 DEF PageLedger
  <1> QED
    BY <1>3, <1>4 DEF Waiting

LEMMA LedgerStep ==
    ASSUME TypeOK, ShownInOrder, PageLedger, HeadFirst, HandlerState, [Next]_vars
    PROVE  PageLedger'
  <1>1. CASE PageBuffers \/ PageReadsLine \/ PageDispatches
    BY <1>1, LedgerBuffers, LedgerReadsLine, LedgerDispatches
  <1>2. CASE PageLeaves \/ PageSeesEnd \/ PageSeesBreak
    BY <1>2 DEF PageLeaves, PageSeesEnd, PageSeesBreak, PageLedger, Waiting
  <1>3. CASE PageSeesHead
    <2>1. page \in Waiting /\ UNCHANGED <<buffer, data, shown, wire, ended, handler, sent>>
      BY <1>3 DEF PageSeesHead, ServerUnchanged, upstreamVars, Waiting
    <2>2. NextLine' = NextLine /\ Received' = Received
      BY <2>1 DEF NextLine, Received
    <2> QED
      BY <2>1, <2>2 DEF PageLedger, HeldByPage, OnTheWire
  <1>4. CASE UpstreamAccepts
    <2>1. ASSUME page' \in Waiting
          PROVE  HeldByPage' /\ OnTheWire' /\ Received' + Len(wire') = sent'
      <3>1. UNCHANGED <<page, buffer, data, shown, wire, sent, ended>>
        BY <1>4 DEF UpstreamAccepts, pageVars
      <3>2. NextLine' = NextLine /\ Received' = Received
        BY <3>1 DEF NextLine, Received
      <3>3. head = "none" /\ sent = 0
        BY <1>4 DEF UpstreamAccepts, HandlerState
      <3>4. Received = 0 /\ wire = <<>>
        BY <2>1, <3>1, <3>3 DEF HeadFirst, Waiting
      <3>5. HeldByPage'
        BY <2>1, <3>1, <3>2 DEF HeldByPage, PageLedger
      <3> QED
        BY <3>1, <3>2, <3>3, <3>4, <3>5 DEF OnTheWire
    <2> QED
      BY <2>1 DEF PageLedger
  <1>5. CASE PieceForwarded
    <2>1. CASE closed
      <3>1. UNCHANGED <<page, buffer, data, shown, wire, ended>> /\ handler' = "over"
        BY <1>5, <2>1 DEF PieceForwarded, pageVars
      <3> QED
        BY <3>1, LedgerKept
    <2>2. CASE ~closed
      <3>1. /\ UNCHANGED <<page, buffer, data, shown>>
            /\ wire' = Append(wire, sent + 1) /\ sent' = sent + 1 /\ sent < Length
            /\ handler = "streaming" /\ ~ended
        BY <1>5, <2>2 DEF PieceForwarded, pageVars, HandlerState
      <3> QED
        BY <3>1, PieceOnTheWire DEF PageLedger
    <2> QED
      BY <2>1, <2>2
  <1>6. CASE UpstreamFails
    <2>1. /\ UNCHANGED <<page, buffer, data, shown>> /\ handler' = "over"
          /\ ~ended
      BY <1>6 DEF UpstreamFails, pageVars, HandlerState, Listening
    <2>2. \/ UNCHANGED <<wire, ended>>
          \/ UNCHANGED wire /\ ended'
          \/ wire' = Append(wire, ErrorText) /\ ended'
      BY <1>6 DEF UpstreamFails, RespondWithError, responseVars
    <2>3. CASE UNCHANGED wire
      BY <2>1, <2>3, LedgerKept
    <2>4. CASE wire' = Append(wire, ErrorText) /\ ended'
      BY <2>1, <2>4, ErrorOnTheWire DEF PageLedger
    <2> QED
      BY <2>2, <2>3, <2>4
  <1>7. CASE HandlerStarts \/ UpstreamRefuses \/ UpstreamEnds \/ RefusalForwarded
    <2>1. UNCHANGED <<page, buffer, data, shown, wire>> /\ handler' # "streaming"
      BY <1>7 DEF HandlerStarts, RequestArrives, BodyRead, BodyFails, UpstreamRefuses,
          UpstreamEnds, RefusalForwarded, RespondWithError, pageVars, responseVars
    <2>2. ~ended
      BY <1>7 DEF HandlerStarts, RequestArrives, BodyRead, BodyFails, UpstreamRefuses,
          UpstreamEnds, RefusalForwarded, HandlerState
    <2> QED
      BY <2>1, <2>2, LedgerKept
  <1>8. CASE HandlerUnwinds \/ UpstreamCancelled \/ ResponseCloses \/ Severed \/ UNCHANGED vars
    <2>1. /\ UNCHANGED <<page, buffer, data, shown, wire, ended, sent>>
          /\ handler' = "streaming" => handler = "streaming"
      BY <1>8 DEF HandlerUnwinds, UpstreamCancelled, ResponseCloses, Severed,
          ConnectionCloses, vars, pageVars, responseVars, upstreamVars
    <2> QED
      BY <2>1, LedgerKept
  <1> QED
    BY <1>1, <1>2, <1>3, <1>4, <1>5, <1>6, <1>7, <1>8 DEF Next, PageReceives, UpstreamMoves

LEMMA HeadFirstStep ==
    ASSUME TypeOK, HeadFirst, HandlerState, [Next]_vars
    PROVE  HeadFirst'
  <1>1. CASE PageReceives \/ PageLeaves
    <2>1. /\ page' # "fetching" /\ UNCHANGED head
          /\ page' = "reading" => head = "stream"
          /\ UNCHANGED wire \/ page = "reading"
      BY <1>1 DEF PageReceives, PageSeesHead, PageBuffers, PageReadsLine, PageDispatches,
          PageSeesEnd, PageSeesBreak, PageLeaves, ServerUnchanged, HeadFirst
    <2> QED
      BY <2>1 DEF HeadFirst
  <1>2. CASE UNCHANGED <<page, buffer, data, shown, wire, head>>
    BY <1>2 DEF HeadFirst, Received
  <1>3. CASE UpstreamAccepts
    <2>1. UNCHANGED <<page, buffer, data, shown, wire>> /\ head = "none" /\ head' = "stream"
      BY <1>3 DEF UpstreamAccepts, pageVars, HandlerState
    <2> QED
      BY <2>1 DEF HeadFirst, Received
  <1>4. CASE PieceForwarded
    <2>1. UNCHANGED <<page, buffer, data, shown, head>> /\ head = "stream"
      BY <1>4 DEF PieceForwarded, pageVars, HandlerState
    <2> QED
      BY <2>1 DEF HeadFirst, Received
  <1>5. CASE HandlerStarts \/ UpstreamFails \/ RefusalForwarded
    <2>1. /\ UNCHANGED <<page, buffer, data, shown>>
          /\ \/ UNCHANGED <<wire, head>>
             \/ UNCHANGED wire /\ head = "none" /\ head' = "error"
             \/ head = "stream" /\ UNCHANGED head
      BY <1>5 DEF HandlerStarts, RequestArrives, BodyRead, BodyFails, UpstreamFails,
          RefusalForwarded, RespondWithError, pageVars, responseVars, HandlerState, TypeOK
    <2> QED
      BY <2>1 DEF HeadFirst, Received
  <1> QED
    BY <1>1, <1>2, <1>3, <1>4, <1>5 DEF Next, UpstreamMoves, UpstreamRefuses, UpstreamEnds,
        HandlerUnwinds, UpstreamCancelled, ResponseCloses, Severed, ConnectionCloses,
        vars, pageVars, responseVars

-----------------------------------------------------------------------------
(* The theorems.                                                           *)

LEMMA InvariantHolds == Spec => []IInv
  <1>1. Init => IInv
    <2> SUFFICES ASSUME Init PROVE IInv
      OBVIOUS
    <2> USE DEF Init
    <2>1. TypeOK
      <3>1. NoData \in NoData..Broken /\ 0 \in 0..Length
        BY Numbers
      <3>2. buffer \in Seq(Pieces) /\ shown \in Seq(1..Answer) /\ wire \in Seq(Pieces)
        BY EmptySeq
      <3>3. left \in BOOLEAN /\ aborted \in BOOLEAN /\ ended \in BOOLEAN /\ closed \in BOOLEAN
        OBVIOUS
      <3> QED
        BY <3>1, <3>2, <3>3 DEF TypeOK, Waiting
    <2>2. Len(shown) = 0 /\ Len(buffer) = 0 /\ Len(wire) = 0
      OBVIOUS
    <2>3. Received = 0
      BY <2>2 DEF Received
    <2>4. ShownInOrder /\ PageLedger
      BY <2>2 DEF ShownInOrder, PageLedger, HeldByPage, OnTheWire
    <2>5. HeadFirst /\ ServerInv
      BY <2>3 DEF HeadFirst, ServerInv, HandlerState, HandlerLeavesNothingBehind, Listening
    <2> QED
      BY <2>1, <2>4, <2>5 DEF IInv
  <1>2. IInv /\ [Next]_vars => IInv'
    BY TypeStep, ServerStep, ShownStep, LedgerStep, HeadFirstStep DEF IInv, ServerInv
  <1> QED
    BY <1>1, <1>2, PTL DEF Spec

\* Every variable keeps its type, for an answer of any length.
THEOREM TypeCorrect == Spec => []TypeOK
  BY InvariantHolds, PTL DEF IInv

\* On no path does the handler of POST /api/chat leave a client waiting or a
\* generation behind.
THEOREM NothingLeftBehind == Spec => []HandlerLeavesNothingBehind
  BY InvariantHolds, PTL DEF IInv, ServerInv

\* The stream delivers what AnswerPromise promises, however it is cut: every step
\* of the server, the llama server and the page is a step of the promise, or none.
THEOREM StreamDelivers == Spec => DeliversAnswer
  <1>1. Init => Promise!Init
    BY DEF Init, Promise!Init, Waiting
  <1>2. IInv /\ [Next]_vars => [Promise!Next]_(Promise!vars)
    <2> SUFFICES ASSUME IInv, [Next]_vars PROVE [Promise!Next]_(Promise!vars)
      OBVIOUS
    <2> USE DEF IInv, Promise!Next, Promise!Give, Promise!GiveNext, Promise!Complete,
            Promise!Incomplete, Promise!vars
    <2>1. CASE PageDispatches
      <3>1. page = "reading" /\ HeldByPage /\ Len(shown) \in Nat /\ Len(shown) <= Answer
        BY <2>1 DEF PageDispatches, PageLedger, Waiting, ShownInOrder, TypeOK
      <3>2. CASE data \in 1..Answer /\ shown' = Append(shown, data) /\ UNCHANGED page
        <4>1. data = Len(shown) + 1 /\ Len(shown) < Answer
          BY <3>1, <3>2 DEF HeldByPage, NoData
        <4> QED
          BY <3>1, <3>2, <4>1 DEF Waiting
      <3>3. CASE page' = "interrupted" /\ UNCHANGED shown
        BY <3>1, <3>3 DEF Waiting
      <3>4. CASE data = Done /\ page' = "completed" /\ UNCHANGED shown
        <4>1. Len(shown) = Answer
          BY <3>1, <3>4, Numbers DEF HeldByPage, NoData
        <4> QED
          BY <3>1, <3>4, <4>1 DEF Waiting
      <3> QED
        BY <2>1, <3>2, <3>3, <3>4 DEF PageDispatches
    <2>2. CASE PageSeesEnd
      <3>1. page = "reading" /\ HeldByPage /\ Len(shown) \in Nat /\ Len(shown) <= Answer
        BY <2>2 DEF PageSeesEnd, PageLedger, Waiting, ShownInOrder, TypeOK
      <3>2. Pending \in {NoData, Len(shown) + 1, Broken}
        BY <3>1, PendingAtEnd
      <3>3. CASE Pending = Done
        <4>1. Len(shown) = Answer
          BY <3>1, <3>2, <3>3, Numbers
        <4>2. Pending \notin 1..Answer
          BY <3>3, Numbers
        <4>3. page' = "completed" /\ UNCHANGED shown
          BY <2>2, <3>3, <4>2 DEF PageSeesEnd
        <4> QED
          BY <3>1, <4>1, <4>3 DEF Waiting
      <3>4. CASE Pending # Done
        <4>1. page' = "interrupted"
          BY <2>2, <3>4 DEF PageSeesEnd
        <4>2. CASE UNCHANGED shown
          BY <3>1, <4>1, <4>2 DEF Waiting
        <4>3. CASE Pending \in 1..Answer /\ shown' = Append(shown, Pending)
          <5>1. Pending = Len(shown) + 1 /\ Len(shown) < Answer
            BY <3>1, <3>2, <4>3, Numbers
          <5> QED
            BY <3>1, <4>1, <4>3, <5>1 DEF Waiting
        <4> QED
          BY <2>2, <4>2, <4>3 DEF PageSeesEnd
      <3> QED
        BY <3>3, <3>4
    <2>3. CASE ~PageDispatches /\ ~PageSeesEnd
      <3>1. /\ UNCHANGED shown
            /\ \/ UNCHANGED page
               \/ page \in Waiting /\ page' \in Waiting
               \/ page \in Waiting /\ page' \in {"stopped", "interrupted"}
        BY <2>3 DEF Next, vars, pageVars, PageReceives, PageSeesHead, PageBuffers, PageReadsLine,
            PageSeesBreak, PageLeaves, HandlerStarts, RequestArrives, BodyRead, BodyFails,
            UpstreamMoves, UpstreamAccepts, UpstreamRefuses, PieceForwarded, UpstreamEnds,
            UpstreamFails, RefusalForwarded, HandlerUnwinds, UpstreamCancelled,
            ResponseCloses, Severed, ConnectionCloses, Waiting
      <3> QED
        BY <3>1 DEF Waiting
    <2> QED
      BY <2>1, <2>2, <2>3
  <1> QED
    BY <1>1, <1>2, InvariantHolds, PTL DEF Spec, DeliversAnswer, Promise!Spec
=============================================================================
