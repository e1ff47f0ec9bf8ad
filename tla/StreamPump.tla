----------------------------- MODULE StreamPump -----------------------------
(***************************************************************************)
(* One streamed response: the pumps of internal/api/server.go that copy    *)
(* the model's stream (OpenAIClient.ChatStream) to the connection as       *)
(* server-sent events, and the stream of a tool-call response, which has   *)
(* no model behind it.  The model's side, the client and the process run   *)
(* on their own: the model may fail between any two pieces, the client may *)
(* stop reading or leave, and the process may end after its grace period.  *)
(*                                                                         *)
(* Abstractions.  A piece of the model's text is a word, a word with       *)
(* spaces around it, or blank; an event carries the number of its piece.   *)
(* Writing and flushing an event is one step; the connection holds Window  *)
(* unread writes.  Every response writer of net/http can flush and nothing *)
(* wraps it, so the "streaming not supported" return is left out.          *)
(***************************************************************************)
EXTENDS Integers, Sequences, FiniteSets

CONSTANTS
    MaxPieces,   \* bound: pieces of one model stream
    Window       \* unread events after which a write blocks

ASSUME PumpAssumption == MaxPieces \in Nat /\ Window \in Nat \ {0}

VARIABLES
    pc,         \* control point of the pump
    kind,       \* "ask" (/v1/ask/stream), "chat" or "tools" (/v1/chat/completions)
    stream,     \* the reader of the model's stream: "none", "open" or "closed"
    up,         \* the model's side: "running", or how it ended
    produced,   \* the pieces it has sent
    taken,      \* how many of them Recv has consumed
    conn,       \* "up" until the client leaves
    sent,       \* events on the connection
    seen        \* how many of them the client has read

upVars == <<up, produced>>
vars == <<pc, kind, stream, up, produced, taken, conn, sent, seen>>

Kinds == {"ask", "chat", "tools"}
Pieces == {"word", "padded", "blank"}
Final == {"refused", "ended", "killed"}
WritePoints == {"role", "calls", "write", "finish"}
Event(type) == [type |-> type, n |-> 0]

TokenEventOfNext == [type |-> "token", n |-> taken + 1]
\* The delta event for the piece just received.
TokenEvent == [type |-> "token", n |-> taken]

WantedUnpadded(p) == p = "word"
WantedAlways(p) == TRUE
\* ChatStream's converter: a piece that is only white space is skipped, any other
\* one is passed on as it is.
Wanted(p) == p # "blank"

\* The last events: done for an ask, the finish chunk and [DONE] for the others.
LastEvents == IF kind = "ask" THEN <<Event("end")>> ELSE <<Event("finish"), Event("end")>>

CloseForgotten == UNCHANGED stream
\* The deferred Stream.Close, which also releases the model's side.
Close == stream' = IF stream = "open" THEN "closed" ELSE stream

AfterErrorFinish == pc' = "finish" /\ UNCHANGED stream
\* An error other than io.EOF ends the pump at once: the events stop, and the status
\* line, long gone, stays 200.
AfterError == pc' = "ended" /\ Close

-----------------------------------------------------------------------------
Init ==
    /\ pc = "open" /\ kind \in Kinds /\ stream = "none"
    /\ up = "running" /\ produced = <<>> /\ taken = 0
    /\ conn = "up" /\ sent = <<>> /\ seen = 0

\* AskStream returns a stream, or there are only calls to send; the headers go out.
OpenStream ==
    /\ pc = "open"
    /\ stream' = IF kind = "tools" THEN "none" ELSE "open"
    /\ pc' = IF kind = "ask" THEN "recv" ELSE "role"
    /\ UNCHANGED <<kind, upVars, taken, conn, sent, seen>>

\* AskStream fails: a 400 with a JSON body.
OpenFails ==
    /\ pc = "open" /\ kind # "tools"
    /\ pc' = "refused"
    /\ UNCHANGED <<kind, stream, upVars, taken, conn, sent, seen>>

\* Writing and flushing events.  A write to a client that is gone fails, or is
\* swallowed: a failed flush is not reported.
Write(events, next) ==
    \/ /\ conn = "up" /\ Len(sent) - seen < Window
       /\ sent' = sent \o events /\ pc' = next
       /\ IF next = "ended" THEN Close ELSE UNCHANGED stream
    \/ /\ conn = "gone"
       /\ \/ pc' = next /\ IF next = "ended" THEN Close ELSE UNCHANGED stream
          \/ pc' = "ended" /\ Close
       /\ UNCHANGED sent

WriteRole ==
    /\ pc = "role"
    /\ Write(<<Event("role")>>, IF kind = "tools" THEN "calls" ELSE "recv")
    /\ UNCHANGED <<kind, upVars, taken, conn, seen>>

WriteCalls ==
    /\ pc = "calls"
    /\ Write(<<Event("calls")>>, "finish")
    /\ UNCHANGED <<kind, upVars, taken, conn, seen>>

\* Recv returns a piece, or skips one the converter gives no value for.
Recv ==
    /\ pc = "recv" /\ taken < Len(produced)
    /\ taken' = taken + 1
    /\ pc' = IF Wanted(produced[taken + 1]) THEN "write" ELSE "recv"
    /\ UNCHANGED <<kind, stream, upVars, conn, sent, seen>>

RecvEof ==
    /\ pc = "recv" /\ taken = Len(produced) /\ up = "eof"
    /\ pc' = "finish"
    /\ UNCHANGED <<kind, stream, upVars, taken, conn, sent, seen>>

RecvError ==
    /\ pc = "recv" /\ taken = Len(produced) /\ up = "error"
    /\ AfterError
    /\ UNCHANGED <<kind, upVars, taken, conn, sent, seen>>

WriteToken ==
    /\ pc = "write"
    /\ Write(<<TokenEvent>>, "recv")
    /\ UNCHANGED <<kind, upVars, taken, conn, seen>>

WriteEnd ==
    /\ pc = "finish"
    /\ Write(LastEvents, "ended")
    /\ UNCHANGED <<kind, upVars, taken, conn, seen>>

-----------------------------------------------------------------------------
(* The model, the client and the process.                                  *)

\* The model's side sends a piece while its reader is open.
Produce ==
    /\ stream = "open" /\ up = "running" /\ Len(produced) < MaxPieces
    /\ \E p \in Pieces : produced' = Append(produced, p)
    /\ UNCHANGED <<pc, kind, stream, up, taken, conn, sent, seen>>

\* It ends, or fails: an error, the HTTP timeout, or the request's context, which
\* is cancelled when the client leaves.
EndOfModel ==
    /\ stream = "open" /\ up = "running"
    /\ up' \in {"eof", "error"}
    /\ UNCHANGED <<pc, kind, stream, produced, taken, conn, sent, seen>>

ClientReads ==
    /\ conn = "up" /\ seen < Len(sent)
    /\ seen' = seen + 1
    /\ UNCHANGED <<pc, kind, stream, upVars, taken, conn, sent>>

ClientLeaves ==
    /\ conn = "up" /\ pc \notin Final
    /\ conn' = "gone"
    /\ UNCHANGED <<pc, kind, stream, upVars, taken, sent, seen>>

\* Shutdown gave up on this request after its ten seconds and main returns.
Kill ==
    /\ pc \notin Final
    /\ pc' = "killed" /\ Close
    /\ UNCHANGED <<kind, upVars, taken, conn, sent, seen>>

Pump ==
    \/ OpenStream \/ OpenFails \/ WriteRole \/ WriteCalls
    \/ Recv \/ RecvEof \/ RecvError \/ WriteToken \/ WriteEnd
Model == Produce \/ EndOfModel
Next == Pump \/ Model \/ ClientReads \/ ClientLeaves \/ Kill

\* The pump goes on, and the model's side ends within the HTTP timeout; nothing is
\* assumed of the client.
Fairness == WF_vars(Pump) /\ WF_vars(EndOfModel)
Spec == Init /\ [][Next]_vars /\ Fairness

-----------------------------------------------------------------------------
(* Properties.                                                             *)

\* The state has its types; a token event names a piece that was produced.
TypeOK ==
    /\ pc \in {"open", "recv"} \cup WritePoints \cup Final
    /\ kind \in Kinds /\ stream \in {"none", "open", "closed"}
    /\ up \in {"running", "eof", "error"} /\ conn \in {"up", "gone"}
    /\ produced \in Seq(Pieces) /\ taken \in 0 .. Len(produced)
    /\ sent \in Seq([type : {"role", "calls", "token", "finish", "end"}, n : 0 .. Len(produced)])
    /\ seen \in 0 .. Len(sent)

Saw(type) == \E i \in 1 .. seen : sent[i].type = type
SeenTokens == {sent[i].n : i \in {j \in 1 .. seen : sent[j].type = "token"}}

\* A client that sees the done event, or [DONE], has the whole answer: the model's
\* stream ended without an error and every piece with text in it was read; for a
\* tool-call response it has the calls.  A stream cut short by the model, by a
\* failing write or by the end of the process never looks complete.
DoneMeansComplete ==
    Saw("end") =>
        /\ kind = "tools" => Saw("calls")
        /\ kind # "tools" => up = "eof" /\ \A j \in DOMAIN produced : produced[j] # "blank" => j \in SeenTokens

\* At every moment the tokens a client has are the text produced so far up to some
\* point: in order, none twice and none left out, whoever stops when; and in a chat
\* stream the role comes first.
SeenIsPrefix ==
    /\ \A i, k \in 1 .. seen : i < k /\ sent[i].type = "token" /\ sent[k].type = "token" => sent[i].n < sent[k].n
    /\ \A n \in SeenTokens : \A j \in 1 .. n : produced[j] # "blank" => j \in SeenTokens
    /\ kind # "ask" /\ seen > 0 => sent[1].type = "role"

\* The reader's side of TextChannel: the text is what is not blank of the model's
\* pieces, or, in a tool-call response, its calls.
Text == IF kind = "tools" THEN {0} ELSE {j \in DOMAIN produced : produced[j] # "blank"}
Shown == IF kind = "tools" THEN {n \in {0} : Saw("calls")} ELSE SeenTokens
Source ==
    CASE kind = "tools" \/ up = "eof" -> "whole"
      [] kind # "tools" /\ up = "running" -> "writing"
      [] OTHER -> "broken"
Done == Saw("end")
Channel == INSTANCE TextChannel WITH
    Positions <- 0 .. MaxPieces, text <- Text, shown <- Shown, source <- Source, complete <- Done

\* Every writer implements TextChannel: step by step the client gets the next piece of
\* the text, and only such pieces, and the end marker after the last one of a stream
\* that ended well, past padded and blank pieces, swallowed writes and clients that leave.
DeliversText == Channel!Spec

\* The pump waits for a client that is there and does not read.
Blocked == pc \in WritePoints /\ conn = "up" /\ Len(sent) - seen >= Window

\* The model's stream is released however the pump ends: by the last event, an
\* error of the model, a failing write or the end of the process.  Only a client
\* that stays and does not read can hold it, since the server sets no write timeout.
UpstreamReleased == stream = "open" ~> (stream = "closed" \/ Blocked)

=============================================================================
