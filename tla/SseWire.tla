------------------------------ MODULE SseWire ------------------------------
(***************************************************************************)
(* One streamed answer on its way from Venice to the reader: the frames    *)
(* the server writes (backend/src/services/venice-stream.service.ts, the   *)
(* hooks of routes/chat.routes.ts, lib/venice-errors.ts, middleware/       *)
(* error-handler.ts), cut by the network where it likes, put together      *)
(* again (frontend/src/lib/sse.ts, streamingAI.ts), and what the reader is *)
(* told at the end (hooks/useAICompletion.ts, VeniceErrorBanner.tsx).      *)
(*                                                                         *)
(* A frame's line of JSON is sent in two halves, so that a read may end in *)
(* the middle of a line, between lines, or inside the blank line.          *)
(***************************************************************************)
EXTENDS Naturals, Sequences, SequencesExt

CONSTANT Length      \* pieces of text in the whole answer

(* What may go wrong: Venice's statuses, a connection that fails, a defect  *)
(* of the server's own, and refusals before Venice is called.               *)
Early == {"no key", "unknown model"}
Statuses == {"401", "402", "403", "404", "429", "500", "503"}
Fault == Statuses \cup {"connection", "defect"} \cup Early

(* classify, and what is no APIError: globalErrorHandler before the stream, *)
(* stream_error in it.                                                      *)
Code(fault, streaming) ==
    CASE fault = "401" -> "venice_key_invalid"
      [] fault = "429" -> "venice_rate_limited"
      [] fault = "402" -> "venice_insufficient_balance"
      [] fault = "503" -> "venice_unavailable"
      [] fault \in {"403", "404", "500", "connection"} -> "venice_error"
      [] fault = "no key" -> "venice_key_required"
      [] fault = "unknown model" -> "unknown_model"
      [] fault = "defect" -> IF streaming THEN "stream_error" ELSE "internal_error"

HttpStatus(fault) ==
    CASE fault \in {"401", "unknown model"} -> 400
      [] fault = "402" -> 402
      [] fault = "404" -> 404
      [] fault = "no key" -> 409
      [] fault = "429" -> 429
      [] fault \in {"403", "500", "503", "connection"} -> 502
      [] fault = "defect" -> 500

(* The limits' headers: 0 for none, 9 for one that cannot be read. *)
Seconds == {0, 1, 2, 9}
Hints == [after : Seconds, requests : Seconds, tokens : Seconds]
NoHints == [after |-> 0, requests |-> 0, tokens |-> 0]

(* parseRetryAfter: retry-after goes first, else the sooner of the others. *)
RetryAfter(h) ==
    IF h.after \in {1, 2} THEN h.after
    ELSE LET resets == {h.requests, h.tokens} \cap {1, 2}
         IN  IF resets = {} THEN 0 ELSE CHOOSE s \in resets : \A t \in resets : s <= t

(* Tokens: "event" is the line that names a frame of citations, "nl" ends a *)
(* line, any other token is a half of a line of data.                       *)
Delta == [is : {"text"}, n : 1..Length]
Error(c) == [is |-> "error", n |-> c]
Citations == [is |-> "citations", n |-> 0]
Done == [is |-> "done", n |-> 0]
NL == [half |-> 0, of |-> "nl"]
Event == [half |-> 0, of |-> "event"]
Data(x) == <<[half |-> 1, of |-> x], [half |-> 2, of |-> x], NL, NL>>

VARIABLES
    served,    \* pieces of text Venice has produced
    searched,  \* whether it began with search results
    fault,     \* what went wrong, or "none"
    hints,
    ended,     \* the server has written its last frame
    wire,      \* tokens written and not yet read
    cut,       \* the connection broke
    buffer,    \* parseAiSseStream's
    status, text, cited,
    code, http, wait  \* of the error shown

vars == <<served, searched, fault, hints, ended, wire, cut, buffer, status, text, cited,
          code, http, wait>>

Tokens == {NL, Event} \cup {[half |-> h, of |-> x] : h \in 1..2,
             x \in Delta \cup {Citations, Done} \cup {Error(Code(f, TRUE)) : f \in Fault}}
Status == {"sent", "thinking", "streaming", "done", "error", "idle"}

TypeOK ==
    /\ served \in 0..Length /\ searched \in BOOLEAN /\ fault \in Fault \cup {"none"}
    /\ hints \in Hints /\ ended \in BOOLEAN /\ cut \in BOOLEAN /\ cited \in BOOLEAN
    /\ wire \in Seq(Tokens) /\ buffer \in Seq(Tokens) /\ text \in Seq(1..Length)
    /\ status \in Status /\ code \in {"none"} \cup {Code(f, s) : f \in Fault, s \in BOOLEAN}
    /\ http \in {0} \cup 400..599 /\ wait \in 0..2

Init ==
    /\ served = 0 /\ searched = FALSE /\ fault = "none" /\ hints = NoHints
    /\ ended = FALSE /\ wire = <<>> /\ cut = FALSE /\ buffer = <<>>
    /\ status = "sent" /\ text = <<>> /\ cited = FALSE
    /\ code = "none" /\ http = 0 /\ wait = 0

Reading == status \in {"thinking", "streaming"}
Told(c, h, s) == status' = "error" /\ code' = c /\ http' = h /\ wait' = s
Untold == UNCHANGED <<code, http, wait>>

-----------------------------------------------------------------------------
(* An error before the stream: mapVeniceError, globalErrorHandler. *)
Refuse(f, h) ==
    /\ status = "sent" /\ fault' = f /\ hints' = h /\ ended' = TRUE
    /\ Told(Code(f, FALSE), HttpStatus(f), IF f = "429" THEN RetryAfter(h) ELSE 0)
    /\ UNCHANGED <<served, searched, wire, cut, buffer, text, cited>>

(* The stream's headers are sent. *)
Accept ==
    /\ status = "sent" /\ status' = "thinking" /\ Untold
    /\ UNCHANGED <<served, searched, fault, hints, ended, wire, cut, buffer, text, cited>>

Writes(frames) == wire' = IF cut THEN wire ELSE wire \o frames

Streams(frames) ==
    /\ ~ended /\ status # "sent" /\ Writes(frames) /\ Untold
    /\ UNCHANGED <<cut, buffer, status, text, cited>>

(* A chunk of search results is consumed, and citations take its place; it  *)
(* comes first.                                                             *)
Search ==
    /\ served = 0 /\ ~searched /\ searched' = TRUE
    /\ Streams(<<Event, NL>> \o Data(Citations)) /\ UNCHANGED <<served, fault, hints, ended>>

(* A chunk is forwarded. *)
Forward ==
    /\ served < Length /\ served' = served + 1
    /\ Streams(Data([is |-> "text", n |-> served']))
    /\ UNCHANGED <<searched, fault, hints, ended>>

Finish ==
    /\ served = Length /\ ended' = TRUE
    /\ Streams(Data(Done)) /\ UNCHANGED <<served, searched, fault, hints>>

(* The stream breaks: mapVeniceErrorToSse, or the generic frame.  The time  *)
(* to wait is in the frame, and left there by tryParseFrame.                *)
Break(f) ==
    /\ ended' = TRUE /\ fault' = f
    /\ Streams(Data(Error(Code(f, TRUE))) \o Data(Done)) /\ UNCHANGED <<served, searched, hints>>

-----------------------------------------------------------------------------
(* Where the first blank line of the buffer begins, or 0. *)
Blank ==
    LET ends == {i \in 1..Len(buffer) - 1 : buffer[i] = NL /\ buffer[i + 1] = NL}
    IN  IF ends = {} THEN 0 ELSE CHOOSE i \in ends : \A j \in ends : i <= j

(* Faulty variant: what is left of the buffer goes with the read. *)
Forgets(read) == read

Joined(read) == buffer \o read

(* reader.read(): some of what has arrived, once the frames at hand are     *)
(* dealt with.                                                              *)
Read(k) ==
    /\ Reading /\ Blank = 0 /\ k \in 1..Len(wire)
    /\ buffer' = Joined(SubSeq(wire, 1, k)) /\ wire' = SubSeq(wire, k + 1, Len(wire))
    /\ UNCHANGED <<served, searched, fault, hints, ended, cut, status, text, cited>> /\ Untold

(* tryParseFrame: a frame whose line is not whole, or none, says nothing;   *)
(* citations are citations only under their name.                           *)
Payloads(frame) ==
    {frame[i].of : i \in {j \in 1..Len(frame) - 1 :
                            frame[j].half = 1 /\ frame[j + 1] = [frame[j] EXCEPT !.half = 2]}}
Named(frame) == Event \in ToSet(frame)

(* runStreamingAI, and the run that called it. *)
Dispatch(x, named) ==
    CASE x.is = "text" ->
           status' = "streaming" /\ text' = Append(text, x.n) /\ UNCHANGED cited /\ Untold
      [] x.is = "citations" ->
           cited' = (cited \/ named) /\ UNCHANGED <<status, text>> /\ Untold
      [] x.is = "error" -> Told(x.n, 502, 0) /\ UNCHANGED <<text, cited>>
      [] x.is = "done" -> status' = "done" /\ UNCHANGED <<text, cited>> /\ Untold

Says(frame, named) ==
    \/ Payloads(frame) = {} /\ UNCHANGED <<status, text, cited>> /\ Untold
    \/ \E x \in Payloads(frame) : Dispatch(x, named)

(* One frame. *)
Parse ==
    /\ Reading /\ Blank # 0
    /\ buffer' = SubSeq(buffer, Blank + 2, Len(buffer))
    /\ Says(SubSeq(buffer, 1, Blank - 1), Named(SubSeq(buffer, 1, Blank - 1)))
    /\ UNCHANGED <<served, searched, fault, hints, ended, wire, cut>>

(* The connection breaks, with what was on its way. *)
Cut ==
    /\ status # "sent" /\ Reading /\ ~cut /\ cut' = TRUE
    /\ \E k \in 0..Len(wire) : wire' = SubSeq(wire, 1, k)
    /\ UNCHANGED <<served, searched, fault, hints, ended, buffer, status, text, cited>> /\ Untold

(* The read rejects, and the run is taken for complete; or the stream ends  *)
(* early, and a last line without its blank line is still used.             *)
Rejects ==
    /\ Reading /\ cut /\ wire = <<>> /\ Blank = 0 /\ status' = "done" /\ Untold
    /\ UNCHANGED <<served, searched, fault, hints, ended, wire, cut, buffer, text, cited>>

EndsEarly ==
    /\ Reading /\ cut /\ wire = <<>> /\ Blank = 0
    /\ LET xs == IF Named(buffer) THEN {} ELSE Payloads(buffer)
           words == {x.n : x \in {y \in xs : y.is = "text"}}
           errors == {x.n : x \in {y \in xs : y.is = "error"}}
       IN  /\ text' = text \o SetToSeq(words)
           /\ IF errors = {} THEN status' = "done" /\ Untold
              ELSE \E c \in errors : Told(c, 502, 0)
    /\ UNCHANGED <<served, searched, fault, hints, ended, wire, cut, buffer, cited>>

(* cancel: the request is aborted, the read rejects, and nothing is said. *)
Cancel ==
    /\ Reading /\ status' = "idle" /\ text' = <<>> /\ cut' = TRUE /\ wire' = <<>> /\ Untold
    /\ UNCHANGED <<served, searched, fault, hints, ended, buffer, cited>>

Next ==
    \/ \E f \in Fault : Refuse(f, NoHints)
    \/ \E h \in Hints : Refuse("429", h)
    \/ Accept \/ Search \/ Forward \/ Finish \/ \E f \in Fault \ Early : Break(f)
    \/ \E k \in 1..Len(wire) : Read(k)
    \/ Parse \/ Cut \/ Rejects \/ EndsEarly \/ Cancel

Spec == Init /\ [][Next]_vars

-----------------------------------------------------------------------------
(* VeniceErrorBanner: what it offers, beside Retry. *)
Remedies ==
    {r \in {"settings"} : code \in {"venice_key_invalid", "venice_key_required"}}
    \cup {r \in {"top up"} : code = "venice_insufficient_balance"}
    \cup {r \in {"countdown"} : code = "venice_rate_limited" /\ wait > 0}

(* The text is always a beginning of Venice's, piece by piece, however the  *)
(* network cuts the frames.  A run that is done has all of it, with the     *)
(* citations if there are any, and nothing went wrong at Venice, unless the *)
(* connection broke: then it may be done with less ("treat as completion",  *)
(* streamingAI.ts:50).  A run that failed says what went wrong: the key's   *)
(* refusal leads to the settings, the empty account to its top-up, a limit  *)
(* met before the stream counts down if a header tells the time; and none   *)
(* is answered 401, which would end the session (classify, api.ts:174).     *)
OutcomeTruthful ==
    /\ IsPrefix(text, [n \in 1..served |-> n])
    /\ status = "done" /\ ~cut =>
         fault = "none" /\ Len(text) = Length /\ (cited <=> searched)
    /\ status = "error" =>
         /\ fault # "none" /\ http # 401
         /\ "settings" \in Remedies <=> fault \in {"401", "no key"}
         /\ "top up" \in Remedies <=> fault = "402"
         /\ "countdown" \in Remedies =>
              fault = "429" /\ wait <= (IF hints.after \in {1, 2} THEN hints.after ELSE 2)
         /\ code = "venice_rate_limited" /\ http = 429 /\ wait = 0 => hints \in [DOMAIN hints -> {0, 9}]
=============================================================================
