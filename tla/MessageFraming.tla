---------------------------- MODULE MessageFraming ----------------------------
(***************************************************************************)
(* How the MCP proxy cuts what it reads into messages, wherever the chunks *)
(* of a stream end: lines of the host's input (mcp/lines.ts) and the body  *)
(* of an upstream response, an SSE stream or one JSON text                 *)
(* (readMessages, mcp/transport.ts).  A byte is what the code tells apart: *)
(* "CR", "LF", "d" (the field name `data:`), "r" (a part of the reply the  *)
(* request waits for) and "x" (any other).  A step is one round of a loop. *)
(***************************************************************************)
EXTENDS Naturals, Sequences, FiniteSets

CONSTANTS MaxMessage,     \* MAX_LINE_BYTES and MAX_MESSAGE_BYTES
          MaxInput        \* bound: bytes of a stream

ASSUME FramingAssumption == MaxMessage \in Nat \ {0} /\ MaxInput \in Nat

VARIABLES
  feed,      \* "none" yet, or what is read: "stdio", "sse", "json"
  input,     \* the bytes of the stream
  at,        \* how many were delivered
  closed,    \* the stream has ended
  reader,    \* the state of the reading function
  frames     \* what it has yielded or emitted

framingVars == <<feed, input, at, closed, reader, frames>>

Symbols == {"CR", "LF", "d", "r", "x"}
Bytes(f) == IF f = "sse" THEN Symbols ELSE {"CR", "LF", "x"}
Terminators == {"CR", "LF"}

Overlong == <<"null">>                      \* yielded once for a line past the limit
MaxSseLine == MaxMessage + 1                \* the field name is framing

\* A reader waits for a chunk or works on what has come.  `text` is the line so
\* far, the buffer or the body, `from` the first byte of the chunk that is in no
\* line yet, `event` the data of the event, if it has any, its fields joined.
Readers ==
  [phase : {"waiting", "working", "ended", "failed", "replied"}, text : Seq(Symbols),
   from : Nat \ {0}, discarding : {"yes", "no"}, skipLF : {"yes", "no"},
   event : Seq(Seq(Symbols \cup {"NL"}))]

FramingTypeOK ==
  /\ feed \in {"none", "stdio", "sse", "json"}
  /\ input \in Seq(Symbols) /\ at \in 0..Len(input) /\ closed \in BOOLEAN
  /\ reader \in Readers /\ frames \in Seq(Seq(Symbols \cup {"NL", "null"}))

\* Position e of s is the first terminator from position `from` on.
FirstEnd(s, from, e) ==
  e >= from /\ s[e] \in Terminators /\ \A i \in from..e - 1 : s[i] \notin Terminators

\* After a terminator at e, one more for a CRLF that has come whole.
AfterEnd(s, e, last) == IF s[e] = "CR" /\ e < last /\ s[e + 1] = "LF" THEN e + 2 ELSE e + 1

Now == [r |-> reader, out |-> <<>>]
Taken(s) == reader' = s.r /\ frames' = frames \o s.out

-----------------------------------------------------------------------------
(* readStdioLines.                                                         *)

\* append: a line past the limit is dropped at once, up to its end.
Buffered(s, bytes) ==
  IF s.r.discarding = "yes" THEN s
  ELSE IF Len(s.r.text) + Len(bytes) > MaxMessage
       THEN [s EXCEPT !.r.text = <<>>, !.r.discarding = "yes", !.out = Append(@, Overlong)]
       ELSE [s EXCEPT !.r.text = @ \o bytes]

EndOfLine(s) ==
  [r |-> [s.r EXCEPT !.text = <<>>, !.discarding = "no"],
   out |-> IF s.r.discarding = "yes" THEN s.out ELSE Append(s.out, s.r.text)]

\* The LF that follows a CR is skipped, also when a chunk ended between the two.
StdioChunk(to) ==
  reader' = [reader EXCEPT !.phase = "working", !.skipLF = "no",
               !.from = IF reader.skipLF = "yes" /\ input[at + 1] = "LF" THEN @ + 1 ELSE @]

StdioLine ==
  /\ feed = "stdio" /\ reader.phase = "working"
  /\ \E e \in reader.from..at :
       /\ FirstEnd(input, reader.from, e)
       /\ LET s == EndOfLine(Buffered(Now, SubSeq(input, reader.from, e - 1)))
              skip == IF input[e] = "CR" /\ e = at THEN "yes" ELSE "no"
          IN  Taken([r |-> [s.r EXCEPT !.from = AfterEnd(input, e, at), !.skipLF = skip],
                     out |-> s.out])
  /\ UNCHANGED <<feed, input, at, closed>>

StdioRest ==
  /\ feed = "stdio" /\ reader.phase = "working"
  /\ \A i \in reader.from..at : input[i] \notin Terminators
  /\ LET s == Buffered(Now, SubSeq(input, reader.from, at))
     IN  Taken([r |-> [s.r EXCEPT !.phase = "waiting", !.from = at + 1], out |-> s.out])
  /\ UNCHANGED <<feed, input, at, closed>>

\* A last line without an end is a line, if it has a byte.
StdioEnd ==
  Taken([r |-> [reader EXCEPT !.phase = "ended"],
         out |-> IF reader.discarding = "no" /\ reader.text # <<>> THEN <<reader.text>> ELSE <<>>])

-----------------------------------------------------------------------------
(* readMessages.                                                           *)

IsJson(text) == \E i \in DOMAIN text : text[i] \in {"r", "x", "d"}
IsReply(text) == \E i \in DOMAIN text : text[i] = "r"

\* parse and emit: text that is no JSON fails the request, its reply ends it.
Parsed(s, text) ==
  IF ~IsJson(text) THEN [s EXCEPT !.r.phase = "failed"]
  ELSE [s EXCEPT !.out = Append(@, text), !.r.phase = IF IsReply(text) THEN "replied" ELSE @]

WithField(event, data) == IF event = <<>> THEN data ELSE event[1] \o <<"NL">> \o data

\* line: a blank one ends the event, and a field that is not data is ignored.
LineRead(s, line) ==
  IF Len(line) > MaxSseLine THEN [s EXCEPT !.r.phase = "failed"]
  ELSE IF line = <<>>
  THEN IF s.r.event = <<>> THEN s ELSE Parsed([s EXCEPT !.r.event = <<>>], s.r.event[1])
  ELSE IF line[1] = "d"
  THEN LET data == WithField(s.r.event, Tail(line))
       IN  IF Len(data) > MaxMessage THEN [s EXCEPT !.r.phase = "failed"]
           ELSE [s EXCEPT !.r.event = <<data>>]
  ELSE s

NeverWait(buffer, e) == FALSE

\* A CR at the end of what has come may be half of a CRLF: it has to wait.
MustWait(buffer, e) == ~closed /\ buffer[e] = "CR" /\ e = Len(buffer)

SseChunk(to) ==
  reader' = [reader EXCEPT !.phase = "working", !.text = @ \o SubSeq(input, at + 1, to)]

SseLine ==
  /\ feed = "sse" /\ reader.phase = "working"
  /\ \E e \in DOMAIN reader.text :
       /\ FirstEnd(reader.text, 1, e) /\ ~MustWait(reader.text, e)
       /\ LET s == LineRead(Now, SubSeq(reader.text, 1, e - 1))
              next == AfterEnd(reader.text, e, Len(reader.text))
          IN  Taken([s EXCEPT !.r.text = SubSeq(reader.text, next, Len(reader.text))])
  /\ UNCHANGED <<feed, input, at, closed>>

\* No complete line is left.  The limit of the one that is not, and at the end
\* of the stream the last line; the event it belongs to is discarded.
SseRest ==
  /\ feed = "sse" /\ reader.phase = "working"
  /\ \A e \in DOMAIN reader.text : FirstEnd(reader.text, 1, e) => MustWait(reader.text, e)
  /\ LET text == reader.text
         pending == IF text # <<>> /\ text[Len(text)] = "CR" THEN 1 ELSE 0
         overlong == Len(text) - pending > MaxSseLine
         last == LineRead(Now, text)
     IN  \/ overlong /\ Taken([Now EXCEPT !.r.phase = "failed"])
         \/ ~overlong /\ ~closed /\ Taken([Now EXCEPT !.r.phase = "waiting"])
         \/ /\ ~overlong /\ closed
            /\ \/ text = <<>> /\ Taken([Now EXCEPT !.r.phase = "ended"])
               \/ /\ text # <<>>
                  /\ Taken([last EXCEPT !.r.phase = IF @ = "working" THEN "ended" ELSE @])
  /\ UNCHANGED <<feed, input, at, closed>>

JsonChunk(to) ==
  LET body == reader.text \o SubSeq(input, at + 1, to)
  IN  reader' = [reader EXCEPT !.text = body,
                               !.phase = IF Len(body) > MaxMessage THEN "failed" ELSE @]

IsBlank(text) == \A i \in DOMAIN text : text[i] \in Terminators

\* The text is parsed when it is not blank.
JsonEnd ==
  LET s == [Now EXCEPT !.r.phase = "ended"]
  IN  Taken(IF IsBlank(reader.text) THEN s ELSE Parsed(s, reader.text))

-----------------------------------------------------------------------------
FramingInit ==
  /\ feed = "none" /\ input = <<>> /\ at = 0 /\ closed = FALSE /\ frames = <<>>
  /\ reader = [phase |-> "waiting", text |-> <<>>, from |-> 1, discarding |-> "no",
               skipLF |-> "no", event |-> <<>>]

Connect ==
  /\ feed = "none"
  /\ \E f \in {"stdio", "sse", "json"} :
       feed' = f /\ input' \in [1..MaxInput -> Bytes(f)]
  /\ UNCHANGED <<at, closed, reader, frames>>

\* The next chunk, of any length.
Receive ==
  /\ reader.phase = "waiting"
  /\ \E to \in at + 1..Len(input) :
       /\ at' = to
       /\ \/ feed = "stdio" /\ StdioChunk(to)
          \/ feed = "sse" /\ SseChunk(to)
          \/ feed = "json" /\ JsonChunk(to)
  /\ UNCHANGED <<feed, input, closed, frames>>

\* The stream ends, wherever it is.
EndOfStream ==
  /\ reader.phase = "waiting" /\ closed' = TRUE
  /\ \/ feed = "stdio" /\ StdioEnd
     \/ feed = "sse" /\ Taken([Now EXCEPT !.r.phase = "working"])
     \/ feed = "json" /\ JsonEnd
  /\ UNCHANGED <<feed, input, at>>

FramingNext ==
  Connect \/ Receive \/ StdioLine \/ StdioRest \/ SseLine \/ SseRest \/ EndOfStream

FramingSpec == FramingInit /\ [][FramingNext]_framingVars

-----------------------------------------------------------------------------
(* What a stream s says, whole.  A line, and the data of an event, is a    *)
(* set of positions of the stream.                                         *)

IsEnd(s, e) == s[e] = "CR" \/ (s[e] = "LF" /\ ~(e > 1 /\ s[e - 1] = "CR"))

\* The line that ends before position e.
Line(s, e) == {p \in 1..e - 1 : \A q \in p..e - 1 : s[q] \notin Terminators}

\* The ends of the lines of the first n bytes.
Ends(s, n) == {e \in 1..n : IsEnd(s, e)}

\* An unfinished line counts when it is past the limit and when the stream ended.
Lines(s, n, limit, ended) ==
  Ends(s, n) \cup
  {e \in {n + 1} : Cardinality(Line(s, e)) > limit \/ (ended /\ Line(s, e) # {})}

Rank(S, p) == Cardinality({q \in S : q <= p})

\* Text has what `bytes` has at the positions of S, in their order.
Spells(text, S, bytes) ==
  Len(text) = Cardinality(S) /\ \A p \in S : text[Rank(S, p)] = bytes[p]

Opens(s, p) == p = 1 \/ s[p - 1] \in Terminators
IsData(s, e) == \E p \in Line(s, e) : Opens(s, p) /\ s[p] = "d"

\* The data lines of the event that the line at e belongs to or ends, up to it.
Event(s, e) ==
  {d \in 1..e : /\ d = e \/ IsEnd(s, d)
                /\ IsData(s, d)
                /\ \A b \in d + 1..e - 1 : IsEnd(s, b) => Line(s, b) # {}}

\* The bytes of data lines but for the field names, joined by newlines: a field
\* name stands for the newline before it.
Data(s, lines) ==
  LET fields == UNION {Line(s, d) : d \in lines}
  IN  {p \in fields : \E q \in fields : q < p}
Payload(s, e) == Data(s, Event(s, e))
Joined(s) == [p \in DOMAIN s |-> IF Opens(s, p) THEN "NL" ELSE s[p]]

Completes(s, e) == Line(s, e) = {} /\ Event(s, e) # {}

Faulty(s, e) ==
  \/ Cardinality(Line(s, e)) > MaxSseLine \/ Cardinality(Payload(s, e)) > MaxMessage
  \/ Completes(s, e) /\ ~\E p \in Payload(s, e) : Joined(s)[p] \in {"r", "x", "d"}

Replies(s, e) == Completes(s, e) /\ \E p \in Payload(s, e) : Joined(s)[p] = "r"
Final(s, e) == Faulty(s, e) \/ Replies(s, e)

\* The ends of the events that are messages: up to the first fault or the reply.
Messages(s, ends) ==
  {e \in ends : /\ Completes(s, e) /\ ~Faulty(s, e)
                /\ \A d \in ends : d < e => ~Final(s, d)}

\* A CR that the stream may go on from is not read yet.
Known == IF ~closed /\ at > 0 /\ input[at] = "CR" THEN at - 1 ELSE at

-----------------------------------------------------------------------------
LinesAsSent ==
  LET lines == Lines(input, at, MaxMessage, closed)
  IN  /\ Len(frames) = Cardinality(lines)
      /\ \A e \in lines :
           LET frame == frames[Rank(lines, e)]
           IN  IF Cardinality(Line(input, e)) > MaxMessage THEN frame = Overlong
               ELSE Spells(frame, Line(input, e), input)

EventsAsSent ==
  LET lines == Lines(input, Known, MaxSseLine, closed)
      messages == Messages(input, lines)
  IN  /\ Len(frames) = Cardinality(messages)
      /\ \A e \in messages :
           Spells(frames[Rank(messages, e)], Payload(input, e), Joined(input))
      /\ \/ /\ \A e \in lines : ~Final(input, e)
            /\ reader.phase = IF closed THEN "ended" ELSE "waiting"
         \/ \E e \in lines :
              /\ Final(input, e) /\ \A d \in lines : d < e => ~Final(input, d)
              /\ reader.phase = IF Faulty(input, e) THEN "failed" ELSE "replied"

BodyAsSent ==
  LET body == SubSeq(input, 1, at)
  IN  /\ frames = IF closed /\ IsJson(body) THEN <<body>> ELSE <<>>
      /\ reader.phase = "failed" <=>
           Len(body) > MaxMessage \/ (closed /\ ~IsJson(body) /\ ~IsBlank(body))

\* Wherever the chunks end, within a CRLF or past the limit too, the host's
\* lines are those of the whole, each as soon as it ended and an overlong one
\* as one null (lines.ts:6, 25-27, 47); the messages of a stream of events are
\* those of its events, up to the reply or the first that is too long or no
\* JSON, and none is held back but for a last CR (transport.ts:150-167); and a
\* JSON body is the one message it is.
FramesAsSent ==
  reader.phase # "working" =>
    /\ feed = "stdio" => LinesAsSent
    /\ feed = "sse" => EventsAsSent
    /\ feed = "json" => BodyAsSent
=============================================================================
