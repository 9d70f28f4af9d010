--------------------------- MODULE ScratchpadStream ---------------------------
(***************************************************************************)
(* What a client makes of the kernel's event stream: SSEParser of          *)
(* _remote/sse.py, and _read_execution, _MarkerExtractor and               *)
(* _dispatch_event of _remote/client.py.                                   *)
(*                                                                         *)
(* The stream arrives in chunks that respect no boundary: of a line, of an *)
(* event, or of the marker that precedes the answer among everything else  *)
(* the notebook prints.  A symbol of the wire is a byte or a piece no two  *)
(* chunks of interest divide: "event:stdout", "data:", "cr", "lf", and, in *)
(* the text of an event, the halves of the marker, "newline" and letters.  *)
(***************************************************************************)
EXTENDS Naturals, Sequences, SequencesExt

CONSTANTS
    Wires,              \* the streams a kernel may send
    GoodWires,          \* those of them that are whole executions within the limits
    MaxEventSymbols,    \* maximum_event_bytes
    MaxAnswer           \* maximum_response_bytes

ASSUME ScratchpadAssumption == MaxEventSymbols \in Nat \ {0} /\ MaxAnswer \in Nat \ {0}

Marker == <<"m1", "m2">>
EventNames == {"stdout", "stderr", "done"}

VARIABLES
    arriving,   \* the stream, and what has not been read of it
    parser,     \* the SSEParser
    extractor,  \* the _MarkerExtractor
    execution   \* _read_execution: where it is, the events it holds, its outcome

streamVars == <<arriving, parser, extractor, execution>>

StreamInit ==
    /\ \E w \in Wires : arriving = [all |-> w, rest |-> w]
    /\ parser = [buffer |-> << >>, event |-> "message", data |-> << >>, wire |-> 0]
    /\ extractor = [buffer |-> << >>, capturing |-> FALSE, answer |-> << >>]
    /\ execution = [pc |-> "read", events |-> << >>, outcome |-> "none", ended |-> FALSE]

-----------------------------------------------------------------------------
(* Lines                                                                   *)

Position(s, x) == IF x \in ToSet(s) THEN SelectInSeq(s, LAMBDA y : y = x) ELSE 0
StripCr(line) == IF line # << >> /\ Last(line) = "cr" THEN Front(line) ELSE line

StreamFails == execution' = [execution EXCEPT !.pc = "over", !.outcome = "error"]

\* A chunk of the stream, or its end.
ReadChunk ==
    /\ execution.pc = "read" /\ arriving.rest # << >>
    /\ \E n \in 1..Len(arriving.rest) :
         /\ parser' = [parser EXCEPT !.buffer = @ \o SubSeq(arriving.rest, 1, n)]
         /\ arriving' = [arriving EXCEPT !.rest = SubSeq(@, n + 1, Len(@))]
    /\ execution' = [execution EXCEPT !.pc = "parse"] /\ UNCHANGED extractor

\* close() takes what is left as the last line, and then an empty one.
ReadEnd ==
    /\ execution.pc = "read" /\ arriving.rest = << >>
    /\ parser' = [parser EXCEPT !.buffer = @ \o (IF @ = << >> THEN <<"lf">> ELSE <<"lf", "lf">>)]
    /\ execution' = [execution EXCEPT !.pc = "parse", !.ended = TRUE]
    /\ UNCHANGED <<arriving, extractor>>

\* Mutation of TakenLine: a line is taken as it stands.
WholeLine(line) == line

TakenLine(line) == StripCr(line)

\* _line: an empty line dispatches the event, a field adds to it.
ParseLine ==
    LET n == Position(parser.buffer, "lf")
        line == TakenLine(SubSeq(parser.buffer, 1, n - 1))
        rest == SubSeq(parser.buffer, n + 1, Len(parser.buffer))
        wire == parser.wire + n
    IN
    /\ execution.pc = "parse" /\ n > 0
    /\ UNCHANGED <<arriving, extractor>>
    /\ \/ /\ line = << >>
          /\ parser' = [buffer |-> rest, event |-> "message", data |-> << >>, wire |-> 0]
          /\ execution' = IF parser.data = << >> THEN execution
                          ELSE [execution EXCEPT !.events =
                                   Append(@, [event |-> parser.event, data |-> parser.data])]
       \/ /\ line # << >> /\ wire > MaxEventSymbols
          /\ StreamFails /\ UNCHANGED parser
       \/ /\ line # << >> /\ wire <= MaxEventSymbols
          /\ parser' = [parser EXCEPT
                 !.buffer = rest, !.wire = wire,
                 !.event = IF line[1] \in EventNames THEN line[1] ELSE @,
                 !.data = IF line[1] = "data" THEN Append(@, Tail(line)) ELSE @]
          /\ UNCHANGED execution

ParseEnds ==
    /\ execution.pc = "parse" /\ Position(parser.buffer, "lf") = 0
    /\ IF parser.wire + Len(parser.buffer) > MaxEventSymbols THEN StreamFails
       ELSE execution' = [execution EXCEPT !.pc = "dispatch"]
    /\ UNCHANGED <<arriving, parser, extractor>>

-----------------------------------------------------------------------------
(* The marker                                                              *)

\* Where the marker starts in a text, 0 if it is not there.
Find(s) ==
    LET starts == {i \in 1..(Len(s) - 1) : SubSeq(s, i, i + 1) = Marker}
    IN IF starts = {} THEN 0 ELSE CHOOSE i \in starts : \A j \in starts : i <= j
From(s, i) == SubSeq(s, i, Len(s))

\* Mutation of KeepsTail: what does not hold the whole marker is dropped.
KeepsNothing(s) == << >>

\* What may be the first part of a marker is kept.
KeepsTail(s) == From(s, IF Len(s) < Len(Marker) THEN 1 ELSE Len(s) - Len(Marker) + 2)

\* _MarkerExtractor.feed
Feed(text) ==
    LET all == extractor.buffer \o text
        m == Find(all)
        captured == IF extractor.capturing THEN all ELSE From(all, m + Len(Marker))
        n == Position(captured, "newline")
    IN
    CASE extractor.answer # << >> -> [ok |-> Find(text) = 0, to |-> extractor]
      [] ~extractor.capturing /\ m = 0 ->
            [ok |-> TRUE, to |-> [extractor EXCEPT !.buffer = KeepsTail(all)]]
      [] n = 0 -> [ok |-> Len(captured) <= MaxAnswer,
                   to |-> [extractor EXCEPT !.buffer = captured, !.capturing = TRUE]]
      [] OTHER -> [ok |-> n > 1 /\ n - 1 <= MaxAnswer /\ Find(From(captured, n + 1)) = 0,
                   to |-> [buffer |-> << >>, capturing |-> TRUE,
                           answer |-> SubSeq(captured, 1, n - 1)]]

\* finish: an answer, or what was captured of one without its newline.
Finished ==
    LET answer == IF extractor.answer # << >> THEN extractor.answer
                  ELSE IF extractor.capturing THEN extractor.buffer ELSE << >>
    IN
    /\ extractor' = [extractor EXCEPT !.answer = answer]
    /\ execution' = [execution EXCEPT !.pc = "over",
                                      !.outcome = IF answer = << >> THEN "error" ELSE "answer"]

\* _dispatch_event; the data of an event is one line of JSON.
Dispatch ==
    /\ execution.pc = "dispatch" /\ execution.events # << >>
    /\ UNCHANGED <<arriving, parser>>
    /\ LET e == Head(execution.events)
           next == [execution EXCEPT !.events = Tail(@)]
           fed == Feed(e.data[1])
       IN
       \/ Len(e.data) > 1 /\ StreamFails /\ UNCHANGED extractor
       \/ /\ Len(e.data) = 1 /\ e.event = "stdout"
          /\ IF fed.ok THEN extractor' = fed.to /\ execution' = next
             ELSE StreamFails /\ UNCHANGED extractor
       \/ Len(e.data) = 1 /\ e.event \in {"stderr", "message"}
          /\ execution' = next /\ UNCHANGED extractor
       \/ /\ Len(e.data) = 1 /\ e.event = "done"
          /\ IF e.data[1] = <<"success">> THEN Finished ELSE StreamFails /\ UNCHANGED extractor

\* Without a done event the stream is incomplete.
DispatchEnds ==
    /\ execution.pc = "dispatch" /\ execution.events = << >>
    /\ IF execution.ended THEN StreamFails ELSE execution' = [execution EXCEPT !.pc = "read"]
    /\ UNCHANGED <<arriving, parser, extractor>>

StreamNext ==
    \/ ReadChunk \/ ReadEnd \/ ParseLine \/ ParseEnds \/ Dispatch \/ DispatchEnds

StreamSpec == StreamInit /\ [][StreamNext]_streamVars

-----------------------------------------------------------------------------
(* Properties                                                              *)

StreamTypeOK ==
    /\ execution.pc \in {"read", "parse", "dispatch", "over"}
    /\ execution.outcome \in {"none", "answer", "error"}
    /\ parser.wire <= MaxEventSymbols

\* What was printed after the marker, up to a newline, read off the stream as a whole.
Printed(wire) ==
    LET lines == {i \in 1..Len(wire) : wire[i] = "data"}
        text(i) == LET end == CHOOSE j \in i..Len(wire) :
                                /\ wire[j] = "lf" /\ \A k \in i..(j - 1) : wire[k] # "lf"
                   IN StripCr(SubSeq(wire, i + 1, end - 1))
        stdout(i) == \E j \in 1..(i - 1) :
                        wire[j] = "stdout" /\ \A k \in (j + 1)..(i - 1) : wire[k] \notin EventNames
        all == FoldLeft(LAMBDA s, i : s \o (IF i \in lines /\ stdout(i) THEN text(i) ELSE << >>),
                        << >>, [i \in 1..Len(wire) |-> i])
        after == From(all, Find(all) + Len(Marker))
        n == Position(after, "newline")
    IN IF n = 0 THEN after ELSE SubSeq(after, 1, n - 1)

\* However the stream was cut, an answer is the whole of what the bridge printed.
AnswerIsWhole ==
    execution.outcome = "answer" =>
        extractor.answer = Printed(arriving.all) /\ Len(extractor.answer) <= MaxAnswer

\* An execution that is well formed is answered, wherever it is cut (HttpKernelTransport._read_execution).
GoodStreamIsAnswered ==
    arriving.all \in GoodWires => execution.outcome # "error"

ScratchpadIsRead == AnswerIsWhole /\ GoodStreamIsAnswered
=============================================================================
