--------------------------- MODULE WatchInvariants ---------------------------
(***************************************************************************)
(* The inductive invariant of WatchStream: both readers agree with a       *)
(* decoder that takes the text token by token, however it was cut.         *)
(***************************************************************************)
EXTENDS WatchStream

\* What was told, the event under way and the line under way.
Begun == [out |-> <<>>, event |-> NoEvent, line |-> <<>>]

\* A line ends, and with a blank one an event.
EndLine(d) ==
  LET line == Stripped(d.line)
  IN  IF line = <<>> THEN [out |-> Yielded(d.out, d.event), event |-> NoEvent, line |-> <<>>]
      ELSE [out |-> d.out, event |-> TakeLine(d.event, Head(line), Tail(line)), line |-> <<>>]
TakeToken(d, c) ==
  IF c = "n" THEN EndLine(d) ELSE [d EXCEPT !.line = Append(@, c)]

\* The decoder after each number of tokens, and what it has told when the stream
\* closes there.
Decoded(text) ==
  LET after[i \in 0 .. Len(text)] ==
        IF i = 0 THEN Begun ELSE TakeToken(after[i - 1], text[i])
  IN  after
Told(d) == LET e == EndLine(d) IN Yielded(e.out, e.event)

-----------------------------------------------------------------------------
StreamInv ==
  /\ sent \in Seq(Blocks) /\ sent # <<>>
  /\ eol \in {<<"n">>, <<"r", "n">>}
  /\ arrived \in 0 .. Len(Text)
  /\ stream \in {"open", "closed", "broken"}

\* Python has read whole lines, or all there was of a stream that was closed.
PyInv ==
  LET d == Decoded(Text)[py.read] IN
  /\ py \in [read : 0 .. arrived, event : {py.event}, out : {py.out},
             at : {"reading", "ended", "raised"}]
  /\ IF py.at = "ended"
     THEN stream = "closed" /\ py.read = arrived /\ py.out = Told(d)
     ELSE \/ d.line = <<>> /\ py.event = d.event /\ py.out = d.out
          \/ /\ stream = "closed" /\ py.read = arrived /\ d.line # <<>>
             /\ py.event = EndLine(d).event /\ py.out = EndLine(d).out

\* TypeScript's buffer begins behind an event; with CR LF at the beginning.
TsInv ==
  LET start == ts.read - Len(ts.buffer)
      d == Decoded(Text)[start] IN
  /\ ts \in [read : 0 .. arrived, buffer : {ts.buffer}, out : {ts.out},
             at : {"reading", "ended", "raised"}]
  /\ start \in 0 .. ts.read /\ ts.buffer = SubSeq(Text, start + 1, ts.read)
  /\ ts.at = "ended" => stream = "closed" /\ ts.read = arrived /\ Boundaries = {}
  /\ eol = <<"n">> =>
       /\ d.event = NoEvent /\ d.line = <<>>
       /\ ts.out = IF ts.at = "ended" THEN Told(Decoded(Text)[arrived]) ELSE d.out
  /\ eol = <<"r", "n">> =>
       /\ start = 0
       /\ ts.out = IF ts.at = "ended"
                   THEN Yielded(<<>>, parseSseBlock(SubSeq(Text, 1, arrived))) ELSE <<>>

WatchInv == StreamInv /\ PyInv /\ TsInv
=============================================================================
