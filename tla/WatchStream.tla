----------------------------- MODULE WatchStream -----------------------------
(***************************************************************************)
(* Watching a stream of server-sent events: _watch of                      *)
(* clients/python/fiducia.py, which reads line by line, and watch of       *)
(* clients/ts/fiducia.ts, which reads chunks and splits them into blocks.  *)
(*                                                                         *)
(* The server is external: it writes blocks of lines, one blank line after *)
(* each.  A line is a field token ("data:", ...) followed by the tokens of *)
(* its value; "r" and "n" are CR and LF.  The network shows the text piece *)
(* by piece, and the stream closes or breaks anywhere.                     *)
(***************************************************************************)
EXTENDS Naturals, Sequences, SequencesExt

CONSTANTS
  Characters,  \* what a value is made of
  Blocks,      \* the blocks a server may send: sequences of [field, value]
  MaxBlocks,   \* how many it sends at most
  NoId         \* the absent id

Fields == {"event:", "id:", "data:", ":"}

\* A value is in one line, and no block is empty.
ASSUME BlocksAssumption ==
  /\ MaxBlocks \in Nat
  /\ Characters \intersect {"r", "n"} = {}
  /\ \A b \in Blocks :
       b \in Seq([field : Fields, value : Seq(Characters)]) /\ b # <<>>

VARIABLES
  sent,      \* the blocks of this stream
  eol,       \* its line end: <<"n">> or <<"r", "n">>
  arrived,   \* how many tokens of the text the network has shown
  stream,    \* "open", "closed" by the server, "broken"
  py,        \* the Python reader: what it read, the event under way, its yield
  ts         \* the TypeScript reader: what it read, its buffer, its yield

vars == <<sent, eol, arrived, stream, py, ts>>

-----------------------------------------------------------------------------
\* The elements of s at the places I, in their order.
Kept(s, I) ==
  LET kept[i \in 0 .. Len(s)] ==
        IF i = 0 THEN <<>> ELSE IF i \in I THEN Append(kept[i - 1], s[i]) ELSE kept[i - 1]
  IN  kept[Len(s)]

Line(l) == <<l.field>> \o l.value \o eol
TextOf(blocks) ==
  FlattenSeq([i \in DOMAIN blocks |->
    FlattenSeq([j \in DOMAIN blocks[i] |-> Line(blocks[i][j])]) \o eol])
Text == TextOf(sent)

Event(name, id, data) == [event |-> name, id |-> id, data |-> data]

\* An event as far as its lines are known; no data, no event.
NoEvent == Event(<<"message">>, NoId, <<>>)
TakeLine(e, field, value) ==
  CASE field = "event:" -> [e EXCEPT !.event = value]
    [] field = "id:"    -> [e EXCEPT !.id = value]
    [] field = "data:"  -> [e EXCEPT !.data = Append(@, value)]
    [] OTHER            -> e
Yielded(out, e) == IF e.data = <<>> THEN out ELSE Append(out, e)

Init ==
  /\ sent \in UNION {[1 .. n -> Blocks] : n \in 1 .. MaxBlocks}
  /\ eol \in {<<"n">>, <<"r", "n">>}
  /\ arrived = 0
  /\ stream = "open"
  /\ py = [read |-> 0, event |-> NoEvent, out |-> <<>>, at |-> "reading"]
  /\ ts = [read |-> 0, buffer |-> <<>>, out |-> <<>>, at |-> "reading"]

-----------------------------------------------------------------------------
\* The server and the network.
Arrive ==
  /\ stream = "open"
  /\ arrived < Len(Text)
  /\ arrived' = arrived + 1
  /\ UNCHANGED <<sent, eol, stream, py, ts>>

End ==
  /\ stream = "open"
  /\ stream' \in {"closed", "broken"}
  /\ UNCHANGED <<sent, eol, arrived, py, ts>>

-----------------------------------------------------------------------------
\* Python: `for raw_line in r`, the line without its CR and LF.
PyUnread == SubSeq(Text, py.read + 1, arrived)
Stripped(line) ==
  LET kept == {i \in DOMAIN line : line[i] \notin {"r", "n"}}
  IN  SubSeq(line, 1, IF kept = {} THEN 0 ELSE Max(kept))
\* Mutant: the event under way is not forgotten at the blank line.
PyTake_NoReset(raw) ==
  LET line == Stripped(raw)
  IN  /\ py' = IF line = <<>>
               THEN [py EXCEPT !.read = @ + Len(raw),
                               !.out = Yielded(@, py.event)]
               ELSE [py EXCEPT !.read = @ + Len(raw),
                               !.event = TakeLine(@, Head(line), Tail(line))]
      /\ UNCHANGED <<sent, eol, arrived, stream, ts>>

PyTake(raw) ==
  LET line == Stripped(raw)
  IN  /\ py' = IF line = <<>>
               THEN [py EXCEPT !.read = @ + Len(raw), !.event = NoEvent,
                               !.out = Yielded(@, py.event)]
               ELSE [py EXCEPT !.read = @ + Len(raw),
                               !.event = TakeLine(@, Head(line), Tail(line))]
      /\ UNCHANGED <<sent, eol, arrived, stream, ts>>

PyLine ==
  /\ py.at = "reading"
  /\ Contains(PyUnread, "n")
  /\ PyTake(SubSeq(PyUnread, 1, SelectInSeq(PyUnread, LAMBDA c : c = "n")))

\* A closed stream shows its last line without an LF.
PyLastLine ==
  /\ py.at = "reading"
  /\ stream = "closed"
  /\ PyUnread # <<>>
  /\ ~Contains(PyUnread, "n")
  /\ PyTake(PyUnread)

PyEnd ==
  /\ py.at = "reading"
  /\ stream = "closed"
  /\ PyUnread = <<>>
  /\ py' = [py EXCEPT !.out = Yielded(@, py.event), !.at = "ended"]
  /\ UNCHANGED <<sent, eol, arrived, stream, ts>>

PyRaise ==
  /\ py.at = "reading"
  /\ stream = "broken"
  /\ py' = [py EXCEPT !.at = "raised"]
  /\ UNCHANGED <<sent, eol, arrived, stream, ts>>

-----------------------------------------------------------------------------
\* TypeScript: parseSseBlock, which replaces CR LF by LF and splits.
WithoutCR(t) == Kept(t, {i \in DOMAIN t : t[i] # "r" \/ i = Len(t) \/ t[i + 1] # "n"})
\* Mutant: the line behind the last LF is lost.
Split_DropsLast(t) ==
  LET lines[i \in 0 .. Len(t)] ==
        IF i = 0 THEN <<<<>>>>
        ELSE IF t[i] = "n" THEN Append(lines[i - 1], <<>>)
        ELSE Append(Front(lines[i - 1]), Append(Last(lines[i - 1]), t[i]))
  IN  Front(lines[Len(t)])
Split(t) ==
  LET lines[i \in 0 .. Len(t)] ==
        IF i = 0 THEN <<<<>>>>
        ELSE IF t[i] = "n" THEN Append(lines[i - 1], <<>>)
        ELSE Append(Front(lines[i - 1]), Append(Last(lines[i - 1]), t[i]))
  IN  lines[Len(t)]
TakeUnlessBlank(e, line) ==
  IF line = <<>> THEN e ELSE TakeLine(e, Head(line), Tail(line))
EventOf(lines) ==
  LET after[i \in 0 .. Len(lines)] ==
        IF i = 0 THEN NoEvent ELSE TakeUnlessBlank(after[i - 1], lines[i])
  IN  after[Len(lines)]
parseSseBlock(block) == EventOf(Split(WithoutCR(block)))

\* Mutant: a boundary at the end of the buffer is not seen.
Boundaries_NotLast ==
  {i \in 1 .. Len(ts.buffer) - 2 : ts.buffer[i] = "n" /\ ts.buffer[i + 1] = "n"}
Boundaries == {i \in 1 .. Len(ts.buffer) - 1 : ts.buffer[i] = "n" /\ ts.buffer[i + 1] = "n"}

\* The buffer's next block, while it has one.
TsBlock ==
  /\ ts.at = "reading"
  /\ Boundaries # {}
  /\ LET i == CHOOSE b \in Boundaries : \A c \in Boundaries : b <= c
     IN  ts' = [ts EXCEPT !.buffer = SubSeq(@, i + 2, Len(@)),
                          !.out = Yielded(@, parseSseBlock(SubSeq(ts.buffer, 1, i - 1)))]
  /\ UNCHANGED <<sent, eol, arrived, stream, py>>

\* reader.read(): a chunk of any size.
\* Mutant: the chunk replaces what was left in the buffer.
TsRead_Replaces ==
  /\ ts.at = "reading"
  /\ Boundaries = {}
  /\ \E n \in ts.read + 1 .. arrived :
       ts' = [ts EXCEPT !.read = n, !.buffer = SubSeq(Text, ts.read + 1, n)]
  /\ UNCHANGED <<sent, eol, arrived, stream, py>>
TsRead ==
  /\ ts.at = "reading"
  /\ Boundaries = {}
  /\ \E n \in ts.read + 1 .. arrived :
       ts' = [ts EXCEPT !.read = n, !.buffer = @ \o SubSeq(Text, ts.read + 1, n)]
  /\ UNCHANGED <<sent, eol, arrived, stream, py>>

\* Mutant: the rest of the buffer is dropped.
TsEnd_DropsRest ==
  /\ ts.at = "reading"
  /\ Boundaries = {}
  /\ stream = "closed"
  /\ ts.read = arrived
  /\ ts' = [ts EXCEPT !.at = "ended"]
  /\ UNCHANGED <<sent, eol, arrived, stream, py>>
TsEnd ==
  /\ ts.at = "reading"
  /\ Boundaries = {}
  /\ stream = "closed"
  /\ ts.read = arrived
  /\ ts' = [ts EXCEPT !.out = Yielded(@, parseSseBlock(ts.buffer)), !.at = "ended"]
  /\ UNCHANGED <<sent, eol, arrived, stream, py>>

\* A read fails; the timer aborts the whole watch, however alive the stream.
TsRaise ==
  /\ ts.at = "reading"
  /\ Boundaries = {}
  /\ ts' = [ts EXCEPT !.at = "raised"]
  /\ UNCHANGED <<sent, eol, arrived, stream, py>>

Next ==
  \/ Arrive \/ End
  \/ PyLine \/ PyLastLine \/ PyEnd \/ PyRaise
  \/ TsRead \/ TsBlock \/ TsEnd \/ TsRaise

Spec == Init /\ [][Next]_vars

-----------------------------------------------------------------------------
\* What a block says, and the events among the first n blocks: those with data.
Values(b, f) ==
  LET lines == Kept(b, {i \in DOMAIN b : b[i].field = f})
  IN  [i \in DOMAIN lines |-> lines[i].value]
LastOr(s, default) == IF s = <<>> THEN default ELSE Last(s)
Said(b) == Event(LastOr(Values(b, "event:"), <<"message">>),
                 LastOr(Values(b, "id:"), NoId), Values(b, "data:"))
Events(n) ==
  LET said == [i \in 1 .. n |-> Said(sent[i])]
  IN  Kept(said, {i \in 1 .. n : said[i].data # <<>>})

\* What can be left of block b when its text is cut off: its first lines, the
\* last of them up to some token of its value.
CutOff(b, j, p) == Append(SubSeq(b, 1, j - 1), [b[j] EXCEPT !.value = SubSeq(@, 1, p)])
CutOffs(b) == UNION {{CutOff(b, j, p) : p \in 0 .. Len(b[j].value)} : j \in DOMAIN b}

Faithful(reader) ==
  \/ IsPrefix(reader.out, Events(Len(sent)))
  \/ /\ reader.at = "ended"
     /\ \E k \in 0 .. Len(sent) - 1 : \E c \in CutOffs(sent[k + 1]) :
          reader.out = Append(Events(k), Said(c))

\* However the text is cut into chunks and wherever it ends, what a reader
\* yields are the events that were sent, in order, whole and once; only a stream
\* that closes within an event gives the part of it as a last one, and one that
\* breaks or times out never does (fiducia.py:246-265, fiducia.ts:597-616).  In
\* TypeScript this is so of streams with LF line ends.
EventsAsSent == Faithful(py) /\ (eol = <<"n">> => Faithful(ts))

\* Nothing waits for later text: a reader that has read what is there has
\* yielded each event whose blank line is there (fiducia.py:246, fiducia.ts:604).
Prompt ==
  \A n \in 0 .. Len(sent) :
    Len(TextOf(SubSeq(sent, 1, n))) <= arrived =>
      /\ py.at = "reading" /\ ~Contains(PyUnread, "n")
         => IsPrefix(Events(n), py.out)
      /\ eol = <<"n">> /\ ts.at = "reading" /\ ts.read = arrived /\ Boundaries = {}
         => IsPrefix(Events(n), ts.out)

\* Both clients make the same events of a stream they read to its end.
ClientsAgree ==
  eol = <<"n">> /\ py.at = "ended" /\ ts.at = "ended" => py.out = ts.out

\* With CR LF line ends, which parseSseBlock accepts, TypeScript finds no
\* boundary: the whole stream comes as one event, when it ends, with the data of
\* all its blocks (fiducia.ts:604, 1183).
CrLfComesAsOne ==
  eol = <<"r", "n">> =>
    /\ Len(ts.out) <= 1
    /\ ts.at # "ended" => ts.out = <<>>
    /\ ts.at = "ended" /\ py.at = "ended" =>
         Len(FlattenSeq([i \in DOMAIN ts.out |-> ts.out[i].data]))
           = Len(FlattenSeq([i \in DOMAIN py.out |-> py.out[i].data]))
=============================================================================
