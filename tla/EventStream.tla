---------------------------- MODULE EventStream ----------------------------
(***************************************************************************)
(* The decoder of the control plane's event stream                         *)
(* (ServerSentEventDecoder in edge/src/sse.ts) and the loop that feeds it  *)
(* (#consumeEventStream in edge/src/config-sync.ts).  The network cuts the *)
(* stream into chunks wherever it likes, in the middle of a field or       *)
(* between the two characters of one line ending.                          *)
(*                                                                         *)
(* The text is a sequence of tokens: the two line ending characters, the   *)
(* colon (with the space that may follow it), and words.  A name or a      *)
(* value is a sequence of tokens, so that a chunk may end inside it.       *)
(* TextDecoder, which keeps split characters together, is external.        *)
(***************************************************************************)
EXTENDS Integers, Sequences, FiniteSetsExt

CONSTANT Streams   \* the texts a connection may carry

CR == "cr"
LF == "lf"
Colon == ":"

ASSUME StreamsAssumption == \A s \in Streams : s \in Seq(STRING)

VARIABLES
  input,      \* the text of this connection
  read,       \* how much of it reader.read() has returned
  open,       \* the connection is being read
  decoding,   \* push() is running
  buffer,     \* #buffer
  eventType,  \* #eventType
  dataLines,  \* #dataLines
  events      \* history: what push() has returned, in order

decoderVars == <<buffer, eventType, dataLines>>
vars == <<input, read, open, decoding, decoderVars, events>>

TypeOK ==
  /\ input \in Streams
  /\ read \in 0 .. Len(input)
  /\ open \in BOOLEAN
  /\ decoding \in BOOLEAN
  /\ buffer \in Seq(STRING)
  /\ eventType \in Seq(STRING)
  /\ dataLines \in Seq(Seq(STRING))
  /\ events \in Seq([event : Seq(STRING), data : Seq(Seq(STRING))])

Init ==
  /\ input \in Streams
  /\ read = 0
  /\ open = TRUE
  /\ decoding = FALSE
  /\ buffer = <<>>
  /\ eventType = <<>>
  /\ dataLines = <<>>
  /\ events = <<>>

-----------------------------------------------------------------------------
(* Fields of a line, as #processLine splits it                             *)

HasColon(line) == \E i \in DOMAIN line : line[i] = Colon

ColonIndex(line) ==
  CHOOSE i \in DOMAIN line : line[i] = Colon /\ \A j \in 1 .. i - 1 : line[j] # Colon

Field(line) == IF HasColon(line) THEN SubSeq(line, 1, ColonIndex(line) - 1) ELSE line

Value(line) ==
  IF HasColon(line) THEN SubSeq(line, ColonIndex(line) + 1, Len(line)) ELSE <<>>

-----------------------------------------------------------------------------
(* push()                                                                  *)

NoEnding == [index |-> 0, length |-> 0]

EndingCharacters(value) == {i \in DOMAIN value : value[i] \in {CR, LF}}

FirstOf(positions) == CHOOSE i \in positions : \A j \in positions : i <= j

\* Mutant: a carriage return at the end of the buffer ends the line.
FindLineEndingAtOnce(value) ==
  IF EndingCharacters(value) = {} THEN NoEnding
  ELSE LET i == FirstOf(EndingCharacters(value))
           pair == i < Len(value) /\ value[i] = CR /\ value[i + 1] = LF
       IN [index |-> i, length |-> IF pair THEN 2 ELSE 1]

\* findLineEnding: a carriage return that is the last character so far may be
\* the first half of a pair and ends nothing yet.
FindLineEnding(value) ==
  IF EndingCharacters(value) = {} THEN NoEnding
  ELSE LET i == FirstOf(EndingCharacters(value))
           pair == i < Len(value) /\ value[i] = CR /\ value[i + 1] = LF
       IN IF value[i] = CR /\ i = Len(value) THEN NoEnding
          ELSE [index |-> i, length |-> IF pair THEN 2 ELSE 1]

\* #dispatch: an event without data is dropped, and its type with it.
Dispatch ==
  /\ events' = IF dataLines = <<>> THEN events
               ELSE Append(events,
                      [event |-> IF eventType = <<>> THEN <<"message">> ELSE eventType,
                       data |-> dataLines])
  /\ eventType' = <<>>
  /\ dataLines' = <<>>

\* The other lines of #processLine: the fields it knows; comments and unknown
\* fields are ignored.
TakeField(line) ==
  /\ eventType' = IF Field(line) = <<"event">> THEN Value(line) ELSE eventType
  /\ dataLines' = IF Field(line) = <<"data">> THEN Append(dataLines, Value(line))
                  ELSE dataLines
  /\ UNCHANGED events

\* One turn of push()'s loop: a complete line leaves the buffer.
DecodeLine ==
  /\ decoding
  /\ FindLineEnding(buffer) # NoEnding
  /\ LET ending == FindLineEnding(buffer)
         line == SubSeq(buffer, 1, ending.index - 1)
     IN /\ buffer' = SubSeq(buffer, ending.index + ending.length, Len(buffer))
        /\ IF line = <<>> THEN Dispatch ELSE TakeField(line)
  /\ UNCHANGED <<input, read, open, decoding>>

PushReturns ==
  /\ decoding
  /\ FindLineEnding(buffer) = NoEnding
  /\ decoding' = FALSE
  /\ UNCHANGED <<input, read, open, decoderVars, events>>

-----------------------------------------------------------------------------
(* #consumeEventStream                                                     *)

\* reader.read() returns the next n tokens, and push() starts.
ReadChunk(n) ==
  /\ open
  /\ ~decoding
  /\ read + n <= Len(input)
  /\ buffer' = buffer \o SubSeq(input, read + 1, read + n)
  /\ read' = read + n
  /\ decoding' = TRUE
  /\ UNCHANGED <<input, open, eventType, dataLines, events>>

\* The stream ends, breaks or is aborted: finish() drops the incomplete event.
Finish ==
  /\ open
  /\ ~decoding
  /\ open' = FALSE
  /\ buffer' = <<>>
  /\ eventType' = <<>>
  /\ dataLines' = <<>>
  /\ UNCHANGED <<input, read, decoding, events>>

Next ==
  \/ \E n \in 1 .. Len(input) : ReadChunk(n)
  \/ DecodeLine
  \/ PushReturns
  \/ Finish

Spec == Init /\ [][Next]_vars

-----------------------------------------------------------------------------
(* What a text means, however it arrives                                   *)

\* A line ends in CR LF, LF or CR; a CR that nothing follows may still become
\* either of two endings.  Each ending is known by its last character.
LineEnds(text) ==
  {i \in DOMAIN text :
     text[i] = LF \/ (text[i] = CR /\ i < Len(text) /\ text[i + 1] # LF)}

\* The line that ends at position e, without its ending.
LineAt(text, e) ==
  LET begin == Max({0} \cup {i \in LineEnds(text) : i < e}) + 1
      isPair == text[e] = LF /\ begin < e /\ text[e - 1] = CR
  IN SubSeq(text, begin, IF isPair THEN e - 2 ELSE e - 1)

\* The complete lines of a text, each at the position it ends at.
Lines(text) == [e \in LineEnds(text) |-> LineAt(text, e)]

TheOnly(S) == CHOOSE x \in S : TRUE

\* The elements of a set of numbers in their order: the k-th has k of them up
\* to itself.
Ordered(S) ==
  [k \in 1 .. Cardinality(S) |->
     TheOnly({x \in S : Cardinality({y \in S : y <= x}) = k})]

\* The lines of the block that position e ends: those since the blank line
\* before it.
Block(lines, e) ==
  {f \in DOMAIN lines :
     f < e /\ \A g \in DOMAIN lines : f <= g /\ g < e => lines[g] # <<>>}

FieldsOf(lines, e, name) == {f \in Block(lines, e) : Field(lines[f]) = name}

\* The data of a block: the values of all its data lines, in order.
Data(lines, e) ==
  LET ends == Ordered(FieldsOf(lines, e, <<"data">>))
  IN [k \in DOMAIN ends |-> Value(lines[ends[k]])]

\* The type of a block: the value of its last type line.
Type(lines, e) ==
  LET ends == FieldsOf(lines, e, <<"event">>)
  IN IF ends = {} THEN <<>> ELSE Value(lines[Max(ends)])

EventAt(lines, e) ==
  [event |-> IF Type(lines, e) = <<>> THEN <<"message">> ELSE Type(lines, e),
   data |-> Data(lines, e)]

\* The blank lines that end a block with data.
Delivering(lines) ==
  {e \in DOMAIN lines : lines[e] = <<>> /\ FieldsOf(lines, e, <<"data">>) # {}}

EventsOf(lines) ==
  LET ends == Ordered(Delivering(lines))
  IN [k \in DOMAIN ends |-> EventAt(lines, ends[k])]

\* The events of a text: one for every block that a blank line closes and that
\* has data.
Decode(text) == EventsOf(Lines(text))

-----------------------------------------------------------------------------
(* Properties                                                              *)

\* Whenever push() has returned, the edge has been given exactly the events of
\* the text received so far, in order: where the chunks were cut neither loses,
\* duplicates, merges nor delays an announcement, and an event that is cut off
\* with its connection is never delivered.
DecodedAsWhole == ~decoding => events = Decode(SubSeq(input, 1, read))

=============================================================================
