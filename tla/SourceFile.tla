----------------------------- MODULE SourceFile -----------------------------
(***************************************************************************)
(* SourceLocManager::File (smbase/srcloc.cc) and HashLineMap               *)
(* (smbase/hashline.cc).  A file is an array of line lengths, in which a   *)
(* long line takes several entries, an index of markers into it, and a     *)
(* marker that stays where the last search has left it.                    *)
(***************************************************************************)
EXTENDS SourceText, SequencesExt

CONSTANTS
  LongLine,           \* the entry for a part of a long line: 255
  MarkerPeriod        \* lines from one marker of the index to the next: 100

ASSUME SourceFileAssumption == LongLine \in Nat \ {0, 1} /\ MarkerPeriod \in Nat \ {0}

(* A marker is before entry 'array', in column 'col' of line 'line'.       *)
Marker(char, line, array, col) ==
  [char |-> char, line |-> line, array |-> array, col |-> col]

\* Variant of LineLength: a part stands for as many characters as its entry
\* says.
LineLength_Whole(len) ==
  [i \in 1..(len \div LongLine) |-> LongLine] \o <<len % LongLine>>

(* addLineLength: a part stands for one character less than its entry, so  *)
(* that something is left for the last entry.                              *)
LineLength(len) ==
  LET parts == IF len < LongLine THEN 0 ELSE (len - 1) \div (LongLine - 1) IN
    [i \in 1..parts |-> LongLine] \o <<len - parts * (LongLine - 1)>>

\* Line i of a text starts after newline i - 1.
Newlines(text) ==
  [i \in 1..Cardinality(text.newlines) |->
     CHOOSE p \in text.newlines : Cardinality({q \in text.newlines : q < p}) = i - 1]
Start(text, line) == IF line = 1 THEN 0 ELSE Newlines(text)[line - 1] + 1
Length(text, line) ==
  (IF line <= Cardinality(text.newlines) THEN Newlines(text)[line] ELSE text.size)
    - Start(text, line)

LengthsUpTo(text, line) ==
  LET upTo[i \in 0..line] ==
        IF i = 0 THEN << >> ELSE upTo[i - 1] \o LineLength(Length(text, i))
  IN  upTo[line]

(* charOffset is past the last line before its length is added.            *)
NumChars(text) == text.size + Cardinality(LastLine(text))

(* File::init.  The index has a marker for the start and one for every     *)
(* MarkerPeriod lines.                                                     *)
NewFile(name, text, start) ==
  LET lines == Cardinality(text.newlines)
      at(line) == Marker(Start(text, line), line, Len(LengthsUpTo(text, line - 1)), 1)
  IN  [name |-> name, start |-> start, numChars |-> NumChars(text), numLines |-> lines,
       avg |-> IF lines = 0 THEN NumChars(text) ELSE NumChars(text) \div lines,
       lengths |-> LengthsUpTo(text, lines + 1),
       index |-> [i \in 1..(1 + lines \div MarkerPeriod) |->
                    at(1 + (i - 1) * MarkerPeriod)],
       marker |-> Marker(0, 1, 0, 1),
       hash |-> << >>]

HasLoc(f, loc) == f.start <= loc /\ loc <= f.start + f.numChars

-----------------------------------------------------------------------------
(* The last of the keys that is not above x, or the first: all the binary  *)
(* searches of the two files.  One is over after Len(keys) steps or before.*)
Halved(keys, x, range) ==
  LET mid == (range.low + range.high + 1) \div 2 IN
    IF range.low >= range.high THEN range
    ELSE IF keys[mid] > x THEN [low |-> range.low, high |-> mid - 1]
    ELSE [low |-> mid, high |-> range.high]
LastUpTo(keys, x) ==
  LET range[k \in 0..Len(keys)] ==
        IF k = 0 THEN [low |-> 1, high |-> Len(keys)] ELSE Halved(keys, x, range[k - 1])
  IN  range[Len(keys)].low

\* Variant of AdvanceMarker: the column stays as it was.
AdvanceMarker_KeepsColumn(m, len) ==
  IF len < LongLine THEN Marker(m.char + len + 1, m.line + 1, m.array + 1, m.col)
  ELSE Marker(m.char + len - 1, m.line, m.array + 1, m.col + len - 1)

AdvanceMarker(m, len) ==
  IF len < LongLine THEN Marker(m.char + len + 1, m.line + 1, m.array + 1, 1)
  ELSE Marker(m.char + len - 1, m.line, m.array + 1, m.col + len - 1)

(* The marker is moved for as long as Goes holds.                          *)
Advanced(f, m) ==
  LET after[i \in 0..(Len(f.lengths) - m.array)] ==
        IF i = 0 THEN m ELSE AdvanceMarker(after[i - 1], f.lengths[m.array + i])
  IN  after
AdvanceWhile(f, m, Goes(_)) ==
  LET last == Len(f.lengths) - m.array IN
    Advanced(f, m)[Min({i \in 0..last : i = last \/ ~ Goes(Advanced(f, m)[i])})]

\* Variant of Near: the marker may be behind.
Near_Behind(here, there, period) == there < here + period

(* Whether the marker is used as it is.                                    *)
Near(here, there, period) == here <= there /\ there < here + period

(* lineToChar moves the marker to the line, except for the end of the file.*)
MarkerForLine(f, line) ==
  IF line = f.numLines + 1 THEN f.marker
  ELSE AdvanceWhile(f,
         IF Near(f.marker.line, line, MarkerPeriod) THEN f.marker
         ELSE f.index[LastUpTo([i \in DOMAIN f.index |-> f.index[i].line], line)],
         LAMBDA m : m.line < line)

LineToChar(f, line, m) ==
  IF line = f.numLines + 1 THEN f.numChars ELSE m.char - (m.col - 1)

(* lineColToChar marches on from the marker, which stays where it is, to   *)
(* the entry that the column is in, or to the end of the line.             *)
LineColToChar(f, line, col) ==
  LET m == MarkerForLine(f, line)
      left(k) == col - m.col - (k - m.array - 1) * (LongLine - 1)
      stop == Min({k \in (m.array + 1)..Len(f.lengths) :
                     left(k) <= f.lengths[k] \/ f.lengths[k] < LongLine})
      beyond == left(stop) > f.lengths[stop]
  IN  IF col <= m.col
      THEN [marker |-> m, offset |-> LineToChar(f, line, m) + col - 1, truncated |-> FALSE]
      ELSE [marker |-> m, truncated |-> beyond,
            offset |-> m.char + (stop - m.array - 1) * (LongLine - 1)
                         + IF beyond THEN f.lengths[stop] ELSE left(stop)]

CharToLineCol(f, offset) ==
  LET m == AdvanceWhile(f,
             IF Near(f.marker.char, offset, MarkerPeriod * f.avg) THEN f.marker
             ELSE f.index[LastUpTo([i \in DOMAIN f.index |-> f.index[i].char], offset)],
             LAMBDA at : at.char + f.lengths[at.array + 1] < offset)
  IN  IF offset = f.numChars
      THEN [marker |-> f.marker, line |-> f.numLines + 1, col |-> 1]
      ELSE [marker |-> m, line |-> m.line, col |-> m.col + offset - m.char]

-----------------------------------------------------------------------------
(* HashLineMap::map.                                                       *)
MapLine(f, line) ==
  IF f.hash = << >> \/ line < f.hash[1].ppLine THEN [name |-> f.name, line |-> line]
  ELSE LET d == f.hash[LastUpTo([i \in DOMAIN f.hash |-> f.hash[i].ppLine], line)] IN
         [name |-> d.origName, line |-> d.origLine + (line - d.ppLine - 1)]
=============================================================================
