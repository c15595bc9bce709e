---------------------------- MODULE MCSourceLocs ----------------------------
(***************************************************************************)
(* Small files for SourceLocs: a long line is 3 characters or more, and the*)
(* index has a marker for every second line.                               *)
(***************************************************************************)
EXTENDS SourceLocs

\* A text with lines of these lengths; the last one has no newline.
Lines(lengths) ==
  LET end(i) == FoldLeft(LAMBDA a, b : a + b, i - 1, SubSeq(lengths, 1, i)) IN
    [size |-> end(Len(lengths)), newlines |-> {end(i) : i \in 1..(Len(lengths) - 1)}]

Line(ppLine, origLine, origName) ==
  [ppLine |-> ppLine, origLine |-> origLine, origName |-> origName]

\* a.i comes from a.cc and from itself; an empty line before the end.
Source == Lines(<<1, 6, 0, 2, 0>>)
Preprocessed == Lines(<<2, 1, 5, 1, 3, 0>>)
Unterminated == Lines(<<3, 1, 4>>)

MCNames == {"a.cc", "a.i"}
Disk(a, i, directives) ==
  [text |-> [n \in MCNames |-> IF n = "a.cc" THEN a ELSE i],
   directives |-> [n \in MCNames |-> IF n = "a.i" THEN directives ELSE << >>]]
MCDisks ==
  {Disk(Source, Preprocessed, <<Line(2, 2, "a.cc"), Line(4, 5, "a.i")>>),
   Disk(Unterminated, Lines(<<0>>), << >>)}

Static(line) == [name |-> "static", offset |-> 0, line |-> line, col |-> 1]
MCStaticLoc == {Static(1), Static(2)}
MCNoLoc == Static(1)
MCInitLoc == Static(1)
=============================================================================
