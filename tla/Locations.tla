----------------------------- MODULE Locations -----------------------------
(***************************************************************************)
(* What a source location promises (smbase/srcloc.h): a number that stands *)
(* for a place in a file, and that can be turned into a name and a line    *)
(* and column, or a name and an offset, at any time and in any order.  A   *)
(* file that has #line directives answers with the places they name.       *)
(*                                                                         *)
(* Nothing is indexed or cached here: SourceLocs does that.  The last line *)
(* of a file can be asked for by line and column only if it is empty.      *)
(***************************************************************************)
EXTENDS SourceText

VARIABLES
  disk,               \* the files there are, and the directives in them
  useHashLines,
  opened,             \* the files located so far, with their first location
  hash,               \* the directives noted so far, of each file
  statics

vars == <<disk, useHashLines, opened, hash, statics>>

-----------------------------------------------------------------------------
NumLines(text) == Cardinality(text.newlines)
LineAt(text, offset) == 1 + Cardinality({p \in text.newlines : p < offset})
LineStart(text, line) ==
  CHOOSE p \in {0} \cup {q + 1 : q \in text.newlines} : LineAt(text, p) = line
ColAt(text, offset) == 1 + offset - LineStart(text, LineAt(text, offset))
LineEnd(text, line) ==
  IF line > NumLines(text) THEN text.size ELSE LineStart(text, line + 1) - 1

(* A column beyond the end of the line stands for the end.                 *)
IsTruncated(text, line, col) ==
  LineStart(text, line) + col - 1 > LineEnd(text, line)
OffsetOf(text, line, col) ==
  IF IsTruncated(text, line, col) THEN LineEnd(text, line)
  ELSE LineStart(text, line) + col - 1

(* The places that answers are promised for.                               *)
OffsetPromised(text, offset) == offset \in 0..text.size
LinePromised(text, line, col) ==
  line > NumLines(text) => LastLine(text) = {} /\ col = 1

(* The line after a directive is the one it names.                         *)
Mapped(name, line, directives) ==
  LET before == {i \in DOMAIN directives : directives[i].ppLine <= line} IN
    IF before = {} THEN [name |-> name, line |-> line]
    ELSE LET d == directives[Cardinality(before)] IN
           [name |-> d.origName, line |-> d.origLine + line - d.ppLine - 1]

-----------------------------------------------------------------------------
TextOf(name) == disk.text[name]

(* A file has a location for each character and one for its end; those of  *)
(* its last line are counted twice.                                        *)
Extent(text) == text.size + Cardinality(LastLine(text))
Following(table) ==
  IF table = << >> THEN 1
  ELSE LET last == table[Len(table)] IN last.start + Extent(TextOf(last.name)) + 1
Opened(table, name) ==
  IF \E i \in DOMAIN table : table[i].name = name THEN table
  ELSE Append(table, [name |-> name, start |-> Following(table)])

(* The file that a location is in, and what is promised of the location.   *)
FileAt(loc) ==
  opened[CHOOSE i \in DOMAIN opened :
           opened[i].start <= loc /\ loc <= opened[i].start + Extent(TextOf(opened[i].name))]

EncodedAt(name, offset) ==
  LET table == Opened(opened, name) IN
    table[CHOOSE i \in DOMAIN table : table[i].name = name].start + offset

DirectivesOf(name) == IF useHashLines THEN hash[name] ELSE << >>
LineColAt(name, offset) ==
  LET to == Mapped(name, LineAt(TextOf(name), offset), DirectivesOf(name)) IN
    [name |-> to.name, line |-> to.line, col |-> ColAt(TextOf(name), offset)]

-----------------------------------------------------------------------------
Init ==
  /\ disk \in Disks /\ useHashLines \in BOOLEAN
  /\ opened = << >>
  /\ hash = [n \in Names |-> << >>]
  /\ statics = <<NoLoc, InitLoc>>

(* Any question can be the first about a file, or a directive name it.     *)
Open(name) ==
  /\ opened' = Opened(opened, name)
  /\ UNCHANGED <<disk, useHashLines, hash, statics>>

AddHashLine(name) ==
  LET n == Len(hash[name]) + 1 IN
    /\ n \in DOMAIN disk.directives[name]
    /\ opened' = Opened(opened, name)
    /\ hash' = [hash EXCEPT ![name] = Append(@, disk.directives[name][n])]
    /\ UNCHANGED <<disk, useHashLines, statics>>

EncodeStatic(s) ==
  /\ statics' = Append(statics, s)
  /\ UNCHANGED <<disk, useHashLines, opened, hash>>

Next ==
  \/ \E name \in Names : Open(name) \/ AddHashLine(name)
  \/ \E s \in StaticLoc : EncodeStatic(s)

Spec == Init /\ [][Next]_vars
=============================================================================
