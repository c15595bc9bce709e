----------------------------- MODULE SourceLocs -----------------------------
(***************************************************************************)
(* SourceLocManager (smbase/srcloc.cc).  A location is the number of a     *)
(* character in the files put one after another, in the order they were    *)
(* first asked about; locations up to 0 index a list of static ones.  The  *)
(* file that was used last is tried first.  An action is one call; what    *)
(* the call returns is its 'answer'.                                       *)
(***************************************************************************)
EXTENDS SourceFile

VARIABLES
  disk, useHashLines,
  files,              \* the files known
  recent,             \* one of them, or 0
  statics, nextLoc, nextStaticLoc

filesVars == <<files, recent, nextLoc>>
vars == <<disk, useHashLines, filesVars, statics, nextStaticLoc>>

(* The constructor makes two static locations.                             *)
Init ==
  /\ disk \in Disks /\ useHashLines \in BOOLEAN
  /\ files = << >> /\ recent = 0
  /\ statics = <<NoLoc, InitLoc>>
  /\ nextLoc = 1 /\ nextStaticLoc = -2

-----------------------------------------------------------------------------
\* Variant of FindFile: the list is not searched.
FindFile_CacheOnly(fs, last, name) ==
  IF last # 0 /\ fs[last].name = name THEN last ELSE 0

(* findFile: the number of a file, 0 if it is not known.                   *)
FindFile(fs, last, name) ==
  IF last # 0 /\ fs[last].name = name THEN last
  ELSE IF \E i \in DOMAIN fs : fs[i].name = name
  THEN CHOOSE i \in DOMAIN fs : fs[i].name = name
  ELSE 0

\* Variant of FollowingLoc: a file does not own the position after its end.
FollowingLoc_NoEnd(f) == f.start + f.numChars

FollowingLoc(f) == f.start + f.numChars + 1

(* getFile: the files after it and the number of the one asked for.        *)
GetFile(fs, last, name) ==
  LET at == FindFile(fs, last, name)
      new == NewFile(name, disk.text[name], nextLoc)
  IN  IF at # 0 THEN [files |-> fs, at |-> at, next |-> nextLoc]
      ELSE [files |-> Append(fs, new), at |-> Len(fs) + 1, next |-> FollowingLoc(new)]

MoveMarker(fs, at, m) == [fs EXCEPT ![at].marker = m]

Returned(fs, last, next, answer) ==
  [files |-> fs, recent |-> last, nextLoc |-> next, answer |-> answer]

EncodeOffset(name, offset) ==
  LET g == GetFile(files, recent, name) IN
    Returned(g.files, g.at, g.next, [loc |-> g.files[g.at].start + offset])

EncodeLineCol(name, line, col) ==
  LET g == GetFile(files, recent, name)
      f == g.files[g.at]
      to == LineColToChar(f, line, col)
  IN  Returned(MoveMarker(g.files, g.at, to.marker), g.at, g.next,
               [loc |-> f.start + to.offset, truncated |-> to.truncated])

FindFileWithLoc(loc) ==
  IF recent # 0 /\ HasLoc(files[recent], loc) THEN recent
  ELSE CHOOSE i \in DOMAIN files : HasLoc(files[i], loc)

UsesHashLines(f) == useHashLines /\ f.hash # << >>

DecodeLineCol(loc) ==
  LET at == FindFileWithLoc(loc)
      f == files[at]
      from == CharToLineCol(f, loc - f.start)
      to == IF UsesHashLines(f) THEN MapLine(f, from.line)
            ELSE [name |-> f.name, line |-> from.line]
  IN  Returned(MoveMarker(files, at, from.marker), at, nextLoc,
               [name |-> to.name, line |-> to.line, col |-> from.col])

(* An offset goes through the #line map as a line and column.  The file    *)
(* that the directive names is looked for, and read if it is new.  That it *)
(* is there is an error of getFile, that it has the line an assertion of   *)
(* lineToChar.                                                             *)
MappedLine(loc) ==
  LET f == files[FindFileWithLoc(loc)] IN
    MapLine(f, CharToLineCol(f, loc - f.start).line)
Decodable(loc) ==
  UsesHashLines(files[FindFileWithLoc(loc)]) =>
    LET to == MappedLine(loc) IN
      /\ to.name \in Names
      /\ to.line \in 1..(1 + Cardinality(disk.text[to.name].newlines))

DecodeOffset(loc) ==
  LET at == FindFileWithLoc(loc)
      f == files[at]
      from == CharToLineCol(f, loc - f.start)
      to == MapLine(f, from.line)
      g == GetFile(MoveMarker(files, at, from.marker), at, to.name)
      there == LineColToChar(g.files[g.at], to.line, from.col)
  IN  IF UsesHashLines(f)
      THEN Returned(MoveMarker(g.files, g.at, there.marker), g.at, g.next,
                    [name |-> to.name, offset |-> there.offset,
                     truncated |-> there.truncated])
      ELSE Returned(files, at, nextLoc,
                    [name |-> f.name, offset |-> loc - f.start, truncated |-> FALSE])

-----------------------------------------------------------------------------
Offsets(name) == 0..disk.text[name].size
NumLinesOf(name) == Cardinality(disk.text[name].newlines)
LineCols(name) == (1..(NumLinesOf(name) + 1)) \X (1..MaxCol)
KnownLocs == 1..(nextLoc - 1)

(* A location is that of a character or of one of the two ends of its file.*)
WasEncoded(loc) ==
  LET f == files[FindFileWithLoc(loc)] IN
    loc - f.start \in Offsets(f.name) \cup {f.numChars}

Call(result) ==
  /\ files' = result.files /\ recent' = result.recent /\ nextLoc' = result.nextLoc
  /\ UNCHANGED <<disk, useHashLines, statics, nextStaticLoc>>

(* The lexer has come to the next directive of the file.                   *)
AddHashLine(name) ==
  LET g == GetFile(files, recent, name)
      n == Len(g.files[g.at].hash) + 1
  IN  /\ n \in DOMAIN disk.directives[name]
      /\ files' = [g.files EXCEPT ![g.at].hash = Append(@, disk.directives[name][n])]
      /\ recent' = g.at /\ nextLoc' = g.next
      /\ UNCHANGED <<disk, useHashLines, statics, nextStaticLoc>>

\* Variant of BelowStatic: static locations go up.
BelowStatic_Above(loc) == loc + 1

BelowStatic(loc) == loc - 1

EncodeStatic(s) ==
  /\ Len(statics) < MaxStatics
  /\ statics' = Append(statics, s)
  /\ nextStaticLoc' = BelowStatic(nextStaticLoc)
  /\ UNCHANGED <<disk, useHashLines, filesVars>>

Next ==
  \/ \E name \in Names :
       \/ \E offset \in Offsets(name) : Call(EncodeOffset(name, offset))
       \/ \E at \in LineCols(name) : Call(EncodeLineCol(name, at[1], at[2]))
       \/ AddHashLine(name)
  \/ \E s \in StaticLoc : EncodeStatic(s)
  \/ \E loc \in KnownLocs :
       /\ WasEncoded(loc)
       /\ Call(DecodeLineCol(loc)) \/ (Decodable(loc) /\ Call(DecodeOffset(loc)))

Spec == Init /\ [][Next]_vars

-----------------------------------------------------------------------------
(* Every variable holds a value of its type.                               *)
TypeOK ==
  /\ disk \in Disks /\ useHashLines \in BOOLEAN
  /\ recent \in 0..Len(files) /\ nextLoc \in Nat \ {0}
  /\ \A i \in DOMAIN files : files[i].name \in Names /\ files[i].hash \in Seq(Directive)
  /\ statics \in Seq(StaticLoc) /\ nextStaticLoc = - Len(statics)

(* No location is in two files, and every one that was given out is in one:*)
(* also the empty file and the end of a file have one of their own.        *)
FilesApart ==
  /\ \A i, j \in DOMAIN files :
       i < j => files[i].start + files[i].numChars < files[j].start
  /\ \A i \in DOMAIN files : files[i].start + files[i].numChars < nextLoc
  /\ \A loc \in KnownLocs : \E i \in DOMAIN files : HasLoc(files[i], loc)

(* A file is known once, whether the cache or the list has found it.       *)
FilesDistinct ==
  \A i, j \in DOMAIN files : files[i].name = files[j].name => i = j

(* Wherever searches have left the marker, it is before an entry and names *)
(* the line and the column of the character there.                         *)
MarkersTrue ==
  \A i \in DOMAIN files :
    LET m == files[i].marker
        text == disk.text[files[i].name]
    IN  /\ m.array < Len(files[i].lengths)
        /\ m.line = 1 + Cardinality({p \in text.newlines : p < m.char})
        /\ m.char = Start(text, m.line) + m.col - 1

(* The specification without caches.                                       *)
Locs == INSTANCE Locations WITH
  opened <- [i \in DOMAIN files |-> [name |-> files[i].name, start |-> files[i].start]],
  hash <- [n \in Names |->
             IF \E i \in DOMAIN files : files[i].name = n
             THEN files[CHOOSE i \in DOMAIN files : files[i].name = n].hash
             ELSE << >>]
ImplementsLocations == Locs!Spec

(* Whatever was asked before, a line and column get the location that they *)
(* have in the file; a column beyond the line gets the end of the line, and*)
(* only then the answer is marked.                                         *)
EncodingExact ==
  \A name \in Names :
    LET text == disk.text[name] IN
      /\ \A offset \in Offsets(name) :
           EncodeOffset(name, offset).answer.loc = Locs!EncodedAt(name, offset)
      /\ \A at \in LineCols(name) :
           Locs!LinePromised(text, at[1], at[2]) =>
             EncodeLineCol(name, at[1], at[2]).answer =
               [loc |-> Locs!EncodedAt(name, Locs!OffsetOf(text, at[1], at[2])),
                truncated |-> Locs!IsTruncated(text, at[1], at[2])]

(* Whatever was asked before, a location gets the line and column it has in*)
(* its file, or in the file that the last directive before it names.       *)
DecodingExact ==
  \A loc \in KnownLocs :
    LET f == Locs!FileAt(loc)
        text == disk.text[f.name]
        to == Locs!LineColAt(f.name, loc - f.start)
        orig == disk.text[to.name]
    IN  Locs!OffsetPromised(text, loc - f.start) =>
          /\ DecodeLineCol(loc).answer = to
          /\ Decodable(loc) /\ Locs!LinePromised(orig, to.line, to.col) =>
               DecodeOffset(loc).answer =
                 IF UsesHashLines(files[FindFileWithLoc(loc)])
                 THEN [name |-> to.name,
                       offset |-> Locs!OffsetOf(orig, to.line, to.col),
                       truncated |-> Locs!IsTruncated(orig, to.line, to.col)]
                 ELSE [name |-> f.name, offset |-> loc - f.start, truncated |-> FALSE]

(* "given a location, decode it into line/col and then re-encode, and check*)
(* that the new encoding matches the old": whatever was asked before, of   *)
(* every location of every file.                                           *)
RoundTrip ==
  \A i \in DOMAIN files : \A offset \in Offsets(files[i].name) :
    LET to == CharToLineCol(files[i], offset) IN
      LineColToChar(MoveMarker(files, i, to.marker)[i], to.line, to.col).offset = offset
=============================================================================
