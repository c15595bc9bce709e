-------------------------- MODULE SourceLocs_proofs --------------------------
(***************************************************************************)
(* Proofs about SourceLocs: every location is in exactly one file, for all *)
(* files, and whatever their markers are; and with its cached file, its    *)
(* markers and its index SourceLocs gives the files the locations that they*)
(* have in Locations, which has none of them.  Then about what is searched *)
(* in a file: the entries of a text, the markers that are true of it, where*)
(* the loops and the binary searches stop; so that every marker stays true,*)
(* and every answer is the one that counting in the file gives.            *)
(***************************************************************************)
EXTENDS SourceLocs, Orders_proofs

(* What is needed of a file, its index and marker aside.                   *)
Fields == {"name", "start", "numChars", "numLines", "avg", "lengths", "index",
           "marker", "hash"}
IsFile(f) ==
  /\ f = [x \in Fields |-> f[x]]
  /\ f.name \in Names /\ f.start \in Nat /\ f.numChars = NumChars(disk.text[f.name])
  /\ f.numChars \in Nat
  /\ f.hash \in Seq(Directive)

IsTable(fs) ==
  /\ fs = [i \in 1..Len(fs) |-> fs[i]] /\ Len(fs) \in Nat
  /\ \A i \in 1..Len(fs) : IsFile(fs[i])

(* The inductive invariant on a list of files and the next location: a new *)
(* file starts where the last one ends.                                    *)
Partition(fs, next) ==
  /\ next \in Nat \ {0}
  /\ \A i, j \in 1..Len(fs) :
       i < j => fs[i].start + fs[i].numChars < fs[j].start
  /\ \A i \in 1..Len(fs) : fs[i].start + fs[i].numChars < next
  /\ \A loc \in 1..(next - 1) : \E i \in 1..Len(fs) : HasLoc(fs[i], loc)
Distinct(fs) == \A i, j \in 1..Len(fs) : fs[i].name = fs[j].name => i = j
TableOK(fs, next) == IsTable(fs) /\ Partition(fs, next) /\ Distinct(fs)

IInv ==
  /\ disk \in Disks /\ useHashLines \in BOOLEAN
  /\ TableOK(files, nextLoc)
  /\ recent \in 0..Len(files)
  /\ statics \in Seq(StaticLoc) /\ nextStaticLoc = - Len(statics)

-----------------------------------------------------------------------------
(* The texts of a disk have a size, and its directives their type.         *)
LEMMA DiskTypes ==
  ASSUME disk \in Disks, NEW name \in Names
  PROVE  /\ NumChars(disk.text[name]) \in Nat
         /\ disk.directives[name] \in Seq(Directive)
<1>1. disk.text[name] \in Text /\ disk.directives[name] \in Seq(Directive)
  BY DisksAssumption
<1>2. disk.text[name] \in [size : Nat, newlines : SUBSET Nat]
  BY <1>1 DEF Text
<1> DEFINE text == disk.text[name]
<1>3. text.size \in Nat
  BY <1>2
<1>4. Cardinality(LastLine(text)) \in Nat
  <2>1. IsFiniteSet(0..(text.size - 1))
    BY <1>3, FS_Interval
  <2>2. LastLine(text) \subseteq 0..(text.size - 1)
    BY DEF LastLine
  <2> QED
    BY <2>1, <2>2, FS_Subset, FS_CardinalityType
<1> QED
  BY <1>1, <1>3, <1>4 DEF NumChars

(* A table of files changes only in the marker and the directives of one.  *)
LEMMA SameFiles ==
  ASSUME NEW fs, NEW next, TableOK(fs, next), NEW at \in 1..Len(fs),
         NEW f, IsFile(f), f.name = fs[at].name, f.start = fs[at].start
  PROVE  /\ TableOK([fs EXCEPT ![at] = f], next)
         /\ Len([fs EXCEPT ![at] = f]) = Len(fs)
         /\ \A i \in 1..Len(fs) : [fs EXCEPT ![at] = f][i].name = fs[i].name
         /\ \A i \in 1..Len(fs) : [fs EXCEPT ![at] = f][i].start = fs[i].start
<1> DEFINE gs == [fs EXCEPT ![at] = f]
<1>1. /\ fs = [i \in 1..Len(fs) |-> fs[i]] /\ Len(fs) \in Nat
      /\ \A i \in 1..Len(fs) : IsFile(fs[i])
  BY DEF TableOK, IsTable
<1>2. gs = [i \in 1..Len(fs) |-> IF i = at THEN f ELSE fs[i]]
  BY <1>1
<1>3. Len(gs) = Len(fs)
  BY <1>1, <1>2
<1>4. \A i \in 1..Len(fs) : gs[i] = IF i = at THEN f ELSE fs[i]
  BY <1>2
<1> HIDE DEF gs
<1>5. f.numChars = fs[at].numChars
  BY <1>1 DEF IsFile
<1>6. \A i \in 1..Len(fs) : /\ gs[i].name = fs[i].name /\ gs[i].start = fs[i].start
                            /\ gs[i].numChars = fs[i].numChars /\ IsFile(gs[i])
  BY <1>1, <1>4, <1>5
<1>7. IsTable(gs)
  <2>1. gs = [i \in 1..Len(gs) |-> gs[i]]
    BY <1>2, <1>3, <1>4
  <2> QED
    BY <2>1, <1>1, <1>3, <1>6 DEF IsTable
<1>8. Partition(gs, next)
  BY <1>3, <1>6 DEF TableOK, Partition, HasLoc
<1>9. Distinct(gs)
  BY <1>3, <1>6 DEF TableOK, Distinct
<1> QED
  BY <1>3, <1>6, <1>7, <1>8, <1>9 DEF TableOK, gs

(* A file with another marker or more directives is a file.                *)
LEMMA Updated ==
  ASSUME NEW f, IsFile(f), NEW m, NEW h \in Seq(Directive)
  PROVE  /\ IsFile([f EXCEPT !.marker = m])
         /\ [f EXCEPT !.marker = m].name = f.name
         /\ [f EXCEPT !.marker = m].start = f.start
         /\ IsFile([f EXCEPT !.hash = h])
         /\ [f EXCEPT !.hash = h].name = f.name
         /\ [f EXCEPT !.hash = h].start = f.start
<1>1. f = [x \in Fields |-> f[x]]
  BY DEF IsFile
<1>2. [f EXCEPT !.marker = m] = [x \in Fields |-> IF x = "marker" THEN m ELSE f[x]]
  BY <1>1
<1>3. [f EXCEPT !.hash = h] = [x \in Fields |-> IF x = "hash" THEN h ELSE f[x]]
  BY <1>1
<1>4. IsFile([f EXCEPT !.marker = m])
  BY <1>2 DEF IsFile, Fields
<1>5. IsFile([f EXCEPT !.hash = h])
  BY <1>3 DEF IsFile, Fields
<1> QED
  BY <1>2, <1>3, <1>4, <1>5 DEF Fields

LEMMA MovedMarker ==
  ASSUME NEW fs, NEW next, TableOK(fs, next), NEW at \in 1..Len(fs), NEW m
  PROVE  /\ TableOK(MoveMarker(fs, at, m), next)
         /\ Len(MoveMarker(fs, at, m)) = Len(fs)
         /\ \A i \in 1..Len(fs) : MoveMarker(fs, at, m)[i].name = fs[i].name
         /\ \A i \in 1..Len(fs) : MoveMarker(fs, at, m)[i].start = fs[i].start
<1> DEFINE f == [fs[at] EXCEPT !.marker = m]
<1>1. IsFile(fs[at])
  BY DEF TableOK, IsTable
<1>2. << >> \in Seq(Directive)
  OBVIOUS
<1>3. /\ IsFile(f) /\ f.name = fs[at].name /\ f.start = fs[at].start
  BY <1>1, <1>2, Updated
<1>4. MoveMarker(fs, at, m) = [fs EXCEPT ![at] = f]
  BY DEF MoveMarker
<1> HIDE DEF f
<1>5. /\ TableOK([fs EXCEPT ![at] = f], next)
      /\ Len([fs EXCEPT ![at] = f]) = Len(fs)
      /\ \A i \in 1..Len(fs) : [fs EXCEPT ![at] = f][i].name = fs[i].name
      /\ \A i \in 1..Len(fs) : [fs EXCEPT ![at] = f][i].start = fs[i].start
  BY <1>3, SameFiles
<1> QED
  BY <1>4, <1>5

(* findFile finds the file of a name, if the list has it.                  *)
LEMMA FoundByName ==
  ASSUME NEW fs, NEW next, TableOK(fs, next), NEW last \in 0..Len(fs),
         NEW name \in Names
  PROVE  /\ FindFile(fs, last, name) \in 0..Len(fs)
         /\ FindFile(fs, last, name) # 0 => fs[FindFile(fs, last, name)].name = name
         /\ FindFile(fs, last, name) = 0 => \A i \in 1..Len(fs) : fs[i].name # name
<1>1. DOMAIN fs = 1..Len(fs) /\ Len(fs) \in Nat
  BY DEF TableOK, IsTable
<1>2. CASE last # 0 /\ fs[last].name = name
  BY <1>1, <1>2 DEF FindFile
<1>3. CASE ~ (last # 0 /\ fs[last].name = name) /\ \E i \in DOMAIN fs : fs[i].name = name
  <2> DEFINE k == CHOOSE i \in DOMAIN fs : fs[i].name = name
  <2>1. k \in DOMAIN fs /\ fs[k].name = name
    BY <1>3
  <2>2. FindFile(fs, last, name) = k
    BY <1>3 DEF FindFile
  <2> QED
    BY <2>1, <2>2, <1>1
<1>4. CASE ~ (last # 0 /\ fs[last].name = name) /\ ~ \E i \in DOMAIN fs : fs[i].name = name
  BY <1>1, <1>4 DEF FindFile
<1> QED
  BY <1>2, <1>3, <1>4

(* A new file is put after the others and takes the locations from the next*)
(* one on.                                                                 *)
LEMMA Appended ==
  ASSUME NEW fs, NEW next, TableOK(fs, next), NEW f, IsFile(f),
         f.start = next, \A i \in 1..Len(fs) : fs[i].name # f.name
  PROVE  /\ TableOK(Append(fs, f), FollowingLoc(f))
         /\ Len(Append(fs, f)) = Len(fs) + 1
         /\ Append(fs, f)[Len(fs) + 1] = f
<1> DEFINE gs == Append(fs, f)
           n == Len(fs)
<1>1. /\ fs = [i \in 1..n |-> fs[i]] /\ n \in Nat
      /\ \A i \in 1..n : IsFile(fs[i])
  BY DEF TableOK, IsTable
<1> DEFINE S == {fs[i] : i \in 1..n} \cup {f}
<1>2. fs \in Seq(S) /\ f \in S
  <2>1. [i \in 1..n |-> fs[i]] \in [1..n -> S]
    OBVIOUS
  <2>2. fs \in [1..n -> S]
    BY <2>1, <1>1
  <2> QED
    BY <2>2, <1>1
<1> HIDE DEF S
<1>3. /\ gs \in Seq(S) /\ Len(gs) = n + 1 /\ gs[n + 1] = f
      /\ \A i \in 1..n : gs[i] = fs[i]
  <2>1. \A sq \in Seq(S) : /\ Append(sq, f) \in Seq(S)
                           /\ Len(Append(sq, f)) = Len(sq) + 1
                           /\ Append(sq, f)[Len(sq) + 1] = f
                           /\ \A i \in 1..Len(sq) : Append(sq, f)[i] = sq[i]
    BY <1>2
  <2> QED
    BY <2>1, <1>2
<1> HIDE DEF gs, n
<1>4. IsTable(gs)
  <2>1. gs = [i \in 1..Len(gs) |-> gs[i]]
    BY <1>3
  <2>2. \A i \in 1..(n + 1) : i = n + 1 \/ i \in 1..n
    BY <1>1
  <2> QED
    BY <1>1, <1>3, <2>1, <2>2 DEF IsTable
<1>5. /\ f.start \in Nat /\ f.numChars \in Nat
      /\ \A i \in 1..n : fs[i].start \in Nat /\ fs[i].numChars \in Nat
  BY <1>1 DEF IsFile
<1>6. Partition(fs, next)
  BY DEF TableOK
<1>7. Partition(gs, FollowingLoc(f))
  <2>1. FollowingLoc(f) = next + f.numChars + 1 /\ FollowingLoc(f) \in Nat \ {0}
    BY <1>5 DEF FollowingLoc
  <2>2. \A i, j \in 1..Len(gs) : i < j => gs[i].start + gs[i].numChars < gs[j].start
    <3> SUFFICES ASSUME NEW i \in 1..Len(gs), NEW j \in 1..Len(gs), i < j
                 PROVE  gs[i].start + gs[i].numChars < gs[j].start
      OBVIOUS
    <3>1. i \in 1..n /\ (j \in 1..n \/ j = n + 1)
      BY <1>1, <1>3
    <3> QED
      BY <3>1, <1>3, <1>6 DEF Partition, n
  <2>3. \A i \in 1..Len(gs) : gs[i].start + gs[i].numChars < FollowingLoc(f)
    <3> SUFFICES ASSUME NEW i \in 1..Len(gs)
                 PROVE  gs[i].start + gs[i].numChars < FollowingLoc(f)
      OBVIOUS
    <3>1. CASE i = n + 1
      BY <3>1, <2>1, <1>3, <1>5
    <3>2. CASE i \in 1..n
      <4>1. fs[i].start + fs[i].numChars < next
        BY <3>2, <1>6 DEF Partition, n
      <4> QED
        BY <4>1, <3>2, <2>1, <1>3, <1>5
    <3> QED
      BY <3>1, <3>2, <1>1, <1>3
  <2>4. \A loc \in 1..(FollowingLoc(f) - 1) : \E i \in 1..Len(gs) : HasLoc(gs[i], loc)
    <3> SUFFICES ASSUME NEW loc \in 1..(FollowingLoc(f) - 1)
                 PROVE  \E i \in 1..Len(gs) : HasLoc(gs[i], loc)
      OBVIOUS
    <3>1. next \in Nat \ {0}
      BY <1>6 DEF Partition
    <3>2. CASE loc < next
      <4>1. PICK i \in 1..n : HasLoc(fs[i], loc)
        BY <3>1, <3>2, <1>6 DEF Partition, n
      <4>2. HasLoc(gs[i], loc) /\ i \in 1..Len(gs)
        BY <4>1, <1>1, <1>3
      <4> QED
        BY <4>2
    <3>3. CASE loc >= next
      <4>1. HasLoc(f, loc)
        BY <3>3, <3>1, <2>1, <1>5 DEF HasLoc
      <4>2. HasLoc(gs[n + 1], loc) /\ n + 1 \in 1..Len(gs)
        BY <4>1, <1>1, <1>3
      <4> QED
        BY <4>2
    <3> QED
      BY <3>1, <3>2, <3>3
  <2> QED
    BY <2>1, <2>2, <2>3, <2>4 DEF Partition
<1>8. Distinct(gs)
  <2> SUFFICES ASSUME NEW i \in 1..Len(gs), NEW j \in 1..Len(gs),
                      gs[i].name = gs[j].name
               PROVE  i = j
    BY DEF Distinct
  <2>1. (i \in 1..n \/ i = n + 1) /\ (j \in 1..n \/ j = n + 1)
    BY <1>1, <1>3
  <2> QED
    BY <2>1, <1>3 DEF TableOK, Distinct, n
<1> QED
  BY <1>3, <1>4, <1>7, <1>8 DEF TableOK, gs, n

(* A file that is read is a file.                                          *)
LEMMA ReadFile ==
  ASSUME disk \in Disks, NEW name \in Names, NEW start \in Nat
  PROVE  LET f == NewFile(name, disk.text[name], start) IN
           IsFile(f) /\ f.name = name /\ f.start = start
<1> DEFINE f == NewFile(name, disk.text[name], start)
<1>1. NumChars(disk.text[name]) \in Nat
  BY DiskTypes
<1>2. /\ f = [x \in Fields |-> f[x]]
      /\ f.name = name /\ f.start = start
      /\ f.numChars = NumChars(disk.text[name]) /\ f.hash = << >>
  BY DEF NewFile, Fields
<1> HIDE DEF f
<1>3. << >> \in Seq(Directive)
  OBVIOUS
<1>4. IsFile(f)
  BY <1>1, <1>2, <1>3 DEF IsFile
<1> QED
  BY <1>2, <1>4 DEF f

(* getFile gives the file of the name, and leaves a table of files.        *)
LEMMA GotFile ==
  ASSUME disk \in Disks, NEW fs, TableOK(fs, nextLoc), NEW last \in 0..Len(fs),
         NEW name \in Names
  PROVE  LET g == GetFile(fs, last, name) IN
           /\ TableOK(g.files, g.next)
           /\ g.at \in 1..Len(g.files) /\ g.files[g.at].name = name
<1> DEFINE g == GetFile(fs, last, name)
           at == FindFile(fs, last, name)
           new == NewFile(name, disk.text[name], nextLoc)
<1>1. /\ at \in 0..Len(fs)
      /\ at # 0 => fs[at].name = name
      /\ at = 0 => \A i \in 1..Len(fs) : fs[i].name # name
  BY FoundByName
<1>2. Len(fs) \in Nat /\ nextLoc \in Nat
  BY DEF TableOK, IsTable, Partition
<1>3. IsFile(new) /\ new.name = name /\ new.start = nextLoc
  BY <1>2, ReadFile
<1>4. CASE at # 0
  <2>1. g.files = fs /\ g.at = at /\ g.next = nextLoc
    BY <1>4 DEF GetFile
  <2> QED
    BY <2>1, <1>1, <1>2, <1>4
<1>5. CASE at = 0
  <2>1. g.files = Append(fs, new) /\ g.at = Len(fs) + 1 /\ g.next = FollowingLoc(new)
    BY <1>5 DEF GetFile
  <2> HIDE DEF g, at, new
  <2>2. \A i \in 1..Len(fs) : fs[i].name # new.name
    BY <1>1, <1>3, <1>5
  <2>3. /\ TableOK(Append(fs, new), FollowingLoc(new))
        /\ Len(Append(fs, new)) = Len(fs) + 1
        /\ Append(fs, new)[Len(fs) + 1] = new
    BY <1>3, <2>2, Appended
  <2> QED
    BY <2>1, <2>3, <1>2, <1>3 DEF g
<1> QED
  BY <1>4, <1>5

(* Every location that was given out has a file.                           *)
LEMMA FoundWithLoc ==
  ASSUME IInv, NEW loc \in KnownLocs
  PROVE  /\ FindFileWithLoc(loc) \in 1..Len(files)
         /\ HasLoc(files[FindFileWithLoc(loc)], loc)
<1>1. DOMAIN files = 1..Len(files) /\ Len(files) \in Nat
  BY DEF IInv, TableOK, IsTable
<1>2. \E i \in DOMAIN files : HasLoc(files[i], loc)
  BY <1>1 DEF IInv, TableOK, Partition, KnownLocs
<1> DEFINE k == CHOOSE i \in DOMAIN files : HasLoc(files[i], loc)
<1>3. k \in DOMAIN files /\ HasLoc(files[k], loc)
  BY <1>2
<1>4. CASE recent # 0 /\ HasLoc(files[recent], loc)
  BY <1>1, <1>4 DEF FindFileWithLoc, IInv
<1>5. CASE ~ (recent # 0 /\ HasLoc(files[recent], loc))
  <2>1. FindFileWithLoc(loc) = k
    BY <1>5 DEF FindFileWithLoc
  <2> QED
    BY <2>1, <1>1, <1>3
<1> QED
  BY <1>4, <1>5

(* What a call leaves is the next state's table.                           *)
LEMMA Left ==
  ASSUME IInv, NEW fs, NEW last \in 1..Len(fs), NEW next, TableOK(fs, next),
         files' = fs, recent' = last, nextLoc' = next,
         UNCHANGED <<disk, useHashLines, statics, nextStaticLoc>>
  PROVE  IInv'
<1>1. TableOK(files, nextLoc)'
  BY DEF TableOK, IsTable, IsFile, Partition, Distinct, HasLoc
<1>2. Len(fs) \in Nat
  BY DEF TableOK, IsTable
<1> QED
  BY <1>1, <1>2 DEF IInv

LEMMA CallLeaves ==
  ASSUME IInv, NEW r, Call(r), TableOK(r.files, r.nextLoc), r.recent \in 1..Len(r.files)
  PROVE  IInv'
BY Left DEF Call

-----------------------------------------------------------------------------
LEMMA InitIInv == Init => IInv
<1> SUFFICES ASSUME Init PROVE IInv
  OBVIOUS
<1>1. TableOK(files, nextLoc)
  BY DEF Init, TableOK, IsTable, Partition, Distinct
<1>2. statics \in Seq(StaticLoc) /\ Len(statics) = 2
  BY StaticsAssumption DEF Init
<1> QED
  BY <1>1, <1>2 DEF Init, IInv

LEMMA EncodeOffsetStep ==
  ASSUME IInv, NEW name \in Names, NEW offset, Call(EncodeOffset(name, offset))
  PROVE  IInv'
<1> DEFINE g == GetFile(files, recent, name)
           r == EncodeOffset(name, offset)
<1>1. TableOK(g.files, g.next) /\ g.at \in 1..Len(g.files)
  BY GotFile DEF IInv
<1>2. r.files = g.files /\ r.recent = g.at /\ r.nextLoc = g.next
  BY DEF EncodeOffset, Returned
<1> HIDE DEF g, r
<1>3. Call(r)
  BY DEF r
<1> QED
  BY <1>1, <1>2, <1>3, CallLeaves

LEMMA EncodeLineColStep ==
  ASSUME IInv, NEW name \in Names, NEW line, NEW col,
         Call(EncodeLineCol(name, line, col))
  PROVE  IInv'
<1> DEFINE g == GetFile(files, recent, name)
           m == LineColToChar(g.files[g.at], line, col).marker
           r == EncodeLineCol(name, line, col)
<1>1. TableOK(g.files, g.next) /\ g.at \in 1..Len(g.files)
  BY GotFile DEF IInv
<1>2. r.files = MoveMarker(g.files, g.at, m) /\ r.recent = g.at /\ r.nextLoc = g.next
  BY DEF EncodeLineCol, Returned
<1> HIDE DEF g, m, r
<1>3. Call(r)
  BY DEF r
<1>4. /\ TableOK(MoveMarker(g.files, g.at, m), g.next)
      /\ Len(MoveMarker(g.files, g.at, m)) = Len(g.files)
  BY <1>1, MovedMarker
<1> QED
  BY <1>1, <1>2, <1>3, <1>4, CallLeaves

LEMMA DecodeLineColStep ==
  ASSUME IInv, NEW loc \in KnownLocs, Call(DecodeLineCol(loc))
  PROVE  IInv'
<1> DEFINE at == FindFileWithLoc(loc)
           m == CharToLineCol(files[at], loc - files[at].start).marker
           r == DecodeLineCol(loc)
<1>1. at \in 1..Len(files)
  BY FoundWithLoc
<1>2. r.files = MoveMarker(files, at, m) /\ r.recent = at /\ r.nextLoc = nextLoc
  BY DEF DecodeLineCol, Returned
<1> HIDE DEF at, m, r
<1>3. Call(r)
  BY DEF r
<1>4. /\ TableOK(MoveMarker(files, at, m), nextLoc)
      /\ Len(MoveMarker(files, at, m)) = Len(files)
  BY <1>1, MovedMarker DEF IInv
<1> QED
  BY <1>1, <1>2, <1>3, <1>4, CallLeaves

LEMMA DecodeOffsetStep ==
  ASSUME IInv, NEW loc \in KnownLocs, Decodable(loc), Call(DecodeOffset(loc))
  PROVE  IInv'
<1> DEFINE at == FindFileWithLoc(loc)
           from == CharToLineCol(files[at], loc - files[at].start)
           to == MapLine(files[at], from.line)
           moved == MoveMarker(files, at, from.marker)
           g == GetFile(moved, at, to.name)
           m == LineColToChar(g.files[g.at], to.line, from.col).marker
           r == DecodeOffset(loc)
<1>1. at \in 1..Len(files)
  BY FoundWithLoc
<1>2. CASE ~ UsesHashLines(files[at])
  <2>1. r.files = files /\ r.recent = at /\ r.nextLoc = nextLoc
    BY <1>2 DEF DecodeOffset, Returned
  <2> HIDE DEF at, r
  <2>2. Call(r)
    BY DEF r
  <2> QED
    BY <2>1, <2>2, <1>1, CallLeaves DEF IInv
<1>3. CASE UsesHashLines(files[at])
  <2>1. /\ r.files = MoveMarker(g.files, g.at, m)
        /\ r.recent = g.at /\ r.nextLoc = g.next
    BY <1>3 DEF DecodeOffset, Returned
  <2>2. to.name \in Names
    BY <1>3 DEF Decodable, MappedLine
  <2>3. Call(r)
    OBVIOUS
  <2> HIDE DEF r, m
  <2>4. TableOK(moved, nextLoc) /\ Len(moved) = Len(files)
    <3> HIDE DEF at, from
    <3> QED
      BY <1>1, MovedMarker DEF IInv
  <2>5. TableOK(g.files, g.next) /\ g.at \in 1..Len(g.files)
    <3>1. at \in 0..Len(moved) /\ disk \in Disks
      BY <1>1, <2>4 DEF IInv
    <3> HIDE DEF at, to, moved
    <3> QED
      BY <3>1, <2>2, <2>4, GotFile
  <2> HIDE DEF g
  <2>6. /\ TableOK(MoveMarker(g.files, g.at, m), g.next)
        /\ Len(MoveMarker(g.files, g.at, m)) = Len(g.files)
    BY <2>5, MovedMarker
  <2> QED
    BY <2>1, <2>3, <2>5, <2>6, CallLeaves
<1> QED
  BY <1>2, <1>3

LEMMA AddHashLineStep ==
  ASSUME IInv, NEW name \in Names, AddHashLine(name)
  PROVE  IInv'
<1> DEFINE g == GetFile(files, recent, name)
           n == Len(g.files[g.at].hash) + 1
           h == Append(g.files[g.at].hash, disk.directives[name][n])
           f == [g.files[g.at] EXCEPT !.hash = h]
<1>1. TableOK(g.files, g.next) /\ g.at \in 1..Len(g.files)
  BY GotFile DEF IInv
<1>2. IsFile(g.files[g.at])
  BY <1>1 DEF TableOK, IsTable
<1>3. disk.directives[name][n] \in Directive
  BY DiskTypes DEF AddHashLine, IInv
<1>4. files' = [g.files EXCEPT ![g.at] = f] /\ recent' = g.at /\ nextLoc' = g.next
  BY DEF AddHashLine
<1> HIDE DEF g, n
<1>5. h \in Seq(Directive)
  BY <1>2, <1>3 DEF IsFile
<1> HIDE DEF h
<1>6. IsFile(f) /\ f.name = g.files[g.at].name /\ f.start = g.files[g.at].start
  BY <1>2, <1>5, Updated
<1> HIDE DEF f
<1>7. /\ TableOK([g.files EXCEPT ![g.at] = f], g.next)
      /\ Len([g.files EXCEPT ![g.at] = f]) = Len(g.files)
  BY <1>1, <1>6, SameFiles
<1> QED
  BY <1>1, <1>4, <1>7, Left DEF AddHashLine

LEMMA EncodeStaticStep ==
  ASSUME IInv, NEW s \in StaticLoc, EncodeStatic(s)
  PROVE  IInv'
<1>1. statics' \in Seq(StaticLoc) /\ Len(statics') = Len(statics) + 1
  BY DEF EncodeStatic, IInv
<1>2. nextStaticLoc' = - Len(statics')
  BY <1>1 DEF EncodeStatic, BelowStatic, IInv
<1>3. TableOK(files, nextLoc)'
  BY DEF EncodeStatic, filesVars, IInv, TableOK, IsTable, IsFile, Partition, Distinct,
         HasLoc
<1> QED
  BY <1>1, <1>2, <1>3 DEF EncodeStatic, filesVars, IInv

(* The invariant is inductive.                                             *)
LEMMA IInvInductive == IInv /\ [Next]_vars => IInv'
<1> SUFFICES ASSUME IInv, [Next]_vars PROVE IInv'
  OBVIOUS
<1>1. ASSUME NEW name \in Names, NEW offset \in Offsets(name),
             Call(EncodeOffset(name, offset))
      PROVE  IInv'
  BY <1>1, EncodeOffsetStep
<1>2. ASSUME NEW name \in Names, NEW at \in LineCols(name),
             Call(EncodeLineCol(name, at[1], at[2]))
      PROVE  IInv'
  BY <1>2, EncodeLineColStep
<1>3. ASSUME NEW name \in Names, AddHashLine(name) PROVE IInv'
  BY <1>3, AddHashLineStep
<1>4. ASSUME NEW s \in StaticLoc, EncodeStatic(s) PROVE IInv'
  BY <1>4, EncodeStaticStep
<1>5. ASSUME NEW loc \in KnownLocs, Call(DecodeLineCol(loc)) PROVE IInv'
  BY <1>5, DecodeLineColStep
<1>6. ASSUME NEW loc \in KnownLocs, Decodable(loc), Call(DecodeOffset(loc))
      PROVE  IInv'
  BY <1>6, DecodeOffsetStep
<1>7. CASE UNCHANGED vars
  BY <1>7 DEF vars, filesVars, IInv, TableOK, IsTable, IsFile, Partition, Distinct,
              HasLoc
<1> QED
  BY <1>1, <1>2, <1>3, <1>4, <1>5, <1>6, <1>7 DEF Next

LEMMA IInvImplies == IInv => TypeOK /\ FilesApart /\ FilesDistinct
<1> SUFFICES ASSUME IInv PROVE TypeOK /\ FilesApart /\ FilesDistinct
  OBVIOUS
<1>1. DOMAIN files = 1..Len(files) /\ \A i \in DOMAIN files : IsFile(files[i])
  BY DEF IInv, TableOK, IsTable
<1>2. TypeOK
  BY <1>1 DEF TypeOK, IInv, TableOK, Partition, IsFile
<1>3. FilesApart
  BY <1>1 DEF FilesApart, IInv, TableOK, Partition, KnownLocs
<1>4. FilesDistinct
  BY <1>1 DEF FilesDistinct, IInv, TableOK, Distinct
<1> QED
  BY <1>2, <1>3, <1>4

LEMMA IInvAlways == Spec => []IInv
BY InitIInv, IInvInductive, PTL DEF Spec

-----------------------------------------------------------------------------
(* Every variable always holds a value of its type, whatever the files on  *)
(* the disk and the order of the calls.                                    *)
THEOREM TypeCorrect == Spec => []TypeOK
BY IInvAlways, IInvImplies, PTL

(* No location is ever in two files, and every location that was given out *)
(* is in one, whatever file a decoded directive has added to the list.     *)
THEOREM LocationsPartitioned == Spec => []FilesApart
BY IInvAlways, IInvImplies, PTL

(* A file is never in the list twice, whichever the cached one is.         *)
THEOREM FilesKnownOnce == Spec => []FilesDistinct
BY IInvAlways, IInvImplies, PTL

-----------------------------------------------------------------------------
(* The refinement.                                                         *)
(* What Locations sees of a list of files.                                 *)
OpenedOf(fs) == [i \in DOMAIN fs |-> [name |-> fs[i].name, start |-> fs[i].start]]
HashOf(fs) ==
  [n \in Names |-> IF \E i \in DOMAIN fs : fs[i].name = n
                   THEN fs[CHOOSE i \in DOMAIN fs : fs[i].name = n].hash
                   ELSE << >>]

(* The next location follows the last file.                                *)
Ends(fs, next) ==
  next = IF Len(fs) = 0 THEN 1 ELSE fs[Len(fs)].start + fs[Len(fs)].numChars + 1
IInvEnds == IInv /\ Ends(files, nextLoc)

(* Two lists that Locations does not tell apart.                           *)
SameView(fs, gs) ==
  /\ Len(gs) = Len(fs)
  /\ \A i \in 1..Len(fs) : /\ gs[i].name = fs[i].name /\ gs[i].start = fs[i].start
                           /\ gs[i].hash = fs[i].hash

-----------------------------------------------------------------------------
LEMMA ViewIsSame ==
  ASSUME NEW fs, NEW gs, NEW next, TableOK(fs, next), TableOK(gs, next),
         SameView(fs, gs)
  PROVE  /\ OpenedOf(gs) = OpenedOf(fs)
         /\ HashOf(gs) = HashOf(fs)
         /\ Ends(fs, next) => Ends(gs, next)
<1>1. DOMAIN fs = 1..Len(fs) /\ DOMAIN gs = 1..Len(fs) /\ Len(fs) \in Nat
  BY DEF TableOK, IsTable, SameView
<1>2. OpenedOf(gs) = OpenedOf(fs)
  BY <1>1 DEF OpenedOf, SameView
<1>3. \A n \in Names : HashOf(gs)[n] = HashOf(fs)[n]
  <2> SUFFICES ASSUME NEW n \in Names PROVE HashOf(gs)[n] = HashOf(fs)[n]
    OBVIOUS
  <2>1. \A i \in 1..Len(fs) : gs[i].name = n <=> fs[i].name = n
    BY DEF SameView
  <2>2. CASE \E i \in 1..Len(fs) : fs[i].name = n
    <3> DEFINE k == CHOOSE i \in 1..Len(fs) : fs[i].name = n
               j == CHOOSE i \in 1..Len(fs) : gs[i].name = n
    <3>1. k \in 1..Len(fs) /\ fs[k].name = n
      BY <2>2
    <3>2. j \in 1..Len(fs) /\ gs[j].name = n
      BY <2>1, <2>2
    <3>3. HashOf(fs)[n] = fs[k].hash
      BY <1>1, <2>2 DEF HashOf
    <3>4. HashOf(gs)[n] = gs[j].hash
      BY <1>1, <2>1, <2>2 DEF HashOf
    <3> HIDE DEF k, j
    <3>5. j = k
      BY <2>1, <3>1, <3>2 DEF TableOK, Distinct
    <3> QED
      BY <3>1, <3>3, <3>4, <3>5 DEF SameView
  <2>3. CASE ~ \E i \in 1..Len(fs) : fs[i].name = n
    BY <1>1, <2>1, <2>3 DEF HashOf
  <2> QED
    BY <2>2, <2>3
<1>4. HashOf(gs) = HashOf(fs)
  <2>1. /\ HashOf(gs) = [n \in Names |-> HashOf(gs)[n]]
        /\ HashOf(fs) = [n \in Names |-> HashOf(fs)[n]]
    BY DEF HashOf
  <2> HIDE DEF HashOf
  <2> QED
    BY <1>3, <2>1
<1>5. Ends(fs, next) => Ends(gs, next)
  <2>1. Len(fs) # 0 => Len(fs) \in 1..Len(fs)
    BY <1>1
  <2>2. \A i \in 1..Len(fs) : gs[i].numChars = fs[i].numChars
    BY DEF SameView, TableOK, IsTable, IsFile
  <2> QED
    BY <2>1, <2>2 DEF Ends, SameView
<1> QED
  BY <1>2, <1>4, <1>5

(* A marker is not seen.                                                   *)
LEMMA MarkerNotSeen ==
  ASSUME NEW fs, NEW next, TableOK(fs, next), NEW at \in 1..Len(fs), NEW m
  PROVE  LET gs == MoveMarker(fs, at, m) IN
           /\ TableOK(gs, next) /\ Len(gs) = Len(fs)
           /\ OpenedOf(gs) = OpenedOf(fs) /\ HashOf(gs) = HashOf(fs)
           /\ Ends(fs, next) => Ends(gs, next)
<1> DEFINE gs == MoveMarker(fs, at, m)
<1>1. /\ TableOK(gs, next) /\ Len(gs) = Len(fs)
      /\ \A i \in 1..Len(fs) : gs[i].name = fs[i].name
      /\ \A i \in 1..Len(fs) : gs[i].start = fs[i].start
  BY MovedMarker
<1>2. \A i \in 1..Len(fs) : gs[i].hash = fs[i].hash
  <2>1. /\ fs = [i \in 1..Len(fs) |-> fs[i]]
        /\ fs[at] = [x \in Fields |-> fs[at][x]]
    BY DEF TableOK, IsTable, IsFile
  <2>2. [fs[at] EXCEPT !.marker = m].hash = fs[at].hash
    BY <2>1 DEF Fields
  <2>3. \A i \in 1..Len(fs) :
          gs[i] = IF i = at THEN [fs[at] EXCEPT !.marker = m] ELSE fs[i]
    BY <2>1 DEF MoveMarker
  <2> HIDE DEF gs
  <2> QED
    BY <2>2, <2>3
<1> HIDE DEF gs
<1>3. SameView(fs, gs)
  BY <1>1, <1>2 DEF SameView
<1>4. /\ OpenedOf(gs) = OpenedOf(fs) /\ HashOf(gs) = HashOf(fs)
      /\ Ends(fs, next) => Ends(gs, next)
  BY <1>1, <1>3, ViewIsSame
<1> QED
  BY <1>1, <1>4 DEF gs

(* Append, of any sequence.                                                *)
LEMMA AppendIs ==
  ASSUME NEW n \in Nat, NEW s, s = [i \in 1..n |-> s[i]], NEW e
  PROVE  Append(s, e) = [i \in 1..(n + 1) |-> IF i = n + 1 THEN e ELSE s[i]]
<1> DEFINE S == {s[i] : i \in 1..n} \cup {e}
<1>1. s \in Seq(S) /\ e \in S /\ Len(s) = n
  <2>1. [i \in 1..n |-> s[i]] \in [1..n -> S]
    OBVIOUS
  <2>2. s \in [1..n -> S]
    BY <2>1
  <2> QED
    BY <2>2
<1> HIDE DEF S
<1>2. \A sq \in Seq(S) : /\ Append(sq, e) \in Seq(S)
                         /\ Len(Append(sq, e)) = Len(sq) + 1
                         /\ Append(sq, e)[Len(sq) + 1] = e
                         /\ \A i \in 1..Len(sq) : Append(sq, e)[i] = sq[i]
  BY <1>1
<1> DEFINE a == Append(s, e)
<1>3. /\ a \in Seq(S) /\ Len(a) = n + 1 /\ a[n + 1] = e
      /\ \A i \in 1..n : a[i] = s[i]
  BY <1>1, <1>2
<1> HIDE DEF a
<1>4. a = [i \in 1..(n + 1) |-> a[i]]
  BY <1>3
<1>5. \A i \in 1..(n + 1) : a[i] = IF i = n + 1 THEN e ELSE s[i]
  BY <1>3
<1> QED
  BY <1>4, <1>5 DEF a

LEMMA SameExtent ==
  ASSUME NEW text
  PROVE  Locs!Extent(text) = NumChars(text)
<1>1. \A S : Locs!Cardinality(S) = Cardinality(S)
  BY Zenon DEF Locs!Cardinality, Cardinality
<1>2. Locs!LastLine(text) = LastLine(text)
  BY DEF Locs!LastLine, LastLine
<1> QED
  BY <1>1, <1>2 DEF Locs!Extent, NumChars

(* getFile is Opened: a file that is not known is opened where the last one*)
(* ends, and no directive of it has been noted.                            *)
LEMMA GetFileOpens ==
  ASSUME disk \in Disks, NEW fs, TableOK(fs, nextLoc), Ends(fs, nextLoc),
         NEW last \in 0..Len(fs), NEW name \in Names
  PROVE  LET g == GetFile(fs, last, name) IN
           /\ TableOK(g.files, g.next) /\ Ends(g.files, g.next)
           /\ g.at \in 1..Len(g.files) /\ g.files[g.at].name = name
           /\ OpenedOf(g.files) = Locs!Opened(OpenedOf(fs), name)
           /\ HashOf(g.files) = HashOf(fs)
<1> DEFINE g == GetFile(fs, last, name)
           at == FindFile(fs, last, name)
           new == NewFile(name, disk.text[name], nextLoc)
           n == Len(fs)
<1>1. /\ TableOK(g.files, g.next)
      /\ g.at \in 1..Len(g.files) /\ g.files[g.at].name = name
  BY GotFile
<1>2. /\ at \in 0..n
      /\ at # 0 => fs[at].name = name
      /\ at = 0 => \A i \in 1..n : fs[i].name # name
  BY FoundByName
<1>3. /\ DOMAIN fs = 1..n /\ n \in Nat /\ nextLoc \in Nat
      /\ fs = [i \in 1..n |-> fs[i]]
      /\ \A i \in 1..n : IsFile(fs[i])
  BY DEF TableOK, IsTable, Partition
<1>4. CASE at # 0
  <2>1. g.files = fs /\ g.next = nextLoc
    BY <1>4 DEF GetFile
  <2>2. at \in DOMAIN OpenedOf(fs) /\ OpenedOf(fs)[at].name = name
    BY <1>2, <1>3, <1>4 DEF OpenedOf
  <2> HIDE DEF g, at
  <2>3. Locs!Opened(OpenedOf(fs), name) = OpenedOf(fs)
    BY <2>2 DEF Locs!Opened
  <2> QED
    BY <1>1, <2>1, <2>3 DEF g
<1>5. CASE at = 0
  <2>1. g.files = Append(fs, new) /\ g.next = FollowingLoc(new)
    BY <1>5 DEF GetFile
  <2>2. /\ IsFile(new) /\ new.name = name /\ new.start = nextLoc
        /\ new.hash = << >>
    <3>1. IsFile(new) /\ new.name = name /\ new.start = nextLoc
      BY <1>3, ReadFile
    <3>2. new.hash = << >>
      BY DEF NewFile
    <3> QED
      BY <3>1, <3>2
  <2>3. \A i \in 1..n : fs[i].name # name
    BY <1>2, <1>5
  <2> HIDE DEF g, at, new
  <2>4. Append(fs, new) = [i \in 1..(n + 1) |-> IF i = n + 1 THEN new ELSE fs[i]]
    <3> HIDE DEF n
    <3> QED
      BY <1>3, AppendIs
  <2> DEFINE gs == Append(fs, new)
  <2>5. /\ DOMAIN gs = 1..(n + 1) /\ Len(gs) = n + 1 /\ gs[n + 1] = new
        /\ \A i \in 1..n : gs[i] = fs[i]
    BY <1>3, <2>4
  <2>6. \A i \in 1..(n + 1) : i \in 1..n \/ i = n + 1
    BY <1>3
  <2>7. n + 1 \in 1..(n + 1) /\ \A i \in 1..n : i \in 1..(n + 1) /\ i # n + 1
    BY <1>3
  <2> HIDE DEF gs
  <2>8. Ends(gs, FollowingLoc(new))
    BY <2>5, <1>3 DEF Ends, FollowingLoc
  <2>9. OpenedOf(gs) = Locs!Opened(OpenedOf(fs), name)
    <3> DEFINE t == OpenedOf(fs)
               o == [name |-> name, start |-> nextLoc]
    <3>1. t = [i \in 1..n |-> [name |-> fs[i].name, start |-> fs[i].start]]
      BY <1>3 DEF OpenedOf
    <3>2. /\ DOMAIN t = 1..n /\ Len(t) = n
          /\ \A i \in 1..n : t[i] = [name |-> fs[i].name, start |-> fs[i].start]
      BY <1>3, <3>1
    <3> HIDE DEF t
    <3>3. Locs!Following(t) = nextLoc
      <4>1. CASE n = 0
        <5>1. t = << >>
          BY <4>1, <3>1, <1>3 DEF t
        <5> QED
          BY <5>1, <4>1 DEF Locs!Following, Ends
      <4>2. CASE n # 0
        <5>1. t # << >>
          BY <4>2, <3>2
        <5>2. n \in 1..n
          BY <4>2, <1>3
        <5>3. Locs!Following(t) = t[n].start + Locs!Extent(disk.text[t[n].name]) + 1
          BY <5>1, <3>2 DEF Locs!Following, Locs!TextOf
        <5>4. fs[n].numChars = Locs!Extent(disk.text[fs[n].name])
          BY <1>3, <5>2, SameExtent DEF IsFile
        <5> QED
          BY <4>2, <5>2, <5>3, <5>4, <3>2 DEF Ends
      <4> QED
        BY <4>1, <4>2
    <3>4. ~ \E i \in DOMAIN t : t[i].name = name
      BY <2>3, <3>2
    <3>5. Locs!Opened(t, name) = Append(t, o)
      BY <3>3, <3>4 DEF Locs!Opened
    <3>6. t = [i \in 1..n |-> t[i]]
      BY <3>1, <3>2 DEF t
    <3>7. Append(t, o) = [i \in 1..(n + 1) |-> IF i = n + 1 THEN o ELSE t[i]]
      BY <3>6, <1>3, AppendIs
    <3>8. OpenedOf(gs) = [i \in 1..(n + 1) |-> [name |-> gs[i].name, start |-> gs[i].start]]
      BY <2>5 DEF OpenedOf
    <3>9. \A i \in 1..(n + 1) : [name |-> gs[i].name, start |-> gs[i].start]
                                  = IF i = n + 1 THEN o ELSE t[i]
      BY <2>2, <2>5, <2>6, <2>7, <3>2
    <3> HIDE DEF o
    <3>10. OpenedOf(gs) = Append(t, o)
      BY <3>7, <3>8, <3>9
    <3> QED
      BY <3>5, <3>10 DEF t
  <2>10. HashOf(gs) = HashOf(fs)
    <3>1. ASSUME NEW m \in Names PROVE HashOf(gs)[m] = HashOf(fs)[m]
      <4>1. CASE m = name
        <5> DEFINE k == CHOOSE i \in DOMAIN gs : gs[i].name = m
        <5>1. n + 1 \in DOMAIN gs /\ gs[n + 1].name = m
          BY <4>1, <2>2, <2>5, <2>7
        <5>2. k \in DOMAIN gs /\ gs[k].name = m
          BY <5>1
        <5>3. HashOf(gs)[m] = gs[k].hash
          BY <5>1 DEF HashOf
        <5> HIDE DEF k
        <5>4. k = n + 1
          BY <5>2, <4>1, <2>3, <2>5, <2>6
        <5>5. HashOf(fs)[m] = << >>
          BY <4>1, <2>3, <1>3 DEF HashOf
        <5> QED
          BY <5>3, <5>4, <5>5, <2>2, <2>5
      <4>2. CASE m # name /\ \E i \in 1..n : fs[i].name = m
        <5> DEFINE k == CHOOSE i \in DOMAIN gs : gs[i].name = m
                   j == CHOOSE i \in DOMAIN fs : fs[i].name = m
        <5>1. j \in 1..n /\ fs[j].name = m
          BY <4>2, <1>3
        <5>2. HashOf(fs)[m] = fs[j].hash
          BY <4>2, <1>3 DEF HashOf
        <5>3. \E i \in DOMAIN gs : gs[i].name = m
          BY <4>2, <2>5, <2>7
        <5>4. k \in DOMAIN gs /\ gs[k].name = m
          BY <5>3
        <5>5. HashOf(gs)[m] = gs[k].hash
          BY <5>3 DEF HashOf
        <5> HIDE DEF k, j
        <5>6. k \in 1..n /\ gs[k] = fs[k]
          BY <5>4, <4>2, <2>2, <2>5, <2>6
        <5>7. k = j
          BY <5>1, <5>4, <5>6 DEF TableOK, Distinct
        <5> QED
          BY <5>2, <5>5, <5>6, <5>7
      <4>3. CASE m # name /\ ~ \E i \in 1..n : fs[i].name = m
        <5>1. ~ \E i \in DOMAIN gs : gs[i].name = m
          BY <4>3, <2>2, <2>5, <2>6
        <5> QED
          BY <5>1, <4>3, <1>3 DEF HashOf
      <4> QED
        BY <4>1, <4>2, <4>3
    <3>2. /\ HashOf(gs) = [m \in Names |-> HashOf(gs)[m]]
          /\ HashOf(fs) = [m \in Names |-> HashOf(fs)[m]]
      BY DEF HashOf
    <3> HIDE DEF HashOf
    <3> QED
      BY <3>1, <3>2
  <2> QED
    BY <1>1, <2>1, <2>8, <2>9, <2>10 DEF g, gs
<1> QED
  BY <1>4, <1>5

-----------------------------------------------------------------------------
Refines == IInvEnds' /\ [Locs!Next]_(Locs!vars)

(* What a call does to the files, and which step of Locations that is.     *)
LEMMA CallRefines ==
  ASSUME IInvEnds, NEW r, Call(r), TableOK(r.files, r.nextLoc),
         Ends(r.files, r.nextLoc), r.recent \in 1..Len(r.files),
         HashOf(r.files) = HashOf(files),
         \/ OpenedOf(r.files) = OpenedOf(files)
         \/ \E name \in Names : OpenedOf(r.files) = Locs!Opened(OpenedOf(files), name)
  PROVE  Refines
<1>1. /\ files' = r.files /\ nextLoc' = r.nextLoc
      /\ UNCHANGED <<disk, useHashLines, statics>>
  BY DEF Call
<1>2. IInvEnds'
  BY <1>1, CallLeaves DEF IInvEnds, Ends
<1>3. HashOf(files)' = HashOf(files)
  BY <1>1 DEF HashOf
<1>4. CASE OpenedOf(r.files) = OpenedOf(files)
  <2>1. OpenedOf(files)' = OpenedOf(files)
    BY <1>1, <1>4 DEF OpenedOf
  <2> QED
    BY <2>1, <1>1, <1>2, <1>3 DEF Refines, Locs!vars, OpenedOf, HashOf
<1>5. CASE \E name \in Names : OpenedOf(r.files) = Locs!Opened(OpenedOf(files), name)
  <2>1. PICK name \in Names : OpenedOf(r.files) = Locs!Opened(OpenedOf(files), name)
    BY <1>5
  <2>2. OpenedOf(files)' = Locs!Opened(OpenedOf(files), name)
    BY <1>1, <2>1 DEF OpenedOf
  <2>3. Locs!Open(name)
    BY <2>2, <1>1, <1>3 DEF Locs!Open, OpenedOf, HashOf
  <2> QED
    BY <2>3, <1>2 DEF Refines, Locs!Next
<1> QED
  BY <1>4, <1>5

LEMMA EncodeOffsetRefines ==
  ASSUME IInvEnds, NEW name \in Names, NEW offset, Call(EncodeOffset(name, offset))
  PROVE  Refines
<1> DEFINE g == GetFile(files, recent, name)
           r == EncodeOffset(name, offset)
<1>1. /\ TableOK(g.files, g.next) /\ Ends(g.files, g.next) /\ g.at \in 1..Len(g.files)
      /\ OpenedOf(g.files) = Locs!Opened(OpenedOf(files), name)
      /\ HashOf(g.files) = HashOf(files)
  BY GetFileOpens DEF IInvEnds, IInv
<1>2. r.files = g.files /\ r.recent = g.at /\ r.nextLoc = g.next
  BY DEF EncodeOffset, Returned
<1> HIDE DEF g, r
<1>3. Call(r)
  BY DEF r
<1> QED
  BY <1>1, <1>2, <1>3, CallRefines

LEMMA EncodeLineColRefines ==
  ASSUME IInvEnds, NEW name \in Names, NEW line, NEW col,
         Call(EncodeLineCol(name, line, col))
  PROVE  Refines
<1> DEFINE g == GetFile(files, recent, name)
           m == LineColToChar(g.files[g.at], line, col).marker
           r == EncodeLineCol(name, line, col)
<1>1. /\ TableOK(g.files, g.next) /\ Ends(g.files, g.next) /\ g.at \in 1..Len(g.files)
      /\ OpenedOf(g.files) = Locs!Opened(OpenedOf(files), name)
      /\ HashOf(g.files) = HashOf(files)
  BY GetFileOpens DEF IInvEnds, IInv
<1>2. r.files = MoveMarker(g.files, g.at, m) /\ r.recent = g.at /\ r.nextLoc = g.next
  BY DEF EncodeLineCol, Returned
<1> HIDE DEF g, m, r
<1>3. Call(r)
  BY DEF r
<1> DEFINE gs == MoveMarker(g.files, g.at, m)
<1>4. /\ TableOK(gs, g.next) /\ Len(gs) = Len(g.files) /\ Ends(gs, g.next)
      /\ OpenedOf(gs) = OpenedOf(g.files) /\ HashOf(gs) = HashOf(g.files)
  BY <1>1, MarkerNotSeen
<1> HIDE DEF gs
<1>5. r.files = gs
  BY <1>2 DEF gs
<1> QED
  BY <1>1, <1>2, <1>3, <1>4, <1>5, CallRefines

LEMMA DecodeLineColRefines ==
  ASSUME IInvEnds, NEW loc \in KnownLocs, Call(DecodeLineCol(loc))
  PROVE  Refines
<1> DEFINE at == FindFileWithLoc(loc)
           m == CharToLineCol(files[at], loc - files[at].start).marker
           r == DecodeLineCol(loc)
<1>1. at \in 1..Len(files)
  BY FoundWithLoc DEF IInvEnds
<1>2. r.files = MoveMarker(files, at, m) /\ r.recent = at /\ r.nextLoc = nextLoc
  BY DEF DecodeLineCol, Returned
<1> HIDE DEF at, m, r
<1>3. Call(r)
  BY DEF r
<1> DEFINE gs == MoveMarker(files, at, m)
<1>4. /\ TableOK(gs, nextLoc) /\ Len(gs) = Len(files) /\ Ends(gs, nextLoc)
      /\ OpenedOf(gs) = OpenedOf(files) /\ HashOf(gs) = HashOf(files)
  BY <1>1, MarkerNotSeen DEF IInvEnds, IInv
<1> HIDE DEF gs
<1>5. r.files = gs
  BY <1>2 DEF gs
<1> QED
  BY <1>1, <1>2, <1>3, <1>4, <1>5, CallRefines

LEMMA DecodeOffsetRefines ==
  ASSUME IInvEnds, NEW loc \in KnownLocs, Decodable(loc), Call(DecodeOffset(loc))
  PROVE  Refines
<1> DEFINE at == FindFileWithLoc(loc)
           from == CharToLineCol(files[at], loc - files[at].start)
           to == MapLine(files[at], from.line)
           moved == MoveMarker(files, at, from.marker)
           g == GetFile(moved, at, to.name)
           m == LineColToChar(g.files[g.at], to.line, from.col).marker
           r == DecodeOffset(loc)
<1>1. at \in 1..Len(files)
  BY FoundWithLoc DEF IInvEnds
<1>2. CASE ~ UsesHashLines(files[at])
  <2>1. r.files = files /\ r.recent = at /\ r.nextLoc = nextLoc
    BY <1>2 DEF DecodeOffset, Returned
  <2> HIDE DEF at, r
  <2>2. Call(r)
    BY DEF r
  <2> QED
    BY <2>1, <2>2, <1>1, CallRefines DEF IInvEnds, IInv
<1>3. CASE UsesHashLines(files[at])
  <2>1. /\ r.files = MoveMarker(g.files, g.at, m)
        /\ r.recent = g.at /\ r.nextLoc = g.next
    BY <1>3 DEF DecodeOffset, Returned
  <2>2. to.name \in Names
    BY <1>3 DEF Decodable, MappedLine
  <2>3. Call(r)
    OBVIOUS
  <2> HIDE DEF r, m
  <2>4. /\ TableOK(moved, nextLoc) /\ Len(moved) = Len(files) /\ Ends(moved, nextLoc)
        /\ OpenedOf(moved) = OpenedOf(files) /\ HashOf(moved) = HashOf(files)
    <3> HIDE DEF at, from
    <3> QED
      BY <1>1, MarkerNotSeen DEF IInvEnds, IInv
  <2>5. /\ TableOK(g.files, g.next) /\ Ends(g.files, g.next) /\ g.at \in 1..Len(g.files)
        /\ OpenedOf(g.files) = Locs!Opened(OpenedOf(moved), to.name)
        /\ HashOf(g.files) = HashOf(moved)
    <3>1. at \in 0..Len(moved) /\ disk \in Disks
      BY <1>1, <2>4 DEF IInvEnds, IInv
    <3> HIDE DEF at, to, moved
    <3> QED
      BY <3>1, <2>2, <2>4, GetFileOpens
  <2> DEFINE gs == MoveMarker(g.files, g.at, m)
  <2> HIDE DEF g
  <2>6. /\ TableOK(gs, g.next) /\ Len(gs) = Len(g.files) /\ Ends(gs, g.next)
        /\ OpenedOf(gs) = OpenedOf(g.files) /\ HashOf(gs) = HashOf(g.files)
    BY <2>5, MarkerNotSeen
  <2> HIDE DEF gs, moved, to
  <2>7. r.files = gs
    BY <2>1 DEF gs
  <2>8. OpenedOf(gs) = Locs!Opened(OpenedOf(files), to.name)
    BY <2>4, <2>5, <2>6
  <2> QED
    BY <2>1, <2>2, <2>3, <2>4, <2>5, <2>6, <2>7, <2>8, CallRefines
<1> QED
  BY <1>2, <1>3

(* The directives of a file are those of its name.                         *)
LEMMA HashOfFile ==
  ASSUME NEW fs, NEW next, TableOK(fs, next), NEW at \in 1..Len(fs)
  PROVE  HashOf(fs)[fs[at].name] = fs[at].hash
<1>1. DOMAIN fs = 1..Len(fs) /\ \A i \in 1..Len(fs) : IsFile(fs[i])
  BY DEF TableOK, IsTable
<1>2. fs[at].name \in Names
  BY <1>1 DEF IsFile
<1> DEFINE n == fs[at].name
           k == CHOOSE i \in DOMAIN fs : fs[i].name = n
<1>3. k \in DOMAIN fs /\ fs[k].name = n
  BY <1>1
<1>4. HashOf(fs)[n] = fs[k].hash
  BY <1>1, <1>2 DEF HashOf
<1> HIDE DEF k
<1>5. k = at
  BY <1>1, <1>3 DEF TableOK, Distinct
<1> QED
  BY <1>4, <1>5

LEMMA AddHashLineRefines ==
  ASSUME IInvEnds, NEW name \in Names, AddHashLine(name)
  PROVE  Refines
<1> DEFINE g == GetFile(files, recent, name)
           fs == g.files
           n == Len(fs[g.at].hash) + 1
           d == disk.directives[name][n]
           h == Append(fs[g.at].hash, d)
           f == [fs[g.at] EXCEPT !.hash = h]
<1>1. /\ TableOK(fs, g.next) /\ Ends(fs, g.next)
      /\ g.at \in 1..Len(fs) /\ fs[g.at].name = name
      /\ OpenedOf(fs) = Locs!Opened(OpenedOf(files), name)
      /\ HashOf(fs) = HashOf(files)
  BY GetFileOpens DEF IInvEnds, IInv
<1>2. /\ files' = [fs EXCEPT ![g.at] = f] /\ recent' = g.at /\ nextLoc' = g.next
      /\ UNCHANGED <<disk, useHashLines, statics, nextStaticLoc>>
      /\ n \in DOMAIN disk.directives[name]
  BY DEF AddHashLine
<1>3. IInv'
  BY AddHashLineStep DEF IInvEnds
<1>4. fs[g.at].hash = HashOf(files)[name]
  <2> HIDE DEF g
  <2> QED
    BY <1>1, HashOfFile
<1>5. /\ fs = [i \in 1..Len(fs) |-> fs[i]] /\ Len(fs) \in Nat
      /\ IsFile(fs[g.at])
  <2> HIDE DEF g
  <2> QED
    BY <1>1 DEF TableOK, IsTable
<1>6. d \in Directive
  BY <1>2, DiskTypes DEF IInvEnds, IInv
<1>7. h \in Seq(Directive)
  <2> HIDE DEF g, d
  <2> QED
    BY <1>5, <1>6 DEF IsFile
<1> HIDE DEF g, n, d, h
<1>8. /\ IsFile(f) /\ f.name = name /\ f.start = fs[g.at].start /\ f.hash = h
      /\ f.numChars = fs[g.at].numChars
  <2>1. fs[g.at] = [x \in Fields |-> fs[g.at][x]]
    BY <1>5 DEF IsFile
  <2>2. f.hash = h
    BY <2>1 DEF Fields
  <2>3. IsFile(f) /\ f.name = name /\ f.start = fs[g.at].start
    BY <1>1, <1>5, <1>7, Updated
  <2>4. f.numChars = fs[g.at].numChars
    BY <2>1 DEF Fields
  <2> QED
    BY <2>2, <2>3, <2>4
<1> HIDE DEF f
<1> DEFINE gs == [fs EXCEPT ![g.at] = f]
<1>9. /\ TableOK(gs, g.next) /\ Len(gs) = Len(fs)
      /\ \A i \in 1..Len(fs) : gs[i].name = fs[i].name
      /\ \A i \in 1..Len(fs) : gs[i].start = fs[i].start
  BY <1>1, <1>8, SameFiles
<1>10. \A i \in 1..Len(fs) : gs[i] = IF i = g.at THEN f ELSE fs[i]
  BY <1>5
<1>11. files' = gs
  BY <1>2
<1>12. DOMAIN fs = 1..Len(fs) /\ DOMAIN gs = 1..Len(fs)
  BY <1>5
<1> HIDE DEF gs
<1>13. Ends(gs, g.next)
  <2>1. Len(fs) # 0 => Len(fs) \in 1..Len(fs)
    BY <1>5
  <2>2. \A i \in 1..Len(fs) : gs[i].numChars = fs[i].numChars
    BY <1>8, <1>10
  <2> QED
    BY <2>1, <2>2, <1>1, <1>9 DEF Ends
<1>14. OpenedOf(gs) = OpenedOf(fs)
  BY <1>9, <1>12 DEF OpenedOf
<1>15. HashOf(gs) = [HashOf(files) EXCEPT ![name] = h]
  <2>1. HashOf(gs)[name] = h
    BY <1>1, <1>8, <1>9, <1>10, HashOfFile
  <2>2. ASSUME NEW m \in Names, m # name PROVE HashOf(gs)[m] = HashOf(fs)[m]
    <3>1. CASE \E i \in 1..Len(fs) : fs[i].name = m
      <4>1. PICK i \in 1..Len(fs) : fs[i].name = m
        BY <3>1
      <4>2. gs[i] = fs[i]
        BY <4>1, <2>2, <1>1, <1>10
      <4>3. HashOf(fs)[m] = fs[i].hash
        BY <4>1, <1>1, HashOfFile
      <4>4. HashOf(gs)[m] = gs[i].hash
        BY <4>1, <4>2, <1>9, HashOfFile
      <4> QED
        BY <4>2, <4>3, <4>4
    <3>2. CASE ~ \E i \in 1..Len(fs) : fs[i].name = m
      <4>1. ~ \E i \in 1..Len(fs) : gs[i].name = m
        BY <3>2, <1>9
      <4> QED
        BY <3>2, <4>1, <1>12, <2>2 DEF HashOf
    <3> QED
      BY <3>1, <3>2
  <2>3. /\ HashOf(gs) = [m \in Names |-> HashOf(gs)[m]]
        /\ HashOf(fs) = [m \in Names |-> HashOf(fs)[m]]
    BY DEF HashOf
  <2> HIDE DEF HashOf
  <2> QED
    BY <2>1, <2>2, <2>3, <1>1
<1>16. IInvEnds'
  BY <1>2, <1>3, <1>11, <1>13 DEF IInvEnds, Ends
<1>17. Locs!AddHashLine(name)
  <2>1. /\ OpenedOf(files)' = Locs!Opened(OpenedOf(files), name)
        /\ HashOf(files)' = [HashOf(files) EXCEPT ![name] = h]
    BY <1>1, <1>11, <1>14, <1>15 DEF OpenedOf, HashOf
  <2>2. h = Append(HashOf(files)[name],
                   disk.directives[name][Len(HashOf(files)[name]) + 1])
    BY <1>4 DEF h, d, n
  <2>3. Len(HashOf(files)[name]) + 1 \in DOMAIN disk.directives[name]
    BY <1>2, <1>4 DEF n
  <2>4. HashOf(files)' = [HashOf(files) EXCEPT ![name] =
          Append(@, disk.directives[name][Len(HashOf(files)[name]) + 1])]
    BY <2>1, <2>2
  <2> QED
    BY <2>1, <2>3, <2>4, <1>2 DEF Locs!AddHashLine, OpenedOf, HashOf
<1> QED
  BY <1>16, <1>17 DEF Refines, Locs!Next

LEMMA EncodeStaticRefines ==
  ASSUME IInvEnds, NEW s \in StaticLoc, EncodeStatic(s)
  PROVE  Refines
<1>1. UNCHANGED <<files, nextLoc>>
  BY DEF EncodeStatic, filesVars
<1>2. IInvEnds'
  BY <1>1, EncodeStaticStep DEF IInvEnds, Ends
<1>3. Locs!EncodeStatic(s)
  BY <1>1 DEF EncodeStatic, Locs!EncodeStatic
<1> QED
  BY <1>2, <1>3 DEF Refines, Locs!Next

LEMMA InitRefines == Init => IInvEnds /\ Locs!Init
<1> SUFFICES ASSUME Init PROVE IInvEnds /\ Locs!Init
  OBVIOUS
<1>1. IInvEnds
  BY InitIInv DEF IInvEnds, Init, Ends
<1>2. OpenedOf(files) = << >> /\ HashOf(files) = [n \in Names |-> << >>]
  BY DEF Init, OpenedOf, HashOf
<1>3. Locs!Init
  BY <1>2 DEF Init, Locs!Init, OpenedOf, HashOf
<1> QED
  BY <1>1, <1>3

(* Every call is a step of Locations or changes nothing it sees.           *)
LEMMA StepRefines == IInvEnds /\ [Next]_vars => Refines
<1> SUFFICES ASSUME IInvEnds, [Next]_vars PROVE Refines
  OBVIOUS
<1>1. ASSUME NEW name \in Names, NEW offset \in Offsets(name),
             Call(EncodeOffset(name, offset))
      PROVE  Refines
  BY <1>1, EncodeOffsetRefines
<1>2. ASSUME NEW name \in Names, NEW at \in LineCols(name),
             Call(EncodeLineCol(name, at[1], at[2]))
      PROVE  Refines
  BY <1>2, EncodeLineColRefines
<1>3. ASSUME NEW name \in Names, AddHashLine(name) PROVE Refines
  BY <1>3, AddHashLineRefines
<1>4. ASSUME NEW s \in StaticLoc, EncodeStatic(s) PROVE Refines
  BY <1>4, EncodeStaticRefines
<1>5. ASSUME NEW loc \in KnownLocs, Call(DecodeLineCol(loc)) PROVE Refines
  BY <1>5, DecodeLineColRefines
<1>6. ASSUME NEW loc \in KnownLocs, Decodable(loc), Call(DecodeOffset(loc)) PROVE Refines
  BY <1>6, DecodeOffsetRefines
<1>7. CASE UNCHANGED vars
  <2>1. UNCHANGED <<disk, useHashLines, files, recent, nextLoc, statics, nextStaticLoc>>
    BY <1>7 DEF vars, filesVars
  <2>2. IInv'
    BY <1>7, IInvInductive DEF IInvEnds
  <2>3. IInvEnds'
    BY <2>1, <2>2 DEF IInvEnds, Ends
  <2>4. UNCHANGED Locs!vars
    BY <2>1 DEF Locs!vars
  <2> QED
    BY <2>3, <2>4 DEF Refines
<1> QED
  BY <1>1, <1>2, <1>3, <1>4, <1>5, <1>6, <1>7 DEF Next

(* Whatever is cached and in whatever order it is asked, SourceLocManager  *)
(* opens the files, and notes their directives and the static locations, as*)
(* the specification does that has no caches: a location never depends on  *)
(* what the searches have left behind.                                     *)
THEOREM LocationsImplemented == Spec => ImplementsLocations
BY InitRefines, StepRefines, PTL DEF Refines, Spec, ImplementsLocations, Locs!Spec

-----------------------------------------------------------------------------
(* The newlines of a text in their order.                                  *)
LEMMA NewlinesAre ==
  ASSUME NEW t \in Text
  PROVE  /\ t.size \in Nat /\ t.newlines \in SUBSET Int /\ IsFiniteSet(t.newlines)
         /\ t.newlines \subseteq 0..(t.size - 1)
         /\ Cardinality(t.newlines) \in Nat
         /\ \A i \in 1..Cardinality(t.newlines) :
              /\ Newlines(t)[i] \in t.newlines
              /\ Cardinality({q \in t.newlines : q < Newlines(t)[i]}) = i - 1
         /\ \A i, j \in 1..Cardinality(t.newlines) : i < j => Newlines(t)[i] < Newlines(t)[j]
         /\ \A p \in t.newlines : \E i \in 1..Cardinality(t.newlines) : Newlines(t)[i] = p
<1> DEFINE S == t.newlines
           N == Cardinality(S)
           Lower(p) == {q \in S : q < p}
<1>1. /\ t.size \in Nat /\ S \in SUBSET Int /\ IsFiniteSet(S) /\ S \subseteq 0..(t.size - 1)
  BY DEF Text
<1>2. N \in Nat
  BY <1>1, FS_CardinalityType
<1>3. TotalOrder(Smaller(S), S) /\ \A x \in S : Behind(Smaller(S), S, x) = Lower(x)
  <2> HIDE DEF S
  <2> QED
    BY ONLY <1>1, NumbersOrdered
<1>4. /\ \A x \in S : Cardinality(Lower(x)) \in 0..(N - 1)
      /\ \A x, z \in S : <<x, z>> \in Smaller(S) <=> Cardinality(Lower(x)) < Cardinality(Lower(z))
      /\ \A x, z \in S : Cardinality(Lower(x)) = Cardinality(Lower(z)) => x = z
      /\ \A i \in 0..(N - 1) : \E x \in S : Cardinality(Lower(x)) = i
  <2> HIDE DEF S, Lower
  <2>1. IsFiniteSet(S)
    BY <1>1
  <2>2. \A x \in S : Cardinality(Behind(Smaller(S), S, x)) \in 0..(N - 1)
    BY <1>3, <2>1, Places
  <2>3. \A x, z \in S : <<x, z>> \in Smaller(S) <=>
          Cardinality(Behind(Smaller(S), S, x)) < Cardinality(Behind(Smaller(S), S, z))
    BY <1>3, <2>1, Places
  <2>4. \A x, z \in S : Cardinality(Behind(Smaller(S), S, x)) = Cardinality(Behind(Smaller(S), S, z)) => x = z
    BY <1>3, <2>1, Places
  <2>5. \A i \in 0..(N - 1) : \E x \in S : Cardinality(Behind(Smaller(S), S, x)) = i
    BY <1>3, <2>1, Places
  <2> QED
    BY ONLY <1>3, <2>2, <2>3, <2>4, <2>5
<1>5. ASSUME NEW i \in 1..N
      PROVE  Newlines(t)[i] \in S /\ Cardinality(Lower(Newlines(t)[i])) = i - 1
  <2>1. i - 1 \in 0..(N - 1)
    BY <1>2
  <2>2. \E p \in S : Cardinality(Lower(p)) = i - 1
    BY <1>4, <2>1
  <2>3. Newlines(t)[i] = CHOOSE p \in S : Cardinality(Lower(p)) = i - 1
    BY DEF Newlines
  <2> HIDE DEF S, Lower
  <2> QED
    BY ONLY <2>2, <2>3
<1>6. ASSUME NEW i \in 1..N, NEW j \in 1..N, i < j PROVE Newlines(t)[i] < Newlines(t)[j]
  <2>1. <<Newlines(t)[i], Newlines(t)[j]>> \in Smaller(S)
    <3> HIDE DEF S, Lower
    <3> QED
      BY <1>2, <1>4, <1>5, <1>6
  <2> QED
    BY <2>1 DEF Smaller
<1>7. ASSUME NEW p \in S PROVE \E i \in 1..N : Newlines(t)[i] = p
  <2>1. Cardinality(Lower(p)) \in 0..(N - 1)
    BY <1>4
  <2>2. Cardinality(Lower(p)) + 1 \in 1..N
    BY <1>2, <2>1
  <2>3. Newlines(t)[Cardinality(Lower(p)) + 1] = p
    <3> HIDE DEF S, Lower
    <3>1. Cardinality(Lower(Newlines(t)[Cardinality(Lower(p)) + 1])) = Cardinality(Lower(p))
      BY <1>2, <1>5, <2>1, <2>2
    <3> QED
      BY <1>4, <1>5, <2>2, <3>1
  <2> QED
    BY <2>2, <2>3
<1> QED
  BY <1>1, <1>2, <1>5, <1>6, <1>7

(* The lines of a text follow one another, with a newline between them, up *)
(* to its end.                                                             *)
NL(t) == Cardinality(t.newlines)
LinesOf(t) == 1..(NL(t) + 1)
LEMMA LinesAre ==
  ASSUME NEW t \in Text
  PROVE  /\ NL(t) \in Nat /\ t.size \in Nat /\ Start(t, 1) = 0
         /\ \A l \in LinesOf(t) : Start(t, l) \in Nat /\ Length(t, l) \in Nat
         /\ \A l \in 1..NL(t) : Start(t, l + 1) = Start(t, l) + Length(t, l) + 1
         /\ Start(t, NL(t) + 1) + Length(t, NL(t) + 1) = t.size
<1> DEFINE N == Cardinality(t.newlines)
<1>1. N \in Nat /\ NL(t) = N /\ t.size \in Nat
  BY NewlinesAre DEF NL
<1>2. \A i \in 1..N : Newlines(t)[i] \in 0..(t.size - 1)
  BY NewlinesAre
<1>3. ASSUME NEW l \in 1..(N + 1)
      PROVE  Start(t, l) \in Nat /\ Length(t, l) \in Nat
             /\ (l \in 1..N => Start(t, l) + Length(t, l) = Newlines(t)[l])
             /\ (l = N + 1 => Start(t, l) + Length(t, l) = t.size)
  <2>1. l # 1 => l - 1 \in 1..N
    BY <1>1
  <2>2. l # 1 /\ l \in 1..N => Newlines(t)[l - 1] < Newlines(t)[l]
    BY <1>1, <2>1, NewlinesAre
  <2>3. l <= N <=> l \in 1..N
    BY <1>1
  <2> QED
    BY <1>1, <1>2, <2>1, <2>2, <2>3 DEF Start, Length
<1>4. ASSUME NEW l \in 1..N PROVE Start(t, l + 1) = Start(t, l) + Length(t, l) + 1
  <2>1. l + 1 # 1 /\ l \in 1..(N + 1)
    BY <1>1
  <2> QED
    BY <1>1, <1>3, <2>1 DEF Start
<1>5. Start(t, 1) = 0 /\ N + 1 \in 1..(N + 1)
  BY <1>1 DEF Start
<1> QED
  BY <1>1, <1>3, <1>4, <1>5 DEF LinesOf

(* The newlines before a place of a line are as many as the lines before it.*)
LEMMA NewlinesBefore ==
  ASSUME NEW t \in Text, NEW l \in LinesOf(t),
         NEW p \in Start(t, l)..(Start(t, l) + Length(t, l))
  PROVE  Cardinality({q \in t.newlines : q < p}) = l - 1
<1> DEFINE S == t.newlines
           N == Cardinality(S)
           Lower(x) == {q \in S : q < x}
<1>1. /\ N \in Nat /\ S \in SUBSET Int /\ IsFiniteSet(S) /\ l \in 1..(N + 1) /\ t.size \in Nat
      /\ \A q \in S : q \in 0..(t.size - 1)
  BY NewlinesAre DEF LinesOf, NL
<1>2. /\ \A i \in 1..N : Newlines(t)[i] \in S /\ Cardinality(Lower(Newlines(t)[i])) = i - 1
      /\ \A i, j \in 1..N : i < j => Newlines(t)[i] < Newlines(t)[j]
      /\ \A q \in S : \E i \in 1..N : Newlines(t)[i] = q
  BY NewlinesAre
<1>3. p \in Int /\ (l <= N => p <= Newlines(t)[l]) /\ (l # 1 => Newlines(t)[l - 1] < p)
  <2>1. Start(t, l) \in Nat /\ Length(t, l) \in Nat
    BY LinesAre
  <2>2. l <= N => Length(t, l) = Newlines(t)[l] - Start(t, l) /\ Newlines(t)[l] \in Int
    <3>1. l <= N => l \in 1..N
      BY <1>1
    <3> QED
      BY <1>1, <1>2, <3>1 DEF Length
  <2>3. l # 1 => Start(t, l) = Newlines(t)[l - 1] + 1 /\ Newlines(t)[l - 1] \in Int
    <3>1. l # 1 => l - 1 \in 1..N
      BY <1>1
    <3> QED
      BY <1>1, <1>2, <3>1 DEF Start
  <2> QED
    BY <2>1, <2>2, <2>3
<1>8. \A i, j \in 1..N : i <= j => Newlines(t)[i] <= Newlines(t)[j]
  <2>1. ASSUME NEW i \in 1..N, NEW j \in 1..N, i <= j PROVE Newlines(t)[i] <= Newlines(t)[j]
    <3>1. Newlines(t)[i] \in Int /\ Newlines(t)[j] \in Int
      BY <1>1, <1>2
    <3>2. i = j \/ i < j
      BY <1>1, <2>1
    <3>3. i < j => Newlines(t)[i] < Newlines(t)[j]
      BY <1>2
    <3> QED
      BY <3>1, <3>2, <3>3
  <2> QED
    BY <2>1
<1>9. \A i \in 1..N : Newlines(t)[i] \in Int
  BY <1>1, <1>2
<1>4. ASSUME NEW i \in 1..N PROVE Newlines(t)[i] < p <=> i < l
  <2>1. CASE i >= l
    <3>1. l \in 1..N
      BY <1>1, <2>1
    <3>2. Newlines(t)[l] <= Newlines(t)[i]
      BY <1>8, <2>1, <3>1
    <3>3. p <= Newlines(t)[l] /\ Newlines(t)[l] \in Int /\ Newlines(t)[i] \in Int /\ p \in Int
      BY <1>1, <1>3, <1>9, <3>1
    <3> QED
      BY <2>1, <3>2, <3>3, <1>1
  <2>2. CASE i < l
    <3>1. l # 1 /\ l - 1 \in 1..N /\ i <= l - 1
      BY <1>1, <2>2
    <3>2. Newlines(t)[i] <= Newlines(t)[l - 1]
      BY <1>8, <3>1
    <3>3. Newlines(t)[l - 1] < p /\ Newlines(t)[l - 1] \in Int /\ Newlines(t)[i] \in Int /\ p \in Int
      BY <1>3, <1>9, <3>1
    <3> QED
      BY <2>2, <3>2, <3>3, <1>1
  <2> QED
    BY <1>1, <2>1, <2>2
<1>5. CASE l = 1
  <2>1. Lower(p) = {}
    <3>1. \A q \in S : ~ q < p
      BY <1>1, <1>2, <1>4, <1>5
    <3> QED
      BY <3>1
  <2> QED
    BY <1>5, <2>1, FS_EmptySet
<1>6. CASE l # 1
  <2> DEFINE b == Newlines(t)[l - 1]
  <2>1. l - 1 \in 1..N /\ b \in S /\ b < p /\ Cardinality(Lower(b)) = l - 2
    BY <1>1, <1>2, <1>3, <1>6
  <2>2. Lower(p) = Lower(b) \cup {b}
    <3>1. ASSUME NEW q \in S PROVE q < p <=> q < b \/ q = b
      <4>1. PICK i \in 1..N : Newlines(t)[i] = q
        BY <1>2
      <4>2. i < l <=> i < l - 1 \/ i = l - 1
        BY <1>1
      <4>3. i < l - 1 => q < b
        BY <1>2, <2>1, <4>1
      <4>4. q < b => q < p
        BY <1>1, <1>3, <2>1
      <4> QED
        BY <1>4, <2>1, <4>1, <4>2, <4>3, <4>4
    <3> QED
      BY <2>1, <3>1
  <2>3. IsFiniteSet(Lower(b)) /\ b \notin Lower(b)
    BY <1>1, <2>1, FS_Subset
  <2>4. Cardinality(Lower(p)) = Cardinality(Lower(b)) + 1
    <3> HIDE DEF Lower, b
    <3> QED
      BY <2>2, <2>3, FS_AddElement
  <2> QED
    BY <1>1, <2>1, <2>4
<1> QED
  BY <1>5, <1>6

-----------------------------------------------------------------------------
LEMMA Stepwise ==
  ASSUME NEW n \in Nat, NEW S, 0 \in S, \A k \in 1..n : k - 1 \in S => k \in S
  PROVE  \A k \in 0..n : k \in S
<1> DEFINE f == [k \in 0..n |-> k]
           V == [k \in 0..n |-> S]
<1>1. f[0] \in V[0]
  OBVIOUS
<1>2. ASSUME NEW k \in 1..n, f[k - 1] \in V[k - 1] PROVE f[k] \in V[k]
  <2>1. k - 1 \in 0..n /\ k \in 0..n
    OBVIOUS
  <2> QED
    BY <1>2, <2>1
<1>3. \A k \in 0..n : f[k] \in V[k]
  <2> HIDE DEF f, V
  <2> QED
    BY ONLY <1>1, <1>2, n \in Nat, StaysIn
<1> QED
  BY <1>3

(* The characters that a number of parts stand for.                        *)
Skip(j) == j * (LongLine - 1)
LEMMA Skips ==
  /\ \A a \in Nat : Skip(a) \in Nat /\ Skip(a + 1) = Skip(a) + (LongLine - 1)
  /\ Skip(0) = 0
  /\ \A a, b \in Nat : Skip(a + b) = Skip(a) + Skip(b)
  /\ \A a, b \in Nat : a < b => Skip(a) + (LongLine - 1) <= Skip(b)
<1> DEFINE d == LongLine - 1
<1>1. d \in Nat /\ d >= 1
  BY SourceFileAssumption
<1>2. /\ \A a \in Nat : a * d \in Nat /\ (a + 1) * d = a * d + d
      /\ 0 * d = 0
      /\ \A a, b \in Nat : (a + b) * d = a * d + b * d
  <2> HIDE DEF d
  <2> QED
    BY ONLY <1>1
<1>3. ASSUME NEW a \in Nat, NEW b \in Nat, a < b PROVE a * d + d <= b * d
  <2>1. PICK c \in Nat : b = (a + 1) + c
    <3>1. b - (a + 1) \in Nat /\ b = (a + 1) + (b - (a + 1))
      BY <1>3
    <3> QED
      BY <3>1
  <2> HIDE DEF d
  <2>2. b * d = (a + 1) * d + c * d
    BY <1>2, <2>1
  <2> QED
    BY <1>1, <1>2, <2>2
<1> QED
  BY <1>2, <1>3 DEF Skip

LEMMA Joined ==
  ASSUME NEW S, NEW a \in Seq(S), NEW b \in Seq(S)
  PROVE  /\ a \o b \in Seq(S) /\ Len(a \o b) = Len(a) + Len(b)
         /\ \A i \in 1..Len(a) : (a \o b)[i] = a[i]
         /\ \A i \in 1..Len(b) : (a \o b)[Len(a) + i] = b[i]
<1>1. a \o b \in Seq(S) /\ Len(a \o b) = Len(a) + Len(b)
  OBVIOUS
<1>2. \A i \in 1..Len(a) : (a \o b)[i] = a[i]
  OBVIOUS
<1>3. ASSUME NEW i \in 1..Len(b) PROVE (a \o b)[Len(a) + i] = b[i]
  <2>1. Len(a) \in Nat /\ Len(b) \in Nat /\ i \in Nat /\ 1 <= i /\ i <= Len(b)
    OBVIOUS
  <2>2. Len(a) + i \in 1..(Len(a) + Len(b)) /\ ~ Len(a) + i <= Len(a) /\ (Len(a) + i) - Len(a) = i
    BY ONLY <2>1
  <2> QED
    BY <2>1, <2>2
<1> QED
  BY <1>1, <1>2, <1>3

(* A line takes an entry for each of its parts and one for the rest, which *)
(* is not empty if there are parts.                                        *)
Parts(t, l) ==
  IF Length(t, l) < LongLine THEN 0 ELSE (Length(t, l) - 1) \div (LongLine - 1)
Rest(t, l) == Length(t, l) - Skip(Parts(t, l))
LEMMA PartsAre ==
  ASSUME NEW t \in Text, NEW l \in LinesOf(t)
  PROVE  /\ Parts(t, l) \in Nat /\ Rest(t, l) \in 0..(LongLine - 1)
         /\ Length(t, l) = Skip(Parts(t, l)) + Rest(t, l)
         /\ Parts(t, l) > 0 => Rest(t, l) >= 1
<1> DEFINE d == LongLine - 1
           len == Length(t, l)
           q == (len - 1) \div d
<1>1. d \in Nat /\ d >= 1 /\ LongLine = d + 1
  BY SourceFileAssumption
<1>2. len \in Nat
  BY LinesAre
<1>3. CASE len < LongLine
  <2>1. Parts(t, l) = 0 /\ Skip(Parts(t, l)) = 0
    BY <1>3, Skips DEF Parts
  <2>2. Rest(t, l) = len
    BY <1>2, <2>1 DEF Rest
  <2> HIDE DEF len, d
  <2> QED
    BY <1>1, <1>2, <1>3, <2>1, <2>2 DEF d, len
<1>4. CASE ~ len < LongLine
  <2>1. len - 1 \in Nat /\ len - 1 >= d
    BY <1>1, <1>2, <1>4
  <2>2. q \in Nat /\ q * d <= len - 1 /\ len - 1 < q * d + d
    <3> HIDE DEF d, len
    <3> QED
      BY ONLY <1>1, <2>1
  <2>3. Parts(t, l) = q /\ Skip(Parts(t, l)) = q * d
    BY <1>4 DEF Parts, Skip
  <2>4. Rest(t, l) = len - q * d /\ q * d \in Nat
    BY <1>1, <2>2, <2>3, Skips DEF Rest
  <2> HIDE DEF d, len, q
  <2>5. Rest(t, l) \in 0..d /\ Rest(t, l) >= 1 /\ len = q * d + Rest(t, l)
    BY <1>1, <1>2, <2>1, <2>2, <2>4
  <2> QED
    BY <1>1, <2>2, <2>3, <2>5 DEF d, len
<1> QED
  BY <1>3, <1>4
LEMMA LineEntries ==
  ASSUME NEW t \in Text, NEW l \in LinesOf(t)
  PROVE  /\ LineLength(Length(t, l)) \in Seq(0..LongLine)
         /\ Len(LineLength(Length(t, l))) = Parts(t, l) + 1
         /\ \A j \in 1..Parts(t, l) : LineLength(Length(t, l))[j] = LongLine
         /\ LineLength(Length(t, l))[Parts(t, l) + 1] = Rest(t, l)
<1> DEFINE p == Parts(t, l)
           r == Rest(t, l)
           a == [i \in 1..p |-> LongLine]
           b == <<r>>
<1>1. p \in Nat /\ r \in 0..LongLine /\ LongLine \in 0..LongLine
  BY PartsAre, SourceFileAssumption
<1>2. LineLength(Length(t, l)) = a \o b
  BY DEF LineLength, Parts, Rest, Skip
<1>3. a \in Seq(0..LongLine) /\ Len(a) = p /\ \A j \in 1..p : a[j] = LongLine
  <2> HIDE DEF p
  <2> QED
    BY <1>1
<1>4. b \in Seq(0..LongLine) /\ Len(b) = 1 /\ b[1] = r
  BY <1>1
<1> HIDE DEF a, b, p, r
<1>5. /\ a \o b \in Seq(0..LongLine) /\ Len(a \o b) = p + 1
      /\ \A j \in 1..p : (a \o b)[j] = LongLine
      /\ (a \o b)[p + 1] = r
  <2>1. /\ a \o b \in Seq(0..LongLine) /\ Len(a \o b) = Len(a) + Len(b)
        /\ \A i \in 1..Len(a) : (a \o b)[i] = a[i]
        /\ \A i \in 1..Len(b) : (a \o b)[Len(a) + i] = b[i]
    <3>1. PICK S : S = 0..LongLine
      OBVIOUS
    <3>2. a \in Seq(S) /\ b \in Seq(S)
      BY ONLY <1>3, <1>4, <3>1
    <3>3. a \o b \in Seq(S) /\ Len(a \o b) = Len(a) + Len(b)
      BY ONLY <3>2, Joined
    <3>4. \A i \in 1..Len(a) : (a \o b)[i] = a[i]
      BY ONLY <3>2, Joined
    <3>5. \A i \in 1..Len(b) : (a \o b)[Len(a) + i] = b[i]
      BY ONLY <3>2, Joined
    <3> QED
      BY ONLY <3>1, <3>3, <3>4, <3>5
  <2>2. 1 \in 1..Len(b)
    BY <1>4
  <2> QED
    BY ONLY <1>1, <1>3, <1>4, <2>1, <2>2
<1> QED
  BY <1>2, <1>5 DEF p, r

-----------------------------------------------------------------------------
(* The line lengths of one line more.                                      *)
IsUpTo(t, n, f) ==
  f = [i \in 0..n |-> IF i = 0 THEN << >> ELSE f[i - 1] \o LineLength(Length(t, i))]
LEMMA UpToExists ==
  ASSUME NEW t \in Text, NEW n \in 0..(NL(t) + 1)
  PROVE  \E f : /\ IsUpTo(t, n, f) /\ LengthsUpTo(t, n) = f[n]
                /\ \A k \in 0..n : f[k] \in Seq(0..LongLine)
<1> DEFINE S == Seq(0..LongLine)
           V == [k \in 0..n |-> S]
           v0 == << >>
           step == [e \in (1..n) \X S |-> e[2] \o LineLength(Length(t, e[1]))]
<1>1. n \in Nat /\ \A k \in 1..n : k \in LinesOf(t)
  BY LinesAre DEF LinesOf
<1>2. v0 \in V[0]
  BY <1>1
<1>3. ASSUME NEW k \in 1..n, NEW v \in S PROVE step[<<k, v>>] \in S /\ step[<<k, v>>] = v \o LineLength(Length(t, k))
  <2>1. <<k, v>> \in (1..n) \X S
    OBVIOUS
  <2>2. step[<<k, v>>] = v \o LineLength(Length(t, k))
    BY <2>1
  <2>3. LineLength(Length(t, k)) \in S
    BY <1>1, LineEntries
  <2> HIDE DEF step
  <2> QED
    BY <2>2, <2>3
<1>4. \A k \in 1..n : \A v \in V[k - 1] : step[<<k, v>>] \in V[k]
  <2>1. \A k \in 1..n : V[k - 1] = S /\ V[k] = S
    BY <1>1
  <2> HIDE DEF V, S, step
  <2> QED
    BY <1>3, <2>1
<1>5. PICK f : IsRun(f, n, v0, step, V)
  <2> HIDE DEF V, v0, step
  <2> QED
    BY ONLY <1>1, <1>2, <1>4, IteratedExists
<1>6. /\ f = [k \in 0..n |-> f[k]] /\ f[0] = << >>
      /\ \A k \in 1..n : f[k] = step[<<k, f[k - 1]>>]
      /\ \A k \in 0..n : f[k] \in S
  <2>1. \A k \in 0..n : V[k] = S
    OBVIOUS
  <2> HIDE DEF step, V
  <2> QED
    BY <1>5, <2>1 DEF IsRun
<1>7. IsUpTo(t, n, f)
  <2>1. ASSUME NEW k \in 0..n
        PROVE  f[k] = IF k = 0 THEN << >> ELSE f[k - 1] \o LineLength(Length(t, k))
    <3>1. CASE k = 0
      BY <1>6, <3>1
    <3>2. CASE k # 0
      <4>1. k \in 1..n /\ k - 1 \in 0..n
        BY <1>1, <3>2
      <4> HIDE DEF step
      <4> QED
        BY <1>3, <1>6, <3>2, <4>1
    <3> QED
      BY <3>1, <3>2
  <2> HIDE DEF step
  <2> QED
    BY <1>6, <2>1 DEF IsUpTo
<1>8. PICK g : IsUpTo(t, n, g) /\ LengthsUpTo(t, n) = g[n]
  <2>1. LengthsUpTo(t, n) = (CHOOSE g : IsUpTo(t, n, g))[n]
    BY DEF LengthsUpTo, IsUpTo
  <2> QED
    BY <1>7, <2>1
<1>9. \A k \in 0..n : g[k] \in S
  <2>1. g[0] \in S
    BY <1>1, <1>8 DEF IsUpTo
  <2>2. ASSUME NEW k \in 1..n, g[k - 1] \in S PROVE g[k] \in S
    <3>1. k \in 0..n /\ k # 0
      BY <1>1
    <3>2. g[k] = g[k - 1] \o LineLength(Length(t, k))
      BY <1>8, <3>1 DEF IsUpTo
    <3>3. LineLength(Length(t, k)) \in S
      BY <1>1, LineEntries
    <3> QED
      BY <2>2, <3>2, <3>3
  <2> DEFINE G == {k \in 0..n : g[k] \in S}
  <2>3. 0 \in G /\ \A k \in 1..n : k - 1 \in G => k \in G
    <3> HIDE DEF S
    <3> QED
      BY <1>1, <2>1, <2>2
  <2>4. \A k \in 0..n : k \in G
    <3> HIDE DEF G
    <3> QED
      BY ONLY <1>1, <2>3, Stepwise
  <2> QED
    BY <2>4
<1> QED
  BY <1>8, <1>9
LEMMA LengthsUnfold ==
  ASSUME NEW t \in Text
  PROVE  /\ LengthsUpTo(t, 0) = << >>
         /\ \A l \in 0..(NL(t) + 1) : LengthsUpTo(t, l) \in Seq(0..LongLine)
         /\ \A l \in LinesOf(t) :
              LengthsUpTo(t, l) = LengthsUpTo(t, l - 1) \o LineLength(Length(t, l))
<1> DEFINE m == NL(t) + 1
<1>1. m \in Nat /\ LinesOf(t) = 1..m
  BY LinesAre DEF LinesOf
<1>2. LengthsUpTo(t, 0) = << >>
  <2>1. 0 \in 0..m
    BY <1>1
  <2>2. PICK f : IsUpTo(t, 0, f) /\ LengthsUpTo(t, 0) = f[0]
    BY <2>1, UpToExists
  <2> QED
    BY <2>2 DEF IsUpTo
<1>3. ASSUME NEW l \in 1..m
      PROVE  LengthsUpTo(t, l) = LengthsUpTo(t, l - 1) \o LineLength(Length(t, l))
  <2>1. l \in 0..m /\ l - 1 \in 0..m /\ l \in Nat /\ l - 1 \in Nat /\ l # 0 /\ l \in 0..l /\ l - 1 \in 0..(l - 1)
    BY <1>1
  <2>2. PICK f : IsUpTo(t, l, f) /\ LengthsUpTo(t, l) = f[l]
    BY <2>1, UpToExists
  <2>3. PICK g : IsUpTo(t, l - 1, g) /\ LengthsUpTo(t, l - 1) = g[l - 1]
    BY <2>1, UpToExists
  <2> DEFINE G == {k \in 0..(l - 1) : f[k] = g[k]}
  <2>4. 0 \in G
    <3>1. 0 \in 0..l /\ 0 \in 0..(l - 1)
      BY <2>1
    <3>2. f[0] = << >> /\ g[0] = << >>
      BY <2>2, <2>3, <3>1 DEF IsUpTo
    <3> QED
      BY <3>1, <3>2
  <2>5. ASSUME NEW k \in 1..(l - 1), k - 1 \in G PROVE k \in G
    <3>1. k \in 0..l /\ k \in 0..(l - 1) /\ k # 0
      BY <2>1
    <3>2. f[k] = f[k - 1] \o LineLength(Length(t, k))
      BY <2>2, <3>1 DEF IsUpTo
    <3>3. g[k] = g[k - 1] \o LineLength(Length(t, k))
      BY <2>3, <3>1 DEF IsUpTo
    <3> QED
      BY <2>5, <3>1, <3>2, <3>3
  <2>6. \A k \in 0..(l - 1) : k \in G
    <3> HIDE DEF G
    <3> QED
      BY ONLY <2>1, <2>4, <2>5, Stepwise
  <2>7. f[l - 1] = g[l - 1]
    BY <2>1, <2>6
  <2>8. f[l] = f[l - 1] \o LineLength(Length(t, l))
    BY <2>1, <2>2 DEF IsUpTo
  <2> QED
    BY <2>2, <2>3, <2>7, <2>8
<1>4. ASSUME NEW l \in 0..m PROVE LengthsUpTo(t, l) \in Seq(0..LongLine)
  <2>1. PICK f : LengthsUpTo(t, l) = f[l] /\ \A k \in 0..l : f[k] \in Seq(0..LongLine)
    BY UpToExists
  <2>2. l \in 0..l
    BY <1>1
  <2> QED
    BY <2>1, <2>2
<1> QED
  BY <1>1, <1>2, <1>3, <1>4

(* The entries of all the lines: those of a line come after those of the   *)
(* lines before it, and nothing is behind those of the last one.           *)
Base(t, l) == Len(LengthsUpTo(t, l))
EntriesOf(t, e, m) ==
  /\ \A l \in 1..m : Base(t, l) <= Len(e) /\ Base(t, l - 1) \in Nat
                     /\ Base(t, l) = Base(t, l - 1) + Parts(t, l) + 1
  /\ \A l \in 1..m : \A j \in 1..Parts(t, l) : e[Base(t, l - 1) + j] = LongLine
  /\ \A l \in 1..m : e[Base(t, l - 1) + Parts(t, l) + 1] = Rest(t, l)
LEMMA EntriesMore ==
  ASSUME NEW t \in Text, NEW m \in LinesOf(t), EntriesOf(t, LengthsUpTo(t, m - 1), m - 1)
  PROVE  EntriesOf(t, LengthsUpTo(t, m), m)
<1> DEFINE e == LengthsUpTo(t, m - 1)
           x == LineLength(Length(t, m))
<1>1. m \in Nat /\ m >= 1 /\ m - 1 \in 0..(NL(t) + 1) /\ m \in 0..(NL(t) + 1) /\ \A l \in 1..m : l \in LinesOf(t)
  BY LinesAre DEF LinesOf
<1>2. PICK S : S = 0..LongLine
  OBVIOUS
<1>3. e \in Seq(S) /\ x \in Seq(S) /\ LengthsUpTo(t, m) = e \o x
  BY <1>1, <1>2, LengthsUnfold, LineEntries
<1>4. /\ Len(x) = Parts(t, m) + 1 /\ Parts(t, m) \in Nat
      /\ \A j \in 1..Parts(t, m) : x[j] = LongLine
      /\ x[Parts(t, m) + 1] = Rest(t, m)
  BY LineEntries, PartsAre
<1>5. PICK b : b = Base(t, m - 1)
  OBVIOUS
<1>6. b = Len(e) /\ b \in Nat
  BY <1>3, <1>5 DEF Base
<1>7. /\ Len(e \o x) = b + Parts(t, m) + 1
      /\ \A i \in 1..b : (e \o x)[i] = e[i]
      /\ \A i \in 1..(Parts(t, m) + 1) : (e \o x)[b + i] = x[i]
  <2>1. Len(e \o x) = Len(e) + Len(x)
    BY <1>3, Joined
  <2>2. \A i \in 1..Len(e) : (e \o x)[i] = e[i]
    BY <1>3, Joined
  <2>3. \A i \in 1..Len(x) : (e \o x)[Len(e) + i] = x[i]
    BY <1>3, Joined
  <2> HIDE DEF e, x
  <2> QED
    BY <1>4, <1>6, <2>1, <2>2, <2>3
<1>8. PICK c : c = e \o x
  OBVIOUS
<1>9. LengthsUpTo(t, m) = c /\ Base(t, m) = b + Parts(t, m) + 1 /\ Len(c) = b + Parts(t, m) + 1
  BY <1>3, <1>7, <1>8 DEF Base
<1>10. /\ \A i \in 1..b : c[i] = e[i]
       /\ \A j \in 1..Parts(t, m) : c[b + j] = LongLine
       /\ c[b + Parts(t, m) + 1] = Rest(t, m)
  <2>1. Parts(t, m) + 1 \in 1..(Parts(t, m) + 1) /\ \A j \in 1..Parts(t, m) : j \in 1..(Parts(t, m) + 1)
    BY <1>4
  <2> HIDE DEF e, x
  <2>2. b + (Parts(t, m) + 1) = b + Parts(t, m) + 1
    BY <1>4, <1>6
  <2>3. c[b + (Parts(t, m) + 1)] = x[Parts(t, m) + 1]
    BY ONLY <1>7, <1>8, <2>1
  <2> QED
    BY <1>4, <1>7, <1>8, <2>1, <2>2, <2>3
<1>11. ASSUME NEW l \in 1..(m - 1)
       PROVE  /\ Base(t, l) <= Len(c) /\ Base(t, l - 1) \in Nat
              /\ Base(t, l) = Base(t, l - 1) + Parts(t, l) + 1
              /\ \A j \in 1..Parts(t, l) : c[Base(t, l - 1) + j] = LongLine
              /\ c[Base(t, l - 1) + Parts(t, l) + 1] = Rest(t, l)
  <2>1. /\ Base(t, l) <= b /\ Base(t, l - 1) \in Nat
        /\ Base(t, l) = Base(t, l - 1) + Parts(t, l) + 1
        /\ \A j \in 1..Parts(t, l) : e[Base(t, l - 1) + j] = LongLine
        /\ e[Base(t, l - 1) + Parts(t, l) + 1] = Rest(t, l)
    BY <1>6 DEF EntriesOf
  <2>2. Parts(t, l) \in Nat
    BY <1>1, PartsAre
  <2> HIDE DEF e, x
  <2>3. /\ Base(t, l) <= Len(c)
        /\ \A j \in 1..Parts(t, l) : Base(t, l - 1) + j \in 1..b
        /\ Base(t, l - 1) + Parts(t, l) + 1 \in 1..b
    BY <1>4, <1>6, <1>9, <2>1, <2>2
  <2> QED
    BY <1>10, <2>1, <2>3
<1>12. ASSUME NEW l \in 1..m, ~ l \in 1..(m - 1) PROVE l = m
  BY <1>1, <1>12
<1>13. Base(t, m) <= Len(c)
  BY <1>4, <1>6, <1>9
<1> HIDE DEF e, x
<1>14. ASSUME NEW l \in 1..m
       PROVE  /\ Base(t, l) <= Len(c) /\ Base(t, l - 1) \in Nat
              /\ Base(t, l) = Base(t, l - 1) + Parts(t, l) + 1
              /\ \A j \in 1..Parts(t, l) : c[Base(t, l - 1) + j] = LongLine
              /\ c[Base(t, l - 1) + Parts(t, l) + 1] = Rest(t, l)
  BY <1>5, <1>6, <1>9, <1>10, <1>11, <1>12, <1>13
<1> QED
  BY <1>9, <1>14 DEF EntriesOf
LEMMA Entries ==
  ASSUME NEW t \in Text, NEW m \in 0..(NL(t) + 1)
  PROVE  EntriesOf(t, LengthsUpTo(t, m), m)
<1> DEFINE n == NL(t) + 1
           G == {k \in 0..n : EntriesOf(t, LengthsUpTo(t, k), k)}
<1>1. n \in Nat /\ LinesOf(t) = 1..n
  BY LinesAre DEF LinesOf
<1>2. 0 \in G
  BY <1>1 DEF EntriesOf
<1>3. \A k \in 1..n : k - 1 \in G => k \in G
  <2>1. ASSUME NEW k \in 1..n, k - 1 \in G PROVE k \in G
    <3>1. EntriesOf(t, LengthsUpTo(t, k - 1), k - 1)
      BY <2>1
    <3>2. EntriesOf(t, LengthsUpTo(t, k), k)
      BY <1>1, <3>1, EntriesMore
    <3> QED
      BY <1>1, <3>2
  <2> HIDE DEF G
  <2> QED
    BY <2>1
<1>4. \A k \in 0..n : k \in G
  <2> HIDE DEF G, n
  <2> QED
    BY ONLY <1>1, <1>2, <1>3, Stepwise
<1> QED
  BY <1>4

-----------------------------------------------------------------------------
(* The markers that are true of a text: before part j of line l.           *)
At(t, l, j) == Marker(Start(t, l) + Skip(j), l, Base(t, l - 1) + j, 1 + Skip(j))
IsAt(t, l, j, m) == l \in LinesOf(t) /\ j \in 0..Parts(t, l) /\ m = At(t, l, j)
TrueMarker(t, m) == \E l, j : IsAt(t, l, j, m)
All(t) == LengthsUpTo(t, NL(t) + 1)

LEMMA AtIs ==
  ASSUME NEW t \in Text, NEW l, NEW j, NEW m, IsAt(t, l, j, m)
  PROVE  /\ l \in Nat /\ j \in Nat /\ Skip(j) \in Nat /\ Parts(t, l) \in Nat
         /\ m.char = Start(t, l) + Skip(j) /\ m.char \in Nat
         /\ m.line = l /\ m.col = 1 + Skip(j) /\ m.col \in Nat \ {0}
         /\ m.array = Base(t, l - 1) + j /\ m.array \in Nat
         /\ Len(All(t)) \in Nat /\ m.array + 1 \in 1..Len(All(t))
         /\ j < Parts(t, l) => All(t)[m.array + 1] = LongLine
         /\ j = Parts(t, l) => All(t)[m.array + 1] = Rest(t, l)
         /\ m.array + 1 = Len(All(t)) => l = NL(t) + 1 /\ j = Parts(t, l)
<1> DEFINE n == NL(t) + 1
           p == Parts(t, l)
<1>1. n \in Nat /\ l \in 1..n /\ LinesOf(t) = 1..n /\ l \in Nat /\ n \in 0..n
  BY LinesAre DEF LinesOf, IsAt
<1>2. Start(t, l) \in Nat /\ p \in Nat /\ j \in 0..p /\ j \in Nat
  BY LinesAre, PartsAre DEF IsAt
<1>3. Skip(j) \in Nat
  BY <1>2, Skips
<1>4. /\ m.char = Start(t, l) + Skip(j) /\ m.line = l /\ m.col = 1 + Skip(j)
      /\ m.array = Base(t, l - 1) + j
  BY DEF IsAt, At, Marker
<1>5. EntriesOf(t, All(t), n)
  BY <1>1, Entries DEF All
<1>6. Len(All(t)) \in Nat /\ Len(All(t)) = Base(t, n)
  <2>1. All(t) \in Seq(0..LongLine)
    BY <1>1, LengthsUnfold DEF All
  <2> QED
    BY <2>1 DEF All, Base
<1>7. Base(t, l) <= Len(All(t)) /\ Base(t, l - 1) \in Nat /\ Base(t, l) = Base(t, l - 1) + p + 1
  BY <1>1, <1>5 DEF EntriesOf
<1>8. m.array \in Nat /\ m.array + 1 \in 1..Len(All(t))
  BY <1>2, <1>4, <1>6, <1>7
<1>9. j < p => All(t)[m.array + 1] = LongLine
  <2>1. j < p => j + 1 \in 1..p /\ Base(t, l - 1) + (j + 1) = m.array + 1
    BY <1>2, <1>4, <1>7
  <2>2. \A i \in 1..p : All(t)[Base(t, l - 1) + i] = LongLine
    BY <1>1, <1>5 DEF EntriesOf
  <2> HIDE DEF p
  <2> QED
    BY ONLY <2>1, <2>2
<1>10. j = p => All(t)[m.array + 1] = Rest(t, l)
  <2>1. j = p => m.array + 1 = Base(t, l - 1) + p + 1
    BY <1>2, <1>4, <1>7
  <2> QED
    BY <1>1, <1>5, <2>1 DEF EntriesOf
<1>11. ASSUME m.array + 1 = Len(All(t)) PROVE l = n /\ j = p
  <2>1. CASE l = n
    BY <1>2, <1>4, <1>6, <1>7, <1>11, <2>1
  <2>2. CASE l # n
    <3>1. l + 1 \in 1..n /\ (l + 1) - 1 = l
      BY <1>1, <2>2
    <3>2. Base(t, l + 1) <= Len(All(t)) /\ Base(t, l) \in Nat /\ Base(t, l + 1) = Base(t, l) + Parts(t, l + 1) + 1
      BY <1>5, <3>1 DEF EntriesOf
    <3>3. Parts(t, l + 1) \in Nat
      BY <1>1, <3>1, PartsAre
    <3> QED
      BY <1>2, <1>4, <1>6, <1>7, <1>11, <3>2, <3>3
  <2> QED
    BY <2>1, <2>2
<1> QED
  BY <1>1, <1>2, <1>3, <1>4, <1>6, <1>8, <1>9, <1>10, <1>11

(* A marker goes from part to part, and from line to line.                 *)
LEMMA AtAdvances ==
  ASSUME NEW t \in Text, NEW l, NEW j, NEW m, IsAt(t, l, j, m)
  PROVE  LET e == All(t)[m.array + 1]
             a == AdvanceMarker(m, e)
         IN  /\ a.array = m.array + 1
             /\ j < Parts(t, l) => IsAt(t, l, j + 1, a) /\ e = LongLine
             /\ j = Parts(t, l) => e = Rest(t, l) /\ e < LongLine
             /\ j = Parts(t, l) /\ l # NL(t) + 1 => IsAt(t, l + 1, 0, a)
<1> DEFINE e == All(t)[m.array + 1]
           a == AdvanceMarker(m, e)
           p == Parts(t, l)
<1>1. /\ l \in Nat /\ j \in Nat /\ Skip(j) \in Nat /\ p \in Nat
      /\ m.char = Start(t, l) + Skip(j) /\ m.line = l /\ m.col = 1 + Skip(j)
      /\ m.array = Base(t, l - 1) + j /\ m.array \in Nat
      /\ j < p => e = LongLine
      /\ j = p => e = Rest(t, l)
  BY AtIs
<1>2. l \in LinesOf(t) /\ j \in 0..p
  BY DEF IsAt
<1>3. /\ Rest(t, l) \in 0..(LongLine - 1) /\ Length(t, l) = Skip(p) + Rest(t, l)
      /\ LongLine \in Nat /\ Start(t, l) \in Nat /\ Length(t, l) \in Nat
  BY <1>2, PartsAre, LinesAre, SourceFileAssumption
<1>4. a.array = m.array + 1
  BY DEF AdvanceMarker, Marker
<1>5. ASSUME j < p PROVE IsAt(t, l, j + 1, a)
  <2>1. a = Marker(m.char + LongLine - 1, m.line, m.array + 1, m.col + LongLine - 1)
    BY <1>1, <1>3, <1>5 DEF AdvanceMarker
  <2>2. Skip(j + 1) = Skip(j) + (LongLine - 1)
    BY <1>1, Skips
  <2>3. Base(t, l - 1) \in Nat
    <3>1. EntriesOf(t, All(t), NL(t) + 1) /\ l \in 1..(NL(t) + 1)
      BY <1>2, LinesAre, Entries DEF All, LinesOf
    <3> QED
      BY <3>1 DEF EntriesOf
  <2>4. /\ m.char + LongLine - 1 = Start(t, l) + Skip(j + 1)
        /\ m.array + 1 = Base(t, l - 1) + (j + 1)
        /\ m.col + LongLine - 1 = 1 + Skip(j + 1)
        /\ j + 1 \in 0..p
    <3> HIDE DEF p
    <3> QED
      BY <1>1, <1>3, <1>5, <2>2, <2>3
  <2> HIDE DEF a, e
  <2> QED
    BY <1>1, <1>2, <2>1, <2>4 DEF IsAt, At
<1>6. ASSUME j = p, l # NL(t) + 1 PROVE IsAt(t, l + 1, 0, a)
  <2>1. a = Marker(m.char + Rest(t, l) + 1, m.line + 1, m.array + 1, 1)
    <3>1. e = Rest(t, l) /\ e < LongLine
      BY <1>1, <1>3, <1>6
    <3> HIDE DEF e
    <3> QED
      BY <3>1 DEF AdvanceMarker
  <2>2. l \in 1..NL(t) /\ NL(t) \in Nat /\ l + 1 \in LinesOf(t) /\ l \in 1..(NL(t) + 1) /\ (l + 1) - 1 = l
    BY <1>2, <1>6, LinesAre DEF LinesOf
  <2>3. Start(t, l + 1) = Start(t, l) + Length(t, l) + 1 /\ Start(t, l + 1) \in Nat
    BY <2>2, LinesAre
  <2>4. Base(t, l - 1) \in Nat /\ Base(t, l) = Base(t, l - 1) + p + 1
    <3>1. EntriesOf(t, All(t), NL(t) + 1)
      BY <2>2, Entries DEF All
    <3> QED
      BY <2>2, <3>1 DEF EntriesOf
  <2>5. Skip(0) = 0 /\ Skip(j) = Skip(p)
    BY <1>6, Skips
  <2>6. Parts(t, l + 1) \in Nat
    BY <2>2, PartsAre
  <2>7. /\ m.char + Rest(t, l) + 1 = Start(t, l + 1) + Skip(0)
        /\ m.array + 1 = Base(t, (l + 1) - 1) + 0
        /\ 1 = 1 + Skip(0) /\ 0 \in 0..Parts(t, l + 1)
    <3>1. m.array + 1 = Base(t, l) + 0
      <4> HIDE DEF p
      <4> QED
        BY <1>1, <1>6, <2>4
    <3>2. m.char + Rest(t, l) + 1 = Start(t, l + 1) + Skip(0)
      <4> HIDE DEF p
      <4> QED
        BY <1>1, <1>3, <2>3, <2>5
    <3> QED
      BY <2>2, <2>5, <2>6, <3>1, <3>2
  <2> HIDE DEF a, e
  <2> QED
    BY <1>1, <2>1, <2>2, <2>7 DEF IsAt, At
<1>7. j = p => e < LongLine
  BY <1>1, <1>3
<1> QED
  BY <1>1, <1>4, <1>5, <1>6, <1>7

LEMMA MinIs ==
  ASSUME NEW T \in SUBSET Nat, T # {}
  PROVE  Min(T) \in T /\ \A y \in T : Min(T) <= y
<1>1. \E x \in T : \A y \in T : x <= y
  BY LeastElement
<1> QED
  BY <1>1 DEF Min

LEMMA EntryIn ==
  ASSUME NEW S, NEW s \in Seq(S), NEW k \in 1..Len(s)
  PROVE  s[k] \in S
OBVIOUS

(* The marker after each number of steps.                                  *)
LEMMA AdvancedAre ==
  ASSUME NEW t \in Text, NEW f, f.lengths = All(t),
         NEW l0, NEW j0, NEW m, IsAt(t, l0, j0, m)
  PROVE  LET n == Len(f.lengths) - m.array
             a == Advanced(f, m)
         IN  /\ n \in Nat /\ n >= 1 /\ m.array \in Nat
             /\ a[0] = m
             /\ \A i \in 1..n : a[i] = AdvanceMarker(a[i - 1], f.lengths[m.array + i])
             /\ \A i \in 0..(n - 1) : a[i].array = m.array + i /\ TrueMarker(t, a[i])
<1> DEFINE n == Len(f.lengths) - m.array
           Step(i, v) == AdvanceMarker(v, f.lengths[m.array + i])
           IsA(g) == g = [i \in 0..n |-> IF i = 0 THEN m ELSE Step(i, g[i - 1])]
           Rec == [char : Int, line : Int, array : Int, col : Int]
           V == [k \in 0..n |-> Rec]
           step == [x \in (1..n) \X Rec |-> Step(x[1], x[2])]
<1>1. /\ m.array \in Nat /\ m.array + 1 \in 1..Len(All(t)) /\ Len(All(t)) \in Nat
      /\ m.char \in Nat /\ m.line \in Nat /\ m.col \in Nat
  BY AtIs
<1>2. n \in Nat /\ n >= 1 /\ n = Len(All(t)) - m.array
  BY <1>1
<1>3. All(t) \in Seq(0..LongLine)
  BY LinesAre, LengthsUnfold DEF All
<1>4. ASSUME NEW i \in 1..n, NEW v \in Rec PROVE Step(i, v) \in Rec
  <2>1. m.array + i \in 1..Len(All(t))
    <3>1. i \in Int /\ i >= 1 /\ i <= Len(All(t)) - m.array
      BY <1>2
    <3> HIDE DEF n, Step, IsA, Rec, V, step
    <3> QED
      BY ONLY <1>1, <3>1
  <2>2. f.lengths[m.array + i] \in Int
    <3>1. PICK S : S = 0..LongLine
      OBVIOUS
    <3>2. f.lengths[m.array + i] \in S
      BY <1>3, <2>1, <3>1, EntryIn
    <3> QED
      BY <3>1, <3>2, SourceFileAssumption
  <2>3. LongLine \in Int
    BY SourceFileAssumption
  <2> QED
    <3>1. PICK e \in Int : e = f.lengths[m.array + i]
      BY <2>2
    <3>2. AdvanceMarker(v, e) \in Rec
      <4>1. v.char \in Int /\ v.line \in Int /\ v.array \in Int /\ v.col \in Int
        OBVIOUS
      <4>2. \A c, l, a, o \in Int : Marker(c, l, a, o) \in Rec
        BY DEF Marker
      <4>3. /\ v.char + e + 1 \in Int /\ v.line + 1 \in Int /\ v.array + 1 \in Int
            /\ v.char + e - 1 \in Int /\ v.col + e - 1 \in Int
        BY ONLY e \in Int, <4>1
      <4> HIDE DEF Rec
      <4> QED
        BY ONLY <4>1, <4>2, <4>3, 1 \in Int DEF AdvanceMarker
    <3> QED
      BY <3>1, <3>2
<1>5. \E g : IsA(g)
  <2>1. m \in V[0]
    <3>1. m = Marker(m.char, m.line, m.array, m.col)
      BY DEF IsAt, At, Marker
    <3>2. m \in Rec
      BY <1>1, <3>1 DEF Marker
    <3> QED
      BY <1>2, <3>2
  <2>2. ASSUME NEW k \in 1..n, NEW v \in Rec PROVE step[<<k, v>>] \in Rec /\ step[<<k, v>>] = Step(k, v)
    <3>1. <<k, v>> \in (1..n) \X Rec
      OBVIOUS
    <3>2. step[<<k, v>>] = Step(k, v)
      BY <3>1
    <3> HIDE DEF step, Rec, Step
    <3> QED
      BY <1>4, <3>2
  <2>3. \A k \in 1..n : \A v \in V[k - 1] : step[<<k, v>>] \in V[k]
    <3>1. \A k \in 1..n : V[k - 1] = Rec /\ V[k] = Rec
      <4>1. \A k \in 1..n : k - 1 \in 0..n /\ k \in 0..n
        <5> HIDE DEF n
        <5> QED
          BY <1>2
      <4> HIDE DEF n
      <4> QED
        BY <4>1
    <3> HIDE DEF V, step, Rec
    <3> QED
      BY <2>2, <3>1
  <2>4. PICK g : IsRun(g, n, m, step, V)
    <3> HIDE DEF V, step, n
    <3> QED
      BY ONLY <1>2, <2>1, <2>3, IteratedExists
  <2>5. ASSUME NEW i \in 0..n PROVE g[i] = IF i = 0 THEN m ELSE Step(i, g[i - 1])
    <3>1. CASE i = 0
      BY <2>4, <3>1 DEF IsRun
    <3>2. CASE i # 0
      <4>1. i \in 1..n /\ i - 1 \in 0..n
        BY <1>2, <3>2
      <4>2. g[i] = step[<<i, g[i - 1]>>]
        <5> HIDE DEF V, step
        <5> QED
          BY <2>4, <4>1 DEF IsRun
      <4>3. g[i - 1] \in Rec
        <5>1. g[i - 1] \in V[i - 1] /\ V[i - 1] = Rec
          BY <2>4, <4>1 DEF IsRun
        <5> QED
          BY <5>1
      <4> HIDE DEF step, Rec, Step
      <4> QED
        BY <2>2, <3>2, <4>1, <4>2, <4>3
    <3> QED
      BY <3>1, <3>2
  <2>6. IsA(g)
    <3>1. g = [i \in 0..n |-> g[i]]
      <4> HIDE DEF V, step
      <4> QED
        BY <2>4 DEF IsRun
    <3> HIDE DEF Step, n
    <3> QED
      BY <2>5, <3>1
  <2> QED
    BY <2>6
<1>6. PICK a : IsA(a) /\ Advanced(f, m) = a
  <2>1. Advanced(f, m) = CHOOSE g : IsA(g)
    BY DEF Advanced
  <2> HIDE DEF IsA
  <2> QED
    BY <1>5, <2>1
<1>7. a[0] = m /\ \A i \in 1..n : a[i] = AdvanceMarker(a[i - 1], f.lengths[m.array + i])
  <2>1. 0 \in 0..n /\ \A i \in 1..n : i \in 0..n /\ i # 0
    BY <1>2
  <2> QED
    BY <1>6, <2>1
<1> DEFINE G == {i \in 0..(n - 1) : a[i].array = m.array + i /\ TrueMarker(t, a[i])}
<1>8. 0 \in G
  BY <1>1, <1>2, <1>7 DEF TrueMarker
<1>9. ASSUME NEW i \in 1..(n - 1), i - 1 \in G PROVE i \in G
  <2>1. PICK l, j : IsAt(t, l, j, a[i - 1])
    BY <1>9 DEF TrueMarker
  <2>2. a[i - 1].array = m.array + i - 1
    BY <1>1, <1>2, <1>9
  <2>3. a[i] = AdvanceMarker(a[i - 1], All(t)[a[i - 1].array + 1])
    <3>1. i \in 1..n /\ a[i - 1].array + 1 = m.array + i
      BY <1>1, <1>2, <2>2
    <3> QED
      BY <1>7, <3>1
  <2>4. /\ a[i].array = a[i - 1].array + 1
        /\ j < Parts(t, l) => IsAt(t, l, j + 1, a[i])
        /\ j = Parts(t, l) /\ l # NL(t) + 1 => IsAt(t, l + 1, 0, a[i])
    BY <2>1, <2>3, AtAdvances
  <2>5. l = NL(t) + 1 /\ j = Parts(t, l) => FALSE
    <3>1. ASSUME l = NL(t) + 1, j = Parts(t, l) PROVE FALSE
      <4>1. a[i - 1].array + 1 = Base(t, l - 1) + j + 1 /\ Parts(t, l) \in Nat /\ NL(t) \in Nat
        <5>1. a[i - 1].array = Base(t, l - 1) + j
          BY ONLY <2>1, t \in Text, AtIs
        <5>2. Parts(t, l) \in Nat
          BY <2>1, AtIs
        <5> QED
          BY <5>1, <5>2, LinesAre
      <4>2. EntriesOf(t, All(t), NL(t) + 1) /\ l \in 1..(NL(t) + 1)
        BY <3>1, <4>1, Entries DEF All
      <4>3. Base(t, l - 1) \in Nat /\ Base(t, l) = Base(t, l - 1) + Parts(t, l) + 1
        BY <4>2 DEF EntriesOf
      <4>4. Base(t, l) = Len(All(t))
        BY <3>1 DEF Base, All
      <4> QED
        <5>1. a[i - 1].array + 1 = Len(All(t))
          BY <3>1, <4>1, <4>3, <4>4
        <5>2. i \in 1..(n - 1) /\ i \in Int
          OBVIOUS
        <5> HIDE DEF n
        <5> QED
          BY ONLY <1>1, <1>2, <2>2, <5>1, <5>2
    <3> QED
      BY <3>1
  <2>6. j < Parts(t, l) \/ j = Parts(t, l)
    BY <2>1, AtIs DEF IsAt
  <2>7. TrueMarker(t, a[i])
    BY <2>4, <2>5, <2>6 DEF TrueMarker
  <2> QED
    BY <1>1, <1>2, <2>2, <2>4, <2>7
<1>10. \A i \in 0..(n - 1) : i \in G
  <2>1. n - 1 \in Nat
    BY <1>2
  <2> HIDE DEF G, n
  <2> QED
    BY ONLY <1>8, <1>9, <2>1, Stepwise
<1> QED
  BY <1>1, <1>2, <1>6, <1>7, <1>10

(* The first place where it does not go on.                                *)
LEMMA FirstStop ==
  ASSUME NEW n \in Nat, NEW G, \E i \in 0..n : i < n /\ i \notin G
  PROVE  LET r == Min({i \in 0..n : i = n \/ i \notin G}) IN
           r \in 0..(n - 1) /\ r \notin G /\ \A i \in 0..(r - 1) : i \in G
<1> DEFINE T == {i \in 0..n : i = n \/ i \notin G}
<1>1. T \in SUBSET Nat /\ T # {}
  OBVIOUS
<1>2. Min(T) \in T /\ \A y \in T : Min(T) <= y
  <2> HIDE DEF T
  <2> QED
    BY ONLY <1>1, MinIs
<1>3. PICK i \in 0..n : i < n /\ i \notin G
  OBVIOUS
<1>4. PICK r : r = Min(T)
  OBVIOUS
<1>5. r \in 0..n /\ (r = n \/ r \notin G) /\ \A y \in T : r <= y
  BY <1>2, <1>4
<1>6. r <= i /\ r < n
  BY <1>3, <1>5
<1>7. ASSUME NEW k \in 0..(r - 1) PROVE k \in G
  <2>1. k \in 0..n /\ ~ r <= k
    BY <1>5, <1>6
  <2> QED
    BY <1>5, <2>1
<1> QED
  BY <1>4, <1>5, <1>6, <1>7

-----------------------------------------------------------------------------
(* The binary search finds the last key that is not above x, if the keys   *)
(* ascend and there is one.                                                *)
LEMMA SearchIs ==
  ASSUME NEW keys \in Seq(Int), Len(keys) # 0, NEW x \in Int
  PROVE  LET n == Len(keys)
             r == LastUpTo(keys, x)
         IN  /\ r \in 1..n /\ (r = 1 \/ keys[r] <= x)
             /\ (\A i, j \in 1..n : i <= j => keys[i] <= keys[j]) =>
                  \A i \in 1..n : i > r => keys[i] > x
<1> DEFINE n == Len(keys)
           Rng == [low : 1..n, high : 1..n]
           Ascends == \A i, j \in 1..n : i <= j => keys[i] <= keys[j]
           Above(b) == Ascends => \A i \in 1..n : i > b => keys[i] > x
           Found(k, g) ==
             /\ g \in Rng /\ g.low <= g.high /\ (g.low = g.high \/ g.high - g.low <= n - 1 - k)
             /\ g.low = 1 \/ keys[g.low] <= x
             /\ Above(g.high)
           v0 == [low |-> 1, high |-> n]
           V == [k \in 0..n |-> {g \in Rng : Found(k, g)}]
           step == [y \in (1..n) \X Rng |-> Halved(keys, x, y[2])]
           IsA(f) == f = [k \in 0..n |-> IF k = 0 THEN v0 ELSE Halved(keys, x, f[k - 1])]
<1>1. n \in Nat /\ n >= 1 /\ \A i \in 1..n : keys[i] \in Int
  OBVIOUS
<1>2. v0 \in V[0]
  <2>1. v0 \in Rng /\ v0.low = 1 /\ v0.high = n /\ Above(n)
    <3>1. 1 \in 1..n /\ n \in 1..n /\ \A i \in 1..n : ~ i > n
      BY <1>1
    <3> HIDE DEF n
    <3> QED
      BY <3>1
  <2>2. Found(0, v0)
    <3> HIDE DEF n, Above
    <3> QED
      BY <1>1, <2>1
  <2>3. 0 \in 0..n
    BY <1>1
  <2> HIDE DEF Found
  <2> QED
    BY <2>1, <2>2, <2>3
<1>3. ASSUME NEW k \in 1..n, NEW g \in Rng, Found(k - 1, g)
      PROVE  Found(k, Halved(keys, x, g))
  <2>1. PICK low \in 1..n, high \in 1..n : g = [low |-> low, high |-> high]
    OBVIOUS
  <2>2. g.low = low /\ g.high = high /\ low <= high
    BY <1>3, <2>1
  <2>3. /\ low = high \/ high - low <= n - 1 - (k - 1)
        /\ low = 1 \/ keys[low] <= x
        /\ Above(high)
    <3> HIDE DEF n, Above
    <3> QED
      BY <1>3, <2>2
  <2>4. CASE low = high
    <3>1. Halved(keys, x, g) = g
      BY <1>1, <2>2, <2>4 DEF Halved
    <3> HIDE DEF n, Above
    <3> QED
      BY <2>1, <2>2, <2>3, <2>4, <3>1
  <2>5. CASE low # high
    <3>1. PICK mid \in Int : mid = (low + high + 1) \div 2
      BY <1>1
    <3>2. low < mid /\ mid <= high /\ mid \in 1..n /\ mid - 1 \in 1..n
      <4>1. low \in Int /\ high \in Int /\ 1 <= low /\ low < high /\ high <= n /\ n \in Int
        BY <1>1, <2>2, <2>5
      <4> HIDE DEF n
      <4> QED
        BY ONLY <3>1, <4>1
    <3>3. ~ g.low >= g.high
      BY <1>1, <2>2, <2>5
    <3>4. CASE keys[mid] > x
      <4>1. Halved(keys, x, g) = [low |-> low, high |-> mid - 1]
        BY <2>2, <3>1, <3>3, <3>4 DEF Halved
      <4>2. Above(mid - 1)
        <5>1. ASSUME Ascends, NEW i \in 1..n, i > mid - 1 PROVE keys[i] > x
          <6>1. mid <= i
            BY <3>2, <5>1
          <6>2. keys[mid] <= keys[i]
            BY <3>2, <5>1, <6>1
          <6> QED
            <7>1. keys[mid] \in Int /\ keys[i] \in Int
              BY <1>1, <3>2
            <7>2. PICK p, q : p = keys[mid] /\ q = keys[i]
              OBVIOUS
            <7>3. p \in Int /\ q \in Int /\ p > x /\ p <= q /\ x \in Int
              BY ONLY <3>4, <6>2, <7>1, <7>2, x \in Int
            <7>4. q > x
              BY ONLY <7>3
            <7> QED
              BY ONLY <7>2, <7>4
        <5> HIDE DEF Ascends
        <5> QED
          BY <5>1
      <4>3. low <= mid - 1 /\ (low = mid - 1 \/ (mid - 1) - low <= n - 1 - k)
        <5> HIDE DEF n
        <5> QED
          BY <1>1, <2>3, <2>5, <3>2
      <4> HIDE DEF n, Above
      <4> QED
        BY <2>3, <3>2, <4>1, <4>2, <4>3
    <3>5. CASE ~ keys[mid] > x
      <4>1. Halved(keys, x, g) = [low |-> mid, high |-> high]
        BY <2>2, <3>1, <3>3, <3>5 DEF Halved
      <4>2. keys[mid] <= x
        BY <1>1, <3>2, <3>5
      <4>3. mid = high \/ high - mid <= n - 1 - k
        <5> HIDE DEF n
        <5> QED
          BY <1>1, <2>3, <2>5, <3>2
      <4> HIDE DEF n, Above
      <4> QED
        BY <2>3, <3>2, <4>1, <4>2, <4>3
    <3> QED
      BY <3>4, <3>5
  <2> QED
    BY <2>4, <2>5
<1>4. ASSUME NEW k \in 1..n, NEW v \in V[k - 1]
      PROVE  v \in Rng /\ Halved(keys, x, v) \in V[k]
  <2>1. k - 1 \in 0..n /\ k \in 0..n
    BY <1>1
  <2>2. v \in Rng /\ Found(k - 1, v)
    <3> HIDE DEF Found, Rng, n
    <3> QED
      BY <2>1
  <2>3. Found(k, Halved(keys, x, v))
    <3> HIDE DEF Found, Rng, n
    <3> QED
      BY <1>3, <2>2
  <2>4. Halved(keys, x, v) \in Rng
    BY <2>3
  <2> HIDE DEF Found, Rng, n
  <2> QED
    BY <2>1, <2>2, <2>3, <2>4
<1>5. ASSUME NEW k \in 1..n, NEW v \in V[k - 1]
      PROVE  step[<<k, v>>] = Halved(keys, x, v)
  <2>1. <<k, v>> \in (1..n) \X Rng
    BY <1>4
  <2> HIDE DEF Rng, n
  <2> QED
    BY <2>1
<1>6. PICK f : IsRun(f, n, v0, step, V)
  <2> HIDE DEF V, v0, step, n
  <2>1. \A k \in 1..n : \A v \in V[k - 1] : step[<<k, v>>] \in V[k]
    BY <1>4, <1>5
  <2> QED
    BY ONLY <1>1, <1>2, <2>1, IteratedExists
<1>7. ASSUME NEW k \in 0..n PROVE f[k] = IF k = 0 THEN v0 ELSE Halved(keys, x, f[k - 1])
  <2>1. CASE k = 0
    <3> HIDE DEF V, v0, step, n
    <3> QED
      BY <1>6, <2>1 DEF IsRun
  <2>2. CASE k # 0
    <3> HIDE DEF V, v0, step, n
    <3>1. k \in 1..n /\ k - 1 \in 0..n
      BY <1>1, <2>2
    <3>2. f[k] = step[<<k, f[k - 1]>>] /\ f[k - 1] \in V[k - 1]
      BY <1>6, <3>1 DEF IsRun
    <3> QED
      BY <1>5, <2>2, <3>1, <3>2
  <2> QED
    BY <2>1, <2>2
<1>8. IsA(f)
  <2>1. f = [k \in 0..n |-> f[k]]
    <3> HIDE DEF V, v0, step, n
    <3> QED
      BY <1>6 DEF IsRun
  <2> HIDE DEF v0, n
  <2> QED
    BY <1>7, <2>1
<1>9. PICK g : IsA(g) /\ LastUpTo(keys, x) = g[n].low
  <2>1. LastUpTo(keys, x) = (CHOOSE h : IsA(h))[n].low
    BY DEF LastUpTo
  <2> HIDE DEF IsA
  <2> QED
    BY <1>8, <2>1
<1>10. g[n] \in V[n]
  <2> DEFINE W == {k \in 0..n : g[k] \in V[k]}
  <2>1. 0 \in W
    <3>1. 0 \in 0..n
      BY <1>1
    <3> HIDE DEF V, n, v0
    <3> QED
      BY <1>2, <1>9, <3>1
  <2>2. ASSUME NEW k \in 1..n, k - 1 \in W PROVE k \in W
    <3>1. k \in 0..n /\ k # 0
      BY <1>1
    <3>2. g[k] = Halved(keys, x, g[k - 1])
      <4> HIDE DEF v0, n
      <4> QED
        BY <1>9, <3>1
    <3> HIDE DEF V, n
    <3> QED
      BY <1>4, <2>2, <3>1, <3>2
  <2>3. \A k \in 0..n : k \in W
    <3> HIDE DEF W, n
    <3> QED
      BY ONLY <1>1, <2>1, <2>2, Stepwise
  <2>4. n \in 0..n
    BY <1>1
  <2> HIDE DEF V, n
  <2> QED
    BY <2>3, <2>4
<1>11. Found(n, g[n])
  <2>1. n \in 0..n
    BY <1>1
  <2> HIDE DEF Found, Rng, n
  <2> QED
    BY <1>10, <2>1
<1>12. g[n].low \in 1..n /\ g[n].low = g[n].high
  <2>1. PICK h : h = g[n]
    OBVIOUS
  <2>2. /\ h.low \in 1..n /\ h.high \in 1..n /\ h.low <= h.high
        /\ h.low = h.high \/ h.high - h.low <= n - 1 - n
    BY <1>11, <2>1
  <2> HIDE DEF n
  <2> QED
    BY <1>1, <2>1, <2>2
<1> QED
  BY <1>9, <1>11, <1>12

-----------------------------------------------------------------------------
(* What a file is of the text it was read from.                            *)
IndexMarker(t, i) ==
  Marker(Start(t, 1 + (i - 1) * MarkerPeriod), 1 + (i - 1) * MarkerPeriod,
         Len(LengthsUpTo(t, (1 + (i - 1) * MarkerPeriod) - 1)), 1)
IndexSize(t) == 1 + NL(t) \div MarkerPeriod
Describes(t, f) ==
  /\ f.lengths = All(t) /\ f.numLines = NL(t) /\ f.numChars = NumChars(t)
  /\ f.index = [i \in 1..IndexSize(t) |-> IndexMarker(t, i)]
  /\ f.avg = IF NL(t) = 0 THEN NumChars(t) ELSE NumChars(t) \div NL(t)
  /\ TrueMarker(t, f.marker)

LEMMA FirstMarker ==
  ASSUME NEW t \in Text
  PROVE  IsAt(t, 1, 0, Marker(0, 1, 0, 1))
<1>1. 1 \in LinesOf(t) /\ Start(t, 1) = 0
  BY LinesAre DEF LinesOf
<1>2. Skip(0) = 0 /\ 0 \in 0..Parts(t, 1)
  BY <1>1, PartsAre, Skips
<1>3. Base(t, 1 - 1) = 0
  <2>1. LengthsUpTo(t, 0) = << >>
    BY LengthsUnfold
  <2> QED
    BY <2>1 DEF Base
<1> QED
  BY <1>1, <1>2, <1>3 DEF IsAt, At

(* The markers of the index are true.                                      *)
LEMMA IndexIs ==
  ASSUME NEW t \in Text
  PROVE  /\ IndexSize(t) \in Nat /\ IndexSize(t) >= 1
         /\ IndexMarker(t, 1).char = 0 /\ IndexMarker(t, 1).line = 1
         /\ \A i \in 1..IndexSize(t) : TrueMarker(t, IndexMarker(t, i))
<1> DEFINE d == MarkerPeriod
           q == NL(t) \div d
<1>1. d \in Nat /\ d >= 1 /\ NL(t) \in Nat
  BY SourceFileAssumption, LinesAre
<1>2. q \in Nat /\ q * d <= NL(t) /\ IndexSize(t) = 1 + q
  <2>1. IndexSize(t) = 1 + q
    BY DEF IndexSize
  <2>2. PICK c \in Nat : c = NL(t)
    BY <1>1
  <2> HIDE DEF d
  <2>3. c \div d \in Nat /\ (c \div d) * d <= c
    BY ONLY <1>1, c \in Nat
  <2> QED
    BY <2>1, <2>2, <2>3
<1>3. ASSUME NEW i \in 1..IndexSize(t) PROVE TrueMarker(t, IndexMarker(t, i))
  <2>1. i - 1 \in 0..q /\ i - 1 \in Nat
    BY <1>2
  <2>2. (i - 1) * d \in Nat /\ (i - 1) * d <= q * d
    <3>1. PICK a \in Nat : a = i - 1
      BY <2>1
    <3>2. PICK b \in Nat : q = a + b
      <4>1. q - a \in Nat /\ q = a + (q - a)
        BY <1>2, <2>1, <3>1
      <4> QED
        BY <4>1
    <3> HIDE DEF d
    <3>3. (a + b) * d = a * d + b * d /\ a * d \in Nat /\ b * d \in Nat
      BY ONLY <1>1, a \in Nat, b \in Nat
    <3>4. a * d <= (a + b) * d
      BY ONLY <3>3
    <3> QED
      BY ONLY <3>1, <3>2, <3>3, <3>4
  <2>3. PICK l : l = 1 + (i - 1) * d
    OBVIOUS
  <2>4. l \in LinesOf(t) /\ l \in Nat
    <3> HIDE DEF d
    <3>1. PICK a \in Nat : a = (i - 1) * d
      BY <2>2
    <3>2. PICK b \in Nat : b = q * d
      <4>1. q * d \in Nat
        BY <1>1, <1>2
      <4> QED
        BY <4>1
    <3>3. a <= NL(t)
      BY <1>1, <1>2, <2>2, <3>1, <3>2
    <3> QED
      BY <1>1, <2>3, <3>1, <3>3 DEF LinesOf
  <2>5. IndexMarker(t, i) = Marker(Start(t, l), l, Base(t, l - 1), 1)
    <3>1. 1 + (i - 1) * MarkerPeriod - 1 = l - 1
      <4>1. PICK a \in Nat : a = (i - 1) * MarkerPeriod
        BY <2>2
      <4>2. 1 + a - 1 = (1 + a) - 1
        OBVIOUS
      <4> QED
        BY <2>3, <4>1, <4>2
    <3> QED
      BY <2>3, <3>1 DEF IndexMarker, Base
  <2>6. Base(t, l - 1) \in Nat
    <3>1. EntriesOf(t, All(t), NL(t) + 1) /\ l \in 1..(NL(t) + 1)
      BY <1>1, <2>4, Entries DEF All, LinesOf
    <3> QED
      BY <3>1 DEF EntriesOf
  <2>7. Skip(0) = 0 /\ 0 \in 0..Parts(t, l) /\ Start(t, l) \in Nat
    BY <2>4, PartsAre, Skips, LinesAre
  <2>8. Start(t, l) + Skip(0) = Start(t, l) /\ Base(t, l - 1) + 0 = Base(t, l - 1) /\ 1 + Skip(0) = 1
    BY <2>6, <2>7
  <2>9. IsAt(t, l, 0, IndexMarker(t, i))
    BY <2>4, <2>5, <2>7, <2>8 DEF IsAt, At
  <2> QED
    BY <2>9 DEF TrueMarker
<1>4. IndexMarker(t, 1).char = 0 /\ IndexMarker(t, 1).line = 1
  <2>1. (1 - 1) * MarkerPeriod = 0
    BY SourceFileAssumption
  <2>2. 1 + 0 = 1
    OBVIOUS
  <2>3. IndexMarker(t, 1) = Marker(Start(t, 1), 1, Len(LengthsUpTo(t, 1 - 1)), 1)
    BY <2>1, <2>2 DEF IndexMarker
  <2> QED
    BY <2>3, LinesAre DEF Marker
<1> QED
  BY <1>2, <1>3, <1>4

LEMMA TrueIs ==
  ASSUME NEW t \in Text, NEW m, TrueMarker(t, m)
  PROVE  /\ m.char \in Nat /\ m.line \in LinesOf(t) /\ m.line \in Nat
         /\ m.col \in Nat \ {0} /\ m.array \in Nat
         /\ m.array < Len(All(t)) /\ m.char = Start(t, m.line) + m.col - 1
         /\ m.col - 1 <= Length(t, m.line)
<1>1. PICK l, j : IsAt(t, l, j, m)
  BY DEF TrueMarker
<1>2. /\ l \in Nat /\ j \in Nat /\ Skip(j) \in Nat /\ Parts(t, l) \in Nat
      /\ m.char = Start(t, l) + Skip(j) /\ m.char \in Nat
      /\ m.line = l /\ m.col = 1 + Skip(j) /\ m.col \in Nat \ {0}
      /\ m.array \in Nat
      /\ Len(All(t)) \in Nat /\ m.array + 1 \in 1..Len(All(t))
  BY <1>1, AtIs
<1>3. l \in LinesOf(t) /\ j \in 0..Parts(t, l)
  BY <1>1 DEF IsAt
<1>4. Start(t, l) \in Nat /\ Length(t, l) \in Nat
  BY <1>3, LinesAre
<1>5. Skip(j) <= Length(t, l)
  <2>1. Length(t, l) = Skip(Parts(t, l)) + Rest(t, l) /\ Rest(t, l) \in Nat
    BY <1>3, PartsAre, SourceFileAssumption
  <2>2. Skip(Parts(t, l)) \in Nat /\ Skip(j) <= Skip(Parts(t, l))
    <3>1. j = Parts(t, l) \/ j < Parts(t, l)
      BY <1>2, <1>3
    <3>2. j < Parts(t, l) => Skip(j) + (LongLine - 1) <= Skip(Parts(t, l))
      BY <1>2, Skips
    <3>3. Skip(Parts(t, l)) \in Nat /\ LongLine - 1 \in Nat
      <4>1. \A a \in Nat : Skip(a) \in Nat
        BY Skips
      <4> QED
        BY <1>2, <4>1, SourceFileAssumption
    <3> QED
      BY <1>2, <3>1, <3>2, <3>3
  <2> QED
    BY <1>2, <1>4, <2>1, <2>2
<1>6. PICK c, a, q, s, n : c = m.col /\ a = m.array /\ q = Skip(j) /\ s = Start(t, l)
                             /\ n = Length(t, l)
  OBVIOUS
<1>7. /\ m.array < Len(All(t)) /\ m.char = Start(t, m.line) + m.col - 1
      /\ m.col - 1 <= Length(t, m.line)
  <2>1. q \in Nat /\ s \in Nat /\ n \in Nat /\ c = 1 + q /\ q <= n
    BY <1>2, <1>4, <1>5, <1>6
  <2>2. s + q = s + c - 1 /\ c - 1 <= n
    BY ONLY <2>1
  <2>3. a \in Nat /\ Len(All(t)) \in Nat /\ a + 1 \in 1..Len(All(t))
    BY <1>2, <1>6
  <2>4. a < Len(All(t))
    BY ONLY <2>3
  <2>5. m.char = s + q /\ m.line = l
    BY <1>2, <1>6
  <2> QED
    BY ONLY <1>6, <2>2, <2>4, <2>5
<1> QED
  BY ONLY <1>2, <1>3, <1>7

(* The search in the index finds a true marker that is not beyond.         *)
LEMMA IndexFound ==
  ASSUME NEW t \in Text, NEW f, Describes(t, f), NEW x \in Int
  PROVE  /\ x >= 1 => LET m == f.index[LastUpTo([i \in DOMAIN f.index |-> f.index[i].line], x)] IN
                        TrueMarker(t, m) /\ m.line <= x
         /\ x >= 0 => LET m == f.index[LastUpTo([i \in DOMAIN f.index |-> f.index[i].char], x)] IN
                        TrueMarker(t, m) /\ m.char <= x
<1> DEFINE n == IndexSize(t)
           lines == [i \in 1..n |-> f.index[i].line]
           chars == [i \in 1..n |-> f.index[i].char]
<1>1. /\ n \in Nat /\ n >= 1 /\ DOMAIN f.index = 1..n /\ 1 \in 1..n
      /\ \A i \in 1..n : f.index[i] = IndexMarker(t, i)
      /\ \A i \in 1..n : TrueMarker(t, f.index[i])
      /\ f.index[1].char = 0 /\ f.index[1].line = 1
  <2>1. f.index = [i \in 1..n |-> IndexMarker(t, i)]
    BY DEF Describes
  <2> HIDE DEF n
  <2>2. n \in Nat /\ n >= 1 /\ 1 \in 1..n
    BY IndexIs DEF n
  <2>3. \A i \in 1..n : TrueMarker(t, IndexMarker(t, i))
    BY IndexIs DEF n
  <2> QED
    BY <2>1, <2>2, <2>3, IndexIs
<1>2. \A i \in 1..n : f.index[i].line \in Int /\ f.index[i].char \in Int
  BY <1>1, TrueIs
<1> HIDE DEF n
<1>3. lines \in Seq(Int) /\ Len(lines) = n /\ chars \in Seq(Int) /\ Len(chars) = n
  <2>1. lines \in [1..n -> Int] /\ chars \in [1..n -> Int]
    BY <1>2
  <2>2. \A g \in [1..n -> Int] : g \in Seq(Int) /\ Len(g) = n
    BY ONLY <1>1
  <2> HIDE DEF lines, chars
  <2> QED
    BY ONLY <2>1, <2>2
<1>4. /\ lines = [i \in DOMAIN f.index |-> f.index[i].line]
      /\ chars = [i \in DOMAIN f.index |-> f.index[i].char]
  BY <1>1
<1>5. /\ \A i \in 1..n : lines[i] = f.index[i].line
      /\ \A i \in 1..n : chars[i] = f.index[i].char
  OBVIOUS
<1> HIDE DEF lines, chars
<1>6. LastUpTo(lines, x) \in 1..n /\ (LastUpTo(lines, x) = 1 \/ lines[LastUpTo(lines, x)] <= x)
  <2>1. Len(lines) # 0
    BY <1>1, <1>3
  <2> QED
    BY ONLY <1>3, <2>1, x \in Int, SearchIs
<1>7. LastUpTo(chars, x) \in 1..n /\ (LastUpTo(chars, x) = 1 \/ chars[LastUpTo(chars, x)] <= x)
  <2>1. Len(chars) # 0
    BY <1>1, <1>3
  <2> QED
    BY ONLY <1>3, <2>1, x \in Int, SearchIs
<1>8. PICK a, b : a = LastUpTo(lines, x) /\ b = LastUpTo(chars, x)
  OBVIOUS
<1>9. x >= 1 => TrueMarker(t, f.index[a]) /\ f.index[a].line <= x
  BY <1>1, <1>5, <1>6, <1>8
<1>10. x >= 0 => TrueMarker(t, f.index[b]) /\ f.index[b].char <= x
  BY <1>1, <1>5, <1>7, <1>8
<1> QED
  BY <1>4, <1>8, <1>9, <1>10

-----------------------------------------------------------------------------
(* The marker moves to the line that is asked for, and no further.         *)
ToLine(f, m, line) == AdvanceWhile(f, m, LAMBDA at : at.line < line)
ToChar(f, m, offset) ==
  AdvanceWhile(f, m, LAMBDA at : at.char + f.lengths[at.array + 1] < offset)
LEMMA LastOfAll ==
  ASSUME NEW t \in Text, NEW m, TrueMarker(t, m), m.array + 1 = Len(All(t))
  PROVE  m.line = NL(t) + 1 /\ m.char + All(t)[m.array + 1] = t.size
<1>1. PICK l, j : IsAt(t, l, j, m)
  BY DEF TrueMarker
<1>2. l = NL(t) + 1 /\ j = Parts(t, l) /\ m.line = l
  BY <1>1, AtIs
<1>3. m.char = Start(t, l) + Skip(j) /\ Skip(j) \in Nat
  BY <1>1, AtIs
<1>4. All(t)[m.array + 1] = Rest(t, l)
  BY <1>1, <1>2, AtIs
<1>5. l \in LinesOf(t)
  BY <1>1 DEF IsAt
<1>6. Length(t, l) = Skip(j) + Rest(t, l) /\ Rest(t, l) \in Nat
  BY <1>2, <1>5, PartsAre, SourceFileAssumption
<1>7. Start(t, l) + Length(t, l) = t.size /\ Start(t, l) \in Nat
  BY <1>2, <1>5, LinesAre
<1> QED
  BY <1>2, <1>3, <1>4, <1>6, <1>7
(* From one marker to the next.                                            *)
LEMMA NextMarker ==
  ASSUME NEW t \in Text, NEW m, TrueMarker(t, m)
  PROVE  LET e == All(t)[m.array + 1]
             a == AdvanceMarker(m, e)
         IN  /\ e \in Nat
             /\ a.line = m.line \/ a.line = m.line + 1
             /\ a.char <= m.char + e + 1 /\ a.char \in Nat
<1> DEFINE e == All(t)[m.array + 1]
<1>1. /\ m.char \in Nat /\ m.line \in Nat /\ m.col \in Nat /\ m.array \in Nat
      /\ m.array < Len(All(t))
  BY TrueIs
<1>2. e \in Nat
  <2>1. PICK S : S = 0..LongLine
    OBVIOUS
  <2>2. All(t) \in Seq(S)
    BY <2>1, LinesAre, LengthsUnfold DEF All
  <2>3. Len(All(t)) \in Nat
    BY <2>2
  <2>4. m.array + 1 \in 1..Len(All(t))
    BY <1>1, <2>3
  <2>5. e \in S
    BY <2>2, <2>4, EntryIn
  <2> QED
    BY <2>1, <2>5, SourceFileAssumption
<1> HIDE DEF e
<1>3. CASE e < LongLine
  <2>1. AdvanceMarker(m, e) = Marker(m.char + e + 1, m.line + 1, m.array + 1, 1)
    BY <1>3 DEF AdvanceMarker
  <2> QED
    BY <1>1, <1>2, <2>1 DEF Marker, e
<1>4. CASE ~ e < LongLine
  <2>1. AdvanceMarker(m, e) = Marker(m.char + e - 1, m.line, m.array + 1, m.col + e - 1)
    BY <1>4 DEF AdvanceMarker
  <2>2. e >= 1
    BY <1>2, <1>4, SourceFileAssumption
  <2>3. m.char + e - 1 \in Nat /\ m.char + e - 1 <= m.char + e + 1
    BY <1>1, <1>2, <2>2
  <2> QED
    BY <1>1, <1>2, <2>1, <2>3 DEF Marker, e
<1> QED
  BY <1>3, <1>4
LEMMA MovedToLine ==
  ASSUME NEW t \in Text, NEW f, f.lengths = All(t), NEW m, TrueMarker(t, m),
         NEW line \in LinesOf(t), m.line <= line
  PROVE  TrueMarker(t, ToLine(f, m, line)) /\ ToLine(f, m, line).line = line
<1> DEFINE n == Len(f.lengths) - m.array
           a == Advanced(f, m)
           G == {i \in 0..n : a[i].line < line}
           T == {i \in 0..n : i = n \/ ~ a[i].line < line}
<1>1. PICK l0, j0 : IsAt(t, l0, j0, m)
  BY DEF TrueMarker
<1>2. /\ n \in Nat /\ n >= 1 /\ m.array \in Nat /\ a[0] = m
      /\ \A i \in 1..n : a[i] = AdvanceMarker(a[i - 1], f.lengths[m.array + i])
      /\ \A i \in 0..(n - 1) : a[i].array = m.array + i /\ TrueMarker(t, a[i])
  BY <1>1, AdvancedAre
<1>3. line \in Nat /\ line <= NL(t) + 1 /\ NL(t) \in Nat
  BY LinesAre DEF LinesOf
<1>4. ToLine(f, m, line) = a[Min(T)]
  BY DEF ToLine, AdvanceWhile
<1>5. T = {i \in 0..n : i = n \/ i \notin G}
  OBVIOUS
<1>6. n - 1 \in 0..n /\ n - 1 < n /\ n - 1 \notin G
  <2>1. n - 1 \in 0..(n - 1) /\ n - 1 \in 0..n /\ n - 1 < n
    <3> HIDE DEF n
    <3> QED
      BY <1>2
  <2>2. a[n - 1].array = m.array + (n - 1) /\ TrueMarker(t, a[n - 1])
    <3> HIDE DEF n, a
    <3> QED
      BY <1>2, <2>1
  <2>3. m.array + (n - 1) + 1 = Len(All(t))
    <3>1. Len(All(t)) \in Nat
      BY <1>1, AtIs
    <3> QED
      BY <1>2, <3>1
  <2>4. a[n - 1].line = NL(t) + 1
    <3> HIDE DEF n, a
    <3> QED
      BY <2>2, <2>3, LastOfAll
  <2> QED
    BY <1>3, <2>1, <2>4
<1>7. PICK r : r = Min(T)
  OBVIOUS
<1>8. r \in 0..(n - 1) /\ r \notin G /\ \A i \in 0..(r - 1) : i \in G
  <2> HIDE DEF n, G, T
  <2>1. n \in Nat /\ \E i \in 0..n : i < n /\ i \notin G
    BY <1>2, <1>6
  <2>2. r = Min({i \in 0..n : i = n \/ i \notin G})
    BY ONLY <1>5, <1>7
  <2> QED
    BY ONLY <2>1, <2>2, FirstStop
<1>9. TrueMarker(t, a[r]) /\ ~ a[r].line < line /\ a[r].line \in Nat
  <2>1. r \in 0..n
    <3> HIDE DEF n
    <3> QED
      BY <1>2, <1>8
  <2>2. TrueMarker(t, a[r])
    <3> HIDE DEF n, a
    <3> QED
      BY <1>2, <1>8
  <2> HIDE DEF n, a
  <2> QED
    BY <1>8, <2>1, <2>2, TrueIs
<1>10. a[r].line <= line
  <2>1. CASE r = 0
    BY <1>2, <2>1
  <2>2. CASE r # 0
    <3>1. r - 1 \in 0..(r - 1) /\ r - 1 \in 0..(n - 1) /\ r \in 1..n /\ r - 1 \in 0..n
      <4> HIDE DEF n
      <4> QED
        BY <1>2, <1>8, <2>2
    <3>2. PICK b : b = a[r - 1]
      OBVIOUS
    <3>3. b.line < line /\ b.array = m.array + (r - 1) /\ TrueMarker(t, b)
      <4>1. r - 1 \in G
        BY <1>8, <3>1
      <4>2. a[r - 1].line < line
        BY <4>1
      <4> HIDE DEF n, a, G
      <4> QED
        BY <1>2, <3>1, <3>2, <4>2
    <3>4. a[r] = AdvanceMarker(b, All(t)[b.array + 1])
      <4>1. b.array + 1 = m.array + r
        BY <1>2, <3>1, <3>3
      <4> HIDE DEF n, a
      <4> QED
        BY <1>2, <3>1, <3>2, <4>1
    <3>5. a[r].line = b.line \/ a[r].line = b.line + 1
      <4> HIDE DEF a
      <4> QED
        BY <3>3, <3>4, NextMarker
    <3>6. b.line \in Nat
      BY <3>3, TrueIs
    <3> HIDE DEF a
    <3> QED
      BY <1>3, <3>3, <3>5, <3>6
  <2> QED
    BY <2>1, <2>2
<1> HIDE DEF a, T
<1> QED
  BY <1>3, <1>4, <1>7, <1>9, <1>10
LEMMA MovedToChar ==
  ASSUME NEW t \in Text, NEW f, f.lengths = All(t), NEW m, TrueMarker(t, m),
         NEW x \in 0..t.size, m.char <= x
  PROVE  LET r == ToChar(f, m, x) IN
           TrueMarker(t, r) /\ r.char <= x /\ x <= r.char + All(t)[r.array + 1]
<1> DEFINE n == Len(f.lengths) - m.array
           a == Advanced(f, m)
           Goes(i) == a[i].char + f.lengths[a[i].array + 1] < x
           G == {i \in 0..n : Goes(i)}
           T == {i \in 0..n : i = n \/ ~ Goes(i)}
<1>1. PICK l0, j0 : IsAt(t, l0, j0, m)
  BY DEF TrueMarker
<1>2. /\ n \in Nat /\ n >= 1 /\ m.array \in Nat /\ a[0] = m
      /\ \A i \in 1..n : a[i] = AdvanceMarker(a[i - 1], f.lengths[m.array + i])
      /\ \A i \in 0..(n - 1) : a[i].array = m.array + i /\ TrueMarker(t, a[i])
  <2>1. /\ n \in Nat /\ n >= 1 /\ m.array \in Nat
        /\ a[0] = m
        /\ \A i \in 1..n : a[i] = AdvanceMarker(a[i - 1], f.lengths[m.array + i])
        /\ \A i \in 0..(n - 1) : a[i].array = m.array + i /\ TrueMarker(t, a[i])
    BY <1>1, AdvancedAre, ZenonT(40)
  <2> HIDE DEF n, a, Goes, G, T
  <2> QED
    BY ONLY <2>1
<1>3. x \in Nat /\ x <= t.size /\ t.size \in Nat
  BY LinesAre
<1>4. ToChar(f, m, x) = a[Min(T)]
  BY DEF ToChar, AdvanceWhile
<1>5. T = {i \in 0..n : i = n \/ i \notin G}
  OBVIOUS
<1>6. n - 1 \in 0..n /\ n - 1 < n /\ n - 1 \notin G
  <2>1. n - 1 \in 0..(n - 1) /\ n - 1 \in 0..n /\ n - 1 < n
    <3> HIDE DEF n
    <3> QED
      BY <1>2
  <2>2. a[n - 1].array = m.array + (n - 1) /\ TrueMarker(t, a[n - 1])
    <3> HIDE DEF n, a
    <3> QED
      BY <1>2, <2>1
  <2>3. m.array + (n - 1) + 1 = Len(All(t))
    <3>1. Len(All(t)) \in Nat
      BY <1>1, AtIs
    <3> QED
      BY <1>2, <3>1
  <2>4. a[n - 1].char + All(t)[a[n - 1].array + 1] = t.size
    <3> HIDE DEF n, a
    <3> QED
      BY <2>2, <2>3, LastOfAll
  <2>5. ~ t.size < x
    BY <1>3
  <2>6. ~ Goes(n - 1)
    <3> HIDE DEF n, a
    <3> QED
      BY <2>4, <2>5
  <2> HIDE DEF Goes, n
  <2> QED
    BY <2>1, <2>6
<1>7. PICK r : r = Min(T)
  OBVIOUS
<1>8. r \in 0..(n - 1) /\ r \notin G /\ \A i \in 0..(r - 1) : i \in G
  <2> HIDE DEF n, G, T
  <2>1. n \in Nat /\ \E i \in 0..n : i < n /\ i \notin G
    BY <1>2, <1>6
  <2>2. r = Min({i \in 0..n : i = n \/ i \notin G})
    BY ONLY <1>5, <1>7
  <2> QED
    BY ONLY <2>1, <2>2, FirstStop
<1>9. TrueMarker(t, a[r]) /\ ~ Goes(r) /\ a[r].char \in Nat
  <2>1. r \in 0..n
    <3> HIDE DEF n
    <3> QED
      BY <1>2, <1>8
  <2>2. TrueMarker(t, a[r])
    <3> HIDE DEF n, a
    <3> QED
      BY <1>2, <1>8
  <2>3. ~ Goes(r)
    <3> HIDE DEF n, Goes
    <3> QED
      BY <1>8, <2>1
  <2>4. a[r].char \in Nat
    <3> HIDE DEF a
    <3> QED
      BY <2>2, TrueIs
  <2> QED
    BY <2>2, <2>3, <2>4
<1>10. a[r].char <= x
  <2>1. CASE r = 0
    BY <1>2, <2>1
  <2>2. CASE r # 0
    <3>1. r - 1 \in 0..(r - 1) /\ r - 1 \in 0..(n - 1) /\ r \in 1..n /\ r - 1 \in 0..n
      <4> HIDE DEF n
      <4> QED
        BY <1>2, <1>8, <2>2
    <3>2. PICK b : b = a[r - 1]
      OBVIOUS
    <3>3. b.array = m.array + (r - 1) /\ TrueMarker(t, b)
      <4> HIDE DEF n, a
      <4> QED
        BY <1>2, <3>1, <3>2
    <3>4. b.char + All(t)[b.array + 1] < x
      <4>1. r - 1 \in G
        BY <1>8, <3>1
      <4>2. Goes(r - 1)
        <5> HIDE DEF Goes
        <5> QED
          BY <4>1
      <4> HIDE DEF a
      <4> QED
        BY <3>2, <4>2
    <3>5. a[r] = AdvanceMarker(b, All(t)[b.array + 1])
      <4>1. b.array + 1 = m.array + r
        BY <1>2, <3>1, <3>3
      <4> HIDE DEF n, a
      <4> QED
        BY <1>2, <3>1, <3>2, <4>1
    <3>6. /\ All(t)[b.array + 1] \in Nat /\ a[r].char \in Nat
          /\ a[r].char <= b.char + All(t)[b.array + 1] + 1
      <4> HIDE DEF a
      <4> QED
        BY <3>3, <3>5, NextMarker
    <3>7. b.char \in Nat
      BY <3>3, TrueIs
    <3> HIDE DEF a
    <3> QED
      BY <1>3, <3>4, <3>6, <3>7
  <2> QED
    BY <2>1, <2>2
<1>11. x <= a[r].char + All(t)[a[r].array + 1]
  <2>1. All(t)[a[r].array + 1] \in Nat
    <3> HIDE DEF a
    <3> QED
      BY <1>9, NextMarker
  <2>2. ~ a[r].char + All(t)[a[r].array + 1] < x
    BY <1>9
  <2> HIDE DEF a
  <2> QED
    BY <1>3, <1>9, <2>1, <2>2
<1> HIDE DEF a, T, Goes
<1> QED
  BY <1>4, <1>7, <1>9, <1>10, <1>11

-----------------------------------------------------------------------------
(* A text ends in a newline, or is empty, if its last line is.             *)
LEMMA LastLineIs ==
  ASSUME NEW t \in Text
  PROVE  /\ IsFiniteSet(LastLine(t)) /\ Cardinality(LastLine(t)) \in Nat
         /\ NumChars(t) \in Nat
         /\ (LastLine(t) = {} \/ NumChars(t) <= t.size) =>
              NumChars(t) = t.size /\ Start(t, NL(t) + 1) = t.size /\ Length(t, NL(t) + 1) = 0
<1> DEFINE e == NL(t) + 1
<1>1. /\ NL(t) \in Nat /\ t.size \in Nat /\ e \in LinesOf(t)
      /\ Start(t, e) \in Nat /\ Length(t, e) \in Nat /\ Start(t, e) + Length(t, e) = t.size
  BY LinesAre DEF LinesOf
<1>2. IsFiniteSet(LastLine(t)) /\ Cardinality(LastLine(t)) \in Nat
  <2>1. LastLine(t) \subseteq 0..(t.size - 1)
    BY DEF LastLine
  <2>2. IsFiniteSet(0..(t.size - 1))
    <3>1. 0 \in Int /\ t.size - 1 \in Int
      BY <1>1
    <3> QED
      BY <3>1, FS_Interval
  <2> QED
    BY <2>1, <2>2, FS_Subset, FS_CardinalityType
<1>3. NumChars(t) = t.size + Cardinality(LastLine(t))
  BY DEF NumChars
<1>4. ASSUME LastLine(t) = {} PROVE Length(t, e) = 0
  <2>1. ASSUME Length(t, e) # 0 PROVE Start(t, e) \in LastLine(t)
    <3>1. Start(t, e) \in 0..(t.size - 1)
      BY <1>1, <2>1
    <3>2. ASSUME NEW q \in t.newlines PROVE q < Start(t, e)
      <4>1. PICK i \in 1..NL(t) : Newlines(t)[i] = q
        BY NewlinesAre DEF NL
      <4>2. NL(t) \in 1..NL(t) /\ e # 1 /\ e - 1 = NL(t)
        BY <1>1, <4>1
      <4>3. Start(t, e) = Newlines(t)[NL(t)] + 1
        BY <4>2 DEF Start
      <4>4. i = NL(t) \/ i < NL(t)
        BY <1>1
      <4>5. i < NL(t) => Newlines(t)[i] < Newlines(t)[NL(t)]
        BY <4>2, NewlinesAre DEF NL
      <4>6. Newlines(t)[i] \in Int /\ Newlines(t)[NL(t)] \in Int
        BY <4>2, NewlinesAre DEF NL
      <4> QED
        BY <4>1, <4>3, <4>4, <4>5, <4>6
    <3> QED
      BY <3>1, <3>2 DEF LastLine
  <2> QED
    BY <1>4, <2>1
<1>5. ASSUME NumChars(t) <= t.size PROVE LastLine(t) = {}
  <2>1. Cardinality(LastLine(t)) = 0
    BY <1>1, <1>2, <1>3, <1>5
  <2> QED
    BY <1>2, <2>1, FS_EmptySet
<1>6. ASSUME LastLine(t) = {} PROVE NumChars(t) = t.size
  <2>1. Cardinality(LastLine(t)) = 0
    BY <1>6, FS_EmptySet
  <2> QED
    BY <1>1, <1>3, <2>1
<1> QED
  BY <1>1, <1>2, <1>3, <1>4, <1>5, <1>6

(* lineToChar: the marker goes to the line, and stays true.                *)
LEMMA MarkerFound ==
  ASSUME NEW t \in Text, NEW f, Describes(t, f), NEW line \in LinesOf(t)
  PROVE  /\ TrueMarker(t, MarkerForLine(f, line))
         /\ line # NL(t) + 1 => MarkerForLine(f, line).line = line
<1> DEFINE start == IF Near(f.marker.line, line, MarkerPeriod) THEN f.marker
                    ELSE f.index[LastUpTo([i \in DOMAIN f.index |-> f.index[i].line], line)]
<1>1. f.numLines = NL(t) /\ f.lengths = All(t) /\ TrueMarker(t, f.marker)
  BY DEF Describes
<1>2. line \in Int /\ line >= 1
  BY LinesAre DEF LinesOf
<1>3. CASE line = NL(t) + 1
  <2>1. MarkerForLine(f, line) = f.marker
    BY <1>1, <1>3 DEF MarkerForLine
  <2> QED
    BY <1>1, <1>3, <2>1
<1>4. CASE line # NL(t) + 1
  <2>1. TrueMarker(t, start) /\ start.line <= line
    <3>1. CASE Near(f.marker.line, line, MarkerPeriod)
      BY <1>1, <3>1 DEF Near
    <3>2. CASE ~ Near(f.marker.line, line, MarkerPeriod)
      BY <1>2, <3>2, IndexFound
    <3> QED
      BY <3>1, <3>2
  <2>2. MarkerForLine(f, line) = ToLine(f, start, line)
    BY <1>1, <1>4 DEF MarkerForLine, ToLine
  <2> HIDE DEF start
  <2> QED
    BY <1>1, <2>1, <2>2, MovedToLine
<1> QED
  BY <1>3, <1>4

(* lineColToChar: from a true marker on the line, the place is found or the*)
(* end of the line.                                                        *)
LEMMA LineColIs ==
  ASSUME NEW t \in Text, NEW f, Describes(t, f), NEW line \in LinesOf(t),
         NEW col \in Nat \ {0}
  PROVE  LET r == LineColToChar(f, line, col) IN
           /\ TrueMarker(t, r.marker)
           /\ line # NL(t) + 1 =>
                /\ r.truncated = (Start(t, line) + col - 1 > Start(t, line) + Length(t, line))
                /\ r.offset = IF Start(t, line) + col - 1 > Start(t, line) + Length(t, line)
                              THEN Start(t, line) + Length(t, line)
                              ELSE Start(t, line) + col - 1
           /\ line = NL(t) + 1 /\ LastLine(t) = {} /\ col = 1 =>
                r.truncated = FALSE /\ r.offset = t.size
<1> DEFINE r == LineColToChar(f, line, col)
           d == LongLine - 1
           len == Length(t, line)
           start == Start(t, line)
           p == Parts(t, line)
<1>1. PICK m : m = MarkerForLine(f, line)
  OBVIOUS
<1>2. TrueMarker(t, m) /\ (line # NL(t) + 1 => m.line = line)
  BY <1>1, MarkerFound
<1>3. r.marker = m
  BY <1>1 DEF LineColToChar
<1>4. f.numLines = NL(t) /\ f.lengths = All(t) /\ f.numChars = NumChars(t)
  BY DEF Describes
<1>5. m.char \in Nat /\ m.col \in Nat \ {0} /\ m.array \in Nat /\ m.char = Start(t, m.line) + m.col - 1
  BY <1>2, TrueIs
<1>6. start \in Nat /\ len \in Nat /\ line \in Nat
  BY LinesAre DEF LinesOf
<1>7. ASSUME line = NL(t) + 1, LastLine(t) = {}, col = 1
      PROVE  r.truncated = FALSE /\ r.offset = t.size
  <2>1. col <= m.col
    BY <1>5, <1>7
  <2>2. LineToChar(f, line, m) = NumChars(t)
    BY <1>4, <1>7 DEF LineToChar
  <2>3. r = [marker |-> m, offset |-> LineToChar(f, line, m) + col - 1, truncated |-> FALSE]
    BY <1>1, <2>1 DEF LineColToChar
  <2>4. NumChars(t) = t.size /\ t.size \in Nat
    BY <1>7, LastLineIs, LinesAre
  <2> HIDE DEF r
  <2> QED
    BY <1>7, <2>2, <2>3, <2>4
<1>8. ASSUME line # NL(t) + 1, col <= m.col
      PROVE  r.truncated = FALSE /\ r.offset = start + col - 1 /\ ~ start + col - 1 > start + len
  <2>1. LineToChar(f, line, m) = m.char - (m.col - 1)
    BY <1>4, <1>8 DEF LineToChar
  <2>2. r = [marker |-> m, offset |-> LineToChar(f, line, m) + col - 1, truncated |-> FALSE]
    BY <1>1, <1>8 DEF LineColToChar
  <2>3. m.char = start + m.col - 1 /\ m.col - 1 <= len
    BY <1>2, <1>5, <1>8, TrueIs
  <2> HIDE DEF r, start, len
  <2> QED
    BY <1>5, <1>6, <1>8, <2>1, <2>2, <2>3
<1>9. ASSUME line # NL(t) + 1, ~ col <= m.col
      PROVE  /\ r.truncated = (start + col - 1 > start + len)
             /\ r.offset = IF start + col - 1 > start + len THEN start + len ELSE start + col - 1
  <2> DEFINE left(k) == col - m.col - (k - m.array - 1) * (LongLine - 1)
             K == {k \in (m.array + 1)..Len(f.lengths) :
                     left(k) <= f.lengths[k] \/ f.lengths[k] < LongLine}
  <2>1. PICK j : IsAt(t, line, j, m)
    BY <1>2, <1>9, AtIs DEF TrueMarker
  <2>2. /\ j \in Nat /\ p \in Nat /\ j <= p /\ Skip(j) \in Nat /\ m.char = start + Skip(j)
        /\ m.col = 1 + Skip(j) /\ m.array = Base(t, line - 1) + j
    BY <2>1, AtIs DEF IsAt
  <2>3. EntriesOf(t, All(t), NL(t) + 1) /\ line \in 1..(NL(t) + 1)
    BY LinesAre, Entries DEF All, LinesOf
  <2>4. PICK base \in Nat : base = Base(t, line - 1)
    BY <2>3 DEF EntriesOf
  <2>5. /\ \A i \in 1..p : All(t)[base + i] = LongLine
        /\ All(t)[base + p + 1] = Rest(t, line)
        /\ base + p + 1 <= Len(All(t))
    BY <2>3, <2>4 DEF EntriesOf
  <2>6. Rest(t, line) \in Nat /\ Rest(t, line) < LongLine /\ len = Skip(p) + Rest(t, line) /\ (p > 0 => Rest(t, line) >= 1)
    BY PartsAre, SourceFileAssumption
  <2>7. Len(All(t)) \in Nat
    BY <2>1, AtIs
  <2>8. PICK stop : stop = Min(K)
    OBVIOUS
  <2>9. stop \in K /\ stop <= base + p + 1
    <3>1. base + p + 1 \in K
      <4>1. base + p + 1 \in (m.array + 1)..Len(f.lengths)
        <5> HIDE DEF p
        <5> QED
          BY <1>4, <2>2, <2>4, <2>5, <2>7
      <4>2. f.lengths[base + p + 1] < LongLine
        BY <1>4, <2>5, <2>6
      <4> HIDE DEF left, p
      <4> QED
        BY <4>1, <4>2
    <3>2. K \in SUBSET Nat
      BY <1>5
    <3> HIDE DEF K
    <3>3. Min(K) \in K /\ \A y \in K : Min(K) <= y
      BY ONLY <3>1, <3>2, MinIs
    <3> QED
      BY <2>8, <3>1, <3>3
  <2>10. /\ stop \in (m.array + 1)..Len(f.lengths)
         /\ left(stop) <= f.lengths[stop] \/ f.lengths[stop] < LongLine
    BY <2>9
  <2>11. PICK i \in Nat : i = stop - m.array - 1 /\ j + i <= p /\ stop = base + (j + i) + 1
    <3>1. stop \in Int /\ stop >= m.array + 1
      BY <1>5, <2>10
    <3>2. PICK a \in Nat : a = stop - m.array - 1
      BY <1>5, <3>1
    <3>3. m.array = base + j /\ stop <= base + p + 1 /\ p \in Nat /\ j \in Nat
      BY <2>2, <2>4, <2>9
    <3>4. stop \in Int /\ base \in Nat /\ m.array \in Nat
      BY <1>5, <2>4, <3>1
    <3> HIDE DEF p
    <3>5. j + a <= p /\ stop = base + (j + a) + 1
      BY ONLY <3>2, <3>3, <3>4, a \in Nat
    <3> QED
      BY <3>2, <3>5
  <2>12. /\ (stop - m.array - 1) * (LongLine - 1) = Skip(i)
         /\ Skip(i) \in Nat /\ Skip(j + i) = Skip(j) + Skip(i) /\ Skip(p) \in Nat
    BY <2>2, <2>11, Skips DEF Skip
  <2>13. left(stop) = col - 1 - Skip(j + i)
    <3>1. left(stop) = col - m.col - Skip(i)
      BY <2>12
    <3> HIDE DEF left
    <3> QED
      BY <2>2, <2>12, <3>1
  <2>14. r = [marker |-> m, truncated |-> left(stop) > f.lengths[stop],
              offset |-> m.char + (stop - m.array - 1) * (LongLine - 1)
                           + IF left(stop) > f.lengths[stop] THEN f.lengths[stop] ELSE left(stop)]
    BY <1>1, <1>9, <2>8 DEF LineColToChar
  <2>15. r = [marker |-> m, truncated |-> left(stop) > f.lengths[stop],
              offset |-> m.char + Skip(i)
                           + IF left(stop) > f.lengths[stop] THEN f.lengths[stop] ELSE left(stop)]
    <3> HIDE DEF left, r
    <3> QED
      BY <2>12, <2>14
  <2> HIDE DEF left, r, p, len, start
  <2>16. CASE j + i = p
    <3>1. f.lengths[stop] = Rest(t, line)
      BY <1>4, <2>5, <2>11, <2>16
    <3>2. left(stop) > Rest(t, line) <=> start + col - 1 > start + len
      BY <1>6, <2>2, <2>6, <2>12, <2>13, <2>16
    <3>3. start + Skip(j) + Skip(i) + Rest(t, line) = start + len
      BY <1>6, <2>2, <2>6, <2>12, <2>16
    <3>4. start + Skip(j) + Skip(i) + left(stop) = start + col - 1
      BY <1>6, <2>2, <2>12, <2>13
    <3> QED
      BY <2>2, <2>15, <3>1, <3>2, <3>3, <3>4
  <2>17. CASE j + i < p
    <3>1. f.lengths[stop] = LongLine
      <4>1. (j + i) + 1 \in 1..p /\ stop = base + ((j + i) + 1)
        BY <2>2, <2>4, <2>11, <2>17
      <4> QED
        BY <1>4, <2>5, <4>1
    <3>2. left(stop) <= LongLine
      BY <2>10, <3>1, SourceFileAssumption
    <3>3. Skip(j + i) + (LongLine - 1) <= Skip(p)
      <4>1. j + i \in Nat /\ p \in Nat
        BY <2>2, <2>11
      <4> QED
        BY <2>17, <4>1, Skips
    <3>4. ~ start + col - 1 > start + len
      <4>1. Rest(t, line) >= 1
        BY <2>2, <2>6, <2>11, <2>17
      <4>2. Skip(j + i) \in Nat /\ LongLine \in Nat
        BY <2>2, <2>12, SourceFileAssumption
      <4> QED
        BY <1>6, <2>6, <2>12, <2>13, <3>2, <3>3, <4>1, <4>2
    <3>5. start + Skip(j) + Skip(i) + left(stop) = start + col - 1
      BY <1>6, <2>2, <2>12, <2>13
    <3>6. ~ left(stop) > f.lengths[stop]
      BY <2>2, <2>12, <2>13, <3>1, <3>2, SourceFileAssumption
    <3> QED
      BY <2>2, <2>15, <3>4, <3>5, <3>6
  <2> QED
    BY <2>2, <2>11, <2>16, <2>17
<1>10. /\ TrueMarker(t, r.marker)
       /\ line # NL(t) + 1 =>
            /\ r.truncated = (start + col - 1 > start + len)
            /\ r.offset = IF start + col - 1 > start + len THEN start + len ELSE start + col - 1
       /\ line = NL(t) + 1 /\ LastLine(t) = {} /\ col = 1 =>
            r.truncated = FALSE /\ r.offset = t.size
  <2>1. CASE line = NL(t) + 1
    BY <1>2, <1>3, <1>7, <2>1
  <2>2. CASE line # NL(t) + 1 /\ col <= m.col
    <3>1. r.truncated = FALSE /\ r.offset = start + col - 1 /\ ~ start + col - 1 > start + len
      BY <1>8, <2>2
    <3>2. r.truncated = (start + col - 1 > start + len)
      <4>1. (start + col - 1 > start + len) = FALSE
        BY ONLY <3>1
      <4> QED
        BY ONLY <3>1, <4>1
    <3>3. r.offset = IF start + col - 1 > start + len THEN start + len ELSE start + col - 1
      BY ONLY <3>1, Zenon
    <3> HIDE DEF r, start, len
    <3> QED
      BY <1>2, <1>3, <2>2, <3>2, <3>3
  <2>3. CASE line # NL(t) + 1 /\ ~ col <= m.col
    <3>1. /\ r.truncated = (start + col - 1 > start + len)
          /\ r.offset = IF start + col - 1 > start + len THEN start + len ELSE start + col - 1
      BY <1>9, <2>3
    <3> HIDE DEF r, start, len
    <3> QED
      BY <1>2, <1>3, <2>3, <3>1
  <2> QED
    BY <2>1, <2>2, <2>3
<1> QED
  BY <1>10

(* charToLineCol: the line and column of a character, from wherever the    *)
(* marker is.                                                              *)
LEMMA PlaceIs ==
  ASSUME NEW t \in Text, NEW f, Describes(t, f), NEW x \in Nat,
         x \in 0..t.size \/ x = f.numChars
  PROVE  LET c == CharToLineCol(f, x) IN
           /\ TrueMarker(t, c.marker) /\ c.col \in Nat \ {0}
           /\ x \in 0..t.size =>
                /\ c.line \in LinesOf(t)
                /\ x \in Start(t, c.line)..(Start(t, c.line) + Length(t, c.line))
                /\ c.col = 1 + x - Start(t, c.line)
<1> DEFINE c == CharToLineCol(f, x)
           start == IF Near(f.marker.char, x, MarkerPeriod * f.avg) THEN f.marker
                    ELSE f.index[LastUpTo([i \in DOMAIN f.index |-> f.index[i].char], x)]
<1>1. f.numLines = NL(t) /\ f.lengths = All(t) /\ f.numChars = NumChars(t) /\ TrueMarker(t, f.marker)
  BY DEF Describes
<1>2. CASE x = f.numChars
  <2>1. c = [marker |-> f.marker, line |-> NL(t) + 1, col |-> 1]
    BY <1>1, <1>2 DEF CharToLineCol
  <2>2. x \in 0..t.size => x = t.size /\ Start(t, NL(t) + 1) = t.size /\ Length(t, NL(t) + 1) = 0
    BY <1>1, <1>2, LastLineIs
  <2>3. NL(t) + 1 \in LinesOf(t) /\ t.size \in Nat
    BY LinesAre DEF LinesOf
  <2> HIDE DEF c
  <2>4. c.marker = f.marker /\ c.line = NL(t) + 1 /\ c.col = 1
    BY <2>1
  <2>5. ASSUME x \in 0..t.size
        PROVE  /\ x \in Start(t, NL(t) + 1)..(Start(t, NL(t) + 1) + Length(t, NL(t) + 1))
               /\ 1 = 1 + x - Start(t, NL(t) + 1)
    BY <2>2, <2>3, <2>5
  <2> QED
    BY <1>1, <2>3, <2>4, <2>5 DEF c
<1>3. CASE x # f.numChars
  <2>1. TrueMarker(t, start) /\ start.char <= x
    <3>1. CASE Near(f.marker.char, x, MarkerPeriod * f.avg)
      BY <1>1, <3>1 DEF Near
    <3>2. CASE ~ Near(f.marker.char, x, MarkerPeriod * f.avg)
      <4>1. x \in Int /\ x >= 0
        OBVIOUS
      <4>2. start = f.index[LastUpTo([i \in DOMAIN f.index |-> f.index[i].char], x)]
        BY <3>2
      <4> QED
        BY <4>1, <4>2, IndexFound
    <3> QED
      BY <3>1, <3>2
  <2>2. PICK r : r = ToChar(f, start, x)
    OBVIOUS
  <2>3. c = [marker |-> r, line |-> r.line, col |-> r.col + x - r.char]
    BY <1>3, <2>2 DEF CharToLineCol, ToChar
  <2> HIDE DEF start, c
  <2>4. TrueMarker(t, r) /\ r.char <= x /\ x <= r.char + All(t)[r.array + 1]
    BY <1>1, <1>3, <2>1, <2>2, MovedToChar
  <2>5. PICK l, j : IsAt(t, l, j, r)
    BY <2>4 DEF TrueMarker
  <2>6. /\ l \in LinesOf(t) /\ j \in Nat /\ j <= Parts(t, l) /\ Skip(j) \in Nat /\ Parts(t, l) \in Nat
        /\ r.char = Start(t, l) + Skip(j) /\ r.line = l /\ r.col = 1 + Skip(j)
        /\ j < Parts(t, l) => All(t)[r.array + 1] = LongLine
        /\ j = Parts(t, l) => All(t)[r.array + 1] = Rest(t, l)
    BY <2>5, AtIs DEF IsAt
  <2>7. Start(t, l) \in Nat /\ Length(t, l) \in Nat
    BY <2>6, LinesAre
  <2>8. PICK s, n, p, q : /\ s = Start(t, l) /\ n = Length(t, l) /\ p = Skip(Parts(t, l))
                          /\ q = Rest(t, l)
    OBVIOUS
  <2>9. p \in Nat /\ q \in Nat /\ n = p + q /\ (Parts(t, l) > 0 => q >= 1) /\ LongLine \in Nat
    BY <2>6, <2>8, PartsAre, Skips, SourceFileAssumption
  <2>10. x <= s + n
    <3>1. CASE j = Parts(t, l)
      BY <2>4, <2>6, <2>7, <2>8, <2>9, <3>1
    <3>2. CASE j < Parts(t, l)
      <4>1. Skip(j) + (LongLine - 1) <= p
        BY <2>6, <2>8, <3>2, Skips
      <4>2. x <= s + Skip(j) + LongLine /\ q >= 1
        BY <2>4, <2>6, <2>8, <2>9, <3>2
      <4> QED
        BY <2>6, <2>7, <2>8, <2>9, <4>1, <4>2
    <3> QED
      BY <2>6, <3>1, <3>2
  <2>11. s <= x /\ r.col + x - r.char = 1 + x - s
    BY <2>4, <2>6, <2>7, <2>8
  <2>12. c.marker = r /\ c.line = l /\ c.col = 1 + x - s
    BY <2>3, <2>6, <2>11
  <2>13. x \in s..(s + n) /\ 1 + x - s \in Nat \ {0}
    BY <2>7, <2>8, <2>10, <2>11
  <2> QED
    BY <2>4, <2>6, <2>8, <2>12, <2>13 DEF c
<1> QED
  BY <1>2, <1>3

-----------------------------------------------------------------------------
(* Locations counts, and tells the last line, as SourceFile does.          *)
LEMMA SameCounts ==
  /\ \A t, p : Locs!LineAt(t, p) = 1 + Cardinality({q \in t.newlines : q < p})
  /\ \A t : Locs!NumLines(t) = NL(t) /\ Locs!LastLine(t) = LastLine(t)
  /\ \A S : Locs!Cardinality(S) = Cardinality(S)
<1>1. \A S : Locs!Cardinality(S) = Cardinality(S)
  BY Zenon DEF Locs!Cardinality, Cardinality
<1>2. ASSUME NEW t, NEW p
      PROVE  Locs!LineAt(t, p) = 1 + Cardinality({q \in t.newlines : q < p})
  <2>1. Locs!LineAt(t, p) = 1 + Locs!Cardinality({q \in t.newlines : q < p})
    BY DEF Locs!LineAt
  <2> QED
    BY <1>1, <2>1
<1>3. ASSUME NEW t
      PROVE  Locs!NumLines(t) = NL(t) /\ Locs!LastLine(t) = LastLine(t)
  BY <1>1 DEF Locs!NumLines, NL, Locs!LastLine, LastLine
<1> QED
  BY <1>1, <1>2, <1>3

(* The lines of Locations are those of the files.                          *)
LEMMA LineAtIs ==
  ASSUME NEW t \in Text, NEW l \in LinesOf(t),
         NEW p \in Start(t, l)..(Start(t, l) + Length(t, l))
  PROVE  Locs!LineAt(t, p) = l
<1>1. Cardinality({q \in t.newlines : q < p}) = l - 1
  BY NewlinesBefore
<1>2. l \in Int
  BY LinesAre DEF LinesOf
<1> QED
  BY <1>1, <1>2, SameCounts

LEMMA StartsAre ==
  ASSUME NEW t \in Text, NEW l \in LinesOf(t)
  PROVE  Locs!LineStart(t, l) = Start(t, l) /\ Locs!LineEnd(t, l) = Start(t, l) + Length(t, l)
<1> DEFINE P == {0} \cup {q + 1 : q \in t.newlines}
<1>1. \A k \in LinesOf(t) : Locs!LineAt(t, Start(t, k)) = k
  <2> TAKE k \in LinesOf(t)
  <2>1. Start(t, k) \in Nat /\ Length(t, k) \in Nat
    BY LinesAre
  <2>2. Start(t, k) \in Start(t, k)..(Start(t, k) + Length(t, k))
    BY <2>1
  <2> QED
    BY <2>2, LineAtIs
<1>2. \A k \in LinesOf(t) : Start(t, k) \in P
  <2> TAKE k \in LinesOf(t)
  <2>1. CASE k = 1
    BY <2>1 DEF Start
  <2>2. CASE k # 1
    <3>1. k - 1 \in 1..NL(t)
      BY <2>2, LinesAre DEF LinesOf
    <3>2. Newlines(t)[k - 1] \in t.newlines
      BY <3>1, NewlinesAre DEF NL
    <3> QED
      BY <2>2, <3>2 DEF Start
  <2> QED
    BY <2>1, <2>2
<1>3. \A p \in P : \E k \in LinesOf(t) : p = Start(t, k)
  <2> TAKE p \in P
  <2>1. CASE p = 0
    <3>1. 1 \in LinesOf(t) /\ Start(t, 1) = 0
      BY LinesAre DEF LinesOf
    <3> QED
      BY <2>1, <3>1
  <2>2. CASE p # 0
    <3>1. PICK q \in t.newlines : p = q + 1
      BY <2>2
    <3>2. PICK i \in 1..NL(t) : Newlines(t)[i] = q
      BY NewlinesAre DEF NL
    <3>3. i + 1 \in LinesOf(t) /\ i + 1 # 1 /\ (i + 1) - 1 = i
      BY LinesAre DEF LinesOf
    <3>4. Start(t, i + 1) = q + 1
      BY <3>2, <3>3 DEF Start
    <3> QED
      BY <3>1, <3>3, <3>4
  <2> QED
    BY <2>1, <2>2
<1>4. Locs!LineStart(t, l) = CHOOSE p \in P : Locs!LineAt(t, p) = l
  BY DEF Locs!LineStart
<1> HIDE DEF P
<1>5. \A m \in LinesOf(t) : (CHOOSE p \in P : Locs!LineAt(t, p) = m) = Start(t, m)
  BY <1>1, <1>2, <1>3
<1>6. Locs!LineStart(t, l) = Start(t, l)
  BY <1>4, <1>5
<1>7. CASE l = NL(t) + 1
  <2>1. l > NL(t) /\ Start(t, l) + Length(t, l) = t.size
    BY <1>7, LinesAre
  <2> QED
    BY <1>6, <2>1, SameCounts DEF Locs!LineEnd
<1>8. CASE l # NL(t) + 1
  <2>1. l \in 1..NL(t) /\ ~ l > NL(t) /\ l + 1 \in LinesOf(t)
    BY <1>8, LinesAre DEF LinesOf
  <2>2. Locs!LineEnd(t, l) = Locs!LineStart(t, l + 1) - 1
    BY <2>1, SameCounts DEF Locs!LineEnd
  <2>3. Locs!LineStart(t, l + 1) = Start(t, l + 1)
    <3>1. Locs!LineStart(t, l + 1) = CHOOSE p \in P : Locs!LineAt(t, p) = l + 1
      BY DEF Locs!LineStart, P
    <3> QED
      BY <1>5, <2>1, <3>1
  <2>4. Start(t, l + 1) = Start(t, l) + Length(t, l) + 1 /\ Start(t, l) \in Nat /\ Length(t, l) \in Nat
    BY <2>1, LinesAre
  <2> QED
    BY <1>6, <2>2, <2>3, <2>4
<1> QED
  BY <1>7, <1>8

(* Of what a line and column stand for, and a place in a text.             *)
LEMMA EncodedIs ==
  ASSUME NEW t \in Text, NEW f, Describes(t, f), NEW line \in LinesOf(t),
         NEW col \in Nat \ {0}, Locs!LinePromised(t, line, col)
  PROVE  /\ LineColToChar(f, line, col).offset = Locs!OffsetOf(t, line, col)
         /\ LineColToChar(f, line, col).truncated = Locs!IsTruncated(t, line, col)
<1>1. PICK r : r = LineColToChar(f, line, col)
  OBVIOUS
<1>2. PICK s, n : s = Start(t, line) /\ n = Length(t, line)
  OBVIOUS
<1>3. s \in Nat /\ n \in Nat /\ NL(t) \in Nat
  BY <1>2, LinesAre
<1>4. Locs!IsTruncated(t, line, col) = (s + col - 1 > s + n)
  BY <1>2, StartsAre DEF Locs!IsTruncated
<1>5. Locs!OffsetOf(t, line, col) = IF s + col - 1 > s + n THEN s + n ELSE s + col - 1
  BY <1>2, <1>4, StartsAre DEF Locs!OffsetOf
<1>6. CASE line # NL(t) + 1
  <2>1. /\ r.truncated = (s + col - 1 > s + n)
        /\ r.offset = IF s + col - 1 > s + n THEN s + n ELSE s + col - 1
    BY <1>1, <1>2, <1>6, LineColIs
  <2> QED
    BY <1>1, <1>4, <1>5, <2>1
<1>7. CASE line = NL(t) + 1
  <2>1. LastLine(t) = {} /\ col = 1
    BY <1>3, <1>7, SameCounts DEF Locs!LinePromised
  <2>2. r.truncated = FALSE /\ r.offset = t.size
    <3>1. line = NL(t) + 1 /\ LastLine(t) = {} /\ col = 1 =>
            r.truncated = FALSE /\ r.offset = t.size
      BY <1>1, LineColIs, ZenonT(30)
    <3> QED
      BY <1>7, <2>1, <3>1
  <2>3. s = t.size /\ n = 0
    BY <1>2, <1>7, <2>1, LastLineIs
  <2>4. ~ s + col - 1 > s + n /\ s + col - 1 = t.size
    BY <1>3, <2>1, <2>3
  <2>5. (s + col - 1 > s + n) = FALSE
    BY <2>4
  <2> QED
    BY <1>1, <1>4, <1>5, <2>2, <2>4, <2>5
<1> QED
  BY <1>6, <1>7

LEMMA DecodedIs ==
  ASSUME NEW t \in Text, NEW f, Describes(t, f), NEW x \in 0..t.size
  PROVE  LET c == CharToLineCol(f, x) IN
           /\ TrueMarker(t, c.marker)
           /\ c.line = Locs!LineAt(t, x) /\ c.col = Locs!ColAt(t, x)
           /\ c.line \in Nat \ {0} /\ c.col \in Nat \ {0}
<1>1. PICK c : c = CharToLineCol(f, x)
  OBVIOUS
<1>2. x \in Nat /\ t.size \in Nat
  BY LinesAre
<1>3. /\ TrueMarker(t, c.marker) /\ c.line \in LinesOf(t)
      /\ x \in Start(t, c.line)..(Start(t, c.line) + Length(t, c.line))
      /\ c.col = 1 + x - Start(t, c.line)
  BY <1>1, <1>2, PlaceIs
<1>4. c.line = Locs!LineAt(t, x)
  BY <1>3, LineAtIs
<1>5. Locs!ColAt(t, x) = 1 + x - Start(t, c.line)
  BY <1>3, <1>4, StartsAre DEF Locs!ColAt
<1>6. c.line \in Nat \ {0} /\ c.col \in Nat \ {0}
  <2>1. Start(t, c.line) \in Nat /\ Length(t, c.line) \in Nat
    BY <1>3, LinesAre
  <2> QED
    BY <1>2, <1>3, <2>1, LinesAre DEF LinesOf
<1> QED
  BY <1>1, <1>3, <1>4, <1>5, <1>6

(* The directives noted of a file are the first ones in it.                *)
NotedOf(name, h) ==
  /\ h \in Seq(Directive) /\ Len(h) <= Len(disk.directives[name])
  /\ \A i \in 1..Len(h) : h[i] = disk.directives[name][i]

LEMMA Mapping ==
  ASSUME disk \in Disks, NEW name \in Names, NEW f, NotedOf(name, f.hash), NEW line \in Nat
  PROVE  /\ MapLine(f, line) = Locs!Mapped(f.name, line, f.hash)
         /\ f.hash # << >> \/ MapLine(f, line) = [name |-> f.name, line |-> line]
<1> DEFINE h == f.hash
           before == {i \in DOMAIN h : h[i].ppLine <= line}
           keys == [i \in DOMAIN h |-> h[i].ppLine]
<1>1. h \in Seq(Directive) /\ Len(h) \in Nat /\ DOMAIN h = 1..Len(h)
  BY DEF NotedOf
<1>2. \A i \in 1..Len(h) : h[i].ppLine \in Nat /\ h[i].origLine \in Nat
  <2>1. \A i \in 1..Len(h) : h[i] \in Directive
    BY <1>1, EntryIn
  <2> HIDE DEF h
  <2> QED
    BY <2>1 DEF Directive
<1>3. \A i, j \in 1..Len(h) : i < j => h[i].ppLine < h[j].ppLine
  <2>1. disk.directives[name] \in Seq(Directive)
    BY DisksAssumption
  <2>2. PICK d : d = disk.directives[name]
    OBVIOUS
  <2>3. \A i, j \in DOMAIN d : i < j => d[i].ppLine < d[j].ppLine
    BY <2>2, DisksAssumption
  <2>4. DOMAIN d = 1..Len(d) /\ Len(d) \in Nat
    BY <2>1, <2>2
  <2>5. Len(h) <= Len(d) /\ \A i \in 1..Len(h) : h[i] = d[i]
    BY <2>2 DEF NotedOf
  <2>6. \A i \in 1..Len(h) : i \in DOMAIN d
    BY <1>1, <2>4, <2>5
  <2> HIDE DEF h
  <2> QED
    BY <2>3, <2>5, <2>6
<1>4. CASE h = << >>
  <2>1. before = {}
    BY <1>4
  <2>2. MapLine(f, line) = [name |-> f.name, line |-> line]
    BY <1>4 DEF MapLine
  <2>3. Locs!Mapped(f.name, line, f.hash) = [name |-> f.name, line |-> line]
    BY <2>1 DEF Locs!Mapped
  <2> QED
    BY <2>2, <2>3
<1>5. CASE h # << >> /\ line < h[1].ppLine
  <2>1. before = {}
    <3> SUFFICES ASSUME NEW i \in 1..Len(h), h[i].ppLine <= line PROVE FALSE
      BY <1>1
    <3>1. 1 \in 1..Len(h)
      BY <1>1
    <3>2. i = 1 \/ h[1].ppLine < h[i].ppLine
      BY <1>1, <1>3, <3>1
    <3> QED
      BY <1>2, <1>5, <3>1, <3>2
  <2>2. MapLine(f, line) = [name |-> f.name, line |-> line]
    BY <1>5 DEF MapLine
  <2>3. Locs!Mapped(f.name, line, f.hash) = [name |-> f.name, line |-> line]
    BY <2>1 DEF Locs!Mapped
  <2> QED
    BY <1>5, <2>2, <2>3
<1>6. CASE h # << >> /\ ~ line < h[1].ppLine
  <2>1. Len(h) # 0
    BY <1>1, <1>6
  <2>2. keys \in Seq(Int) /\ Len(keys) = Len(h) /\ \A i \in 1..Len(h) : keys[i] = h[i].ppLine
    BY <1>1, <1>2
  <2>3. PICK r : r = LastUpTo(keys, line)
    OBVIOUS
  <2> HIDE DEF keys
  <2>4. \A i, j \in 1..Len(keys) : i <= j => keys[i] <= keys[j]
    <3> TAKE i, j \in 1..Len(keys)
    <3>1. i = j \/ i < j \/ j < i
      BY <1>1, <2>2
    <3> QED
      BY <1>2, <1>3, <2>2, <3>1
  <2>5. /\ r \in 1..Len(h) /\ (r = 1 \/ keys[r] <= line)
        /\ \A i \in 1..Len(h) : i > r => keys[i] > line
    <3>1. keys \in Seq(Int) /\ Len(keys) # 0 /\ line \in Int
      BY <2>1, <2>2
    <3>2. r \in 1..Len(keys) /\ (r = 1 \/ keys[r] <= line)
      BY <2>3, <3>1, SearchIs
    <3>3. (\A i, j \in 1..Len(keys) : i <= j => keys[i] <= keys[j]) =>
             \A i \in 1..Len(keys) : i > r => keys[i] > line
      BY <2>3, <3>1, SearchIs, ZenonT(30)
    <3>4. \A i \in 1..Len(keys) : i > r => keys[i] > line
      BY <2>4, <3>3
    <3> QED
      BY <2>2, <3>2, <3>4
  <2>6. before = 1..r
    <3>1. ASSUME NEW i \in 1..r PROVE i \in before
      <4>1. i \in 1..Len(h)
        BY <1>1, <2>5
      <4>2. keys[i] <= keys[r]
        BY <2>2, <2>4, <2>5, <4>1
      <4>3. keys[r] <= line
        <5>1. CASE r = 1
          BY <1>2, <1>6, <2>2, <2>5, <5>1
        <5> QED
          BY <2>5, <5>1
      <4>4. h[i].ppLine <= line
        BY <1>2, <2>2, <2>5, <4>1, <4>2, <4>3
      <4> QED
        BY <1>1, <4>1, <4>4
    <3>2. ASSUME NEW i \in before PROVE i \in 1..r
      <4>1. i \in 1..Len(h) /\ h[i].ppLine <= line
        BY <1>1
      <4>2. ~ i > r
        BY <1>2, <2>2, <2>5, <4>1
      <4> QED
        BY <1>1, <2>5, <4>1, <4>2
    <3> QED
      BY <3>1, <3>2
  <2>7. Cardinality(before) = r
    <3>1. r \in Nat /\ 1 \in Int /\ r >= 1
      BY <2>5
    <3>2. Cardinality(1..r) = r
      BY <3>1, FS_Interval
    <3> QED
      BY <2>6, <3>2
  <2>8. before # {}
    <3>1. r \in 1..r
      BY <2>5
    <3> HIDE DEF before
    <3> QED
      BY <2>6, <3>1
  <2>9. MapLine(f, line) = [name |-> h[r].origName,
                            line |-> h[r].origLine + (line - h[r].ppLine - 1)]
    BY <1>6, <2>3 DEF MapLine, keys
  <2>10. Locs!Mapped(f.name, line, f.hash) =
           [name |-> h[r].origName, line |-> h[r].origLine + line - h[r].ppLine - 1]
    <3>1. Locs!Cardinality(before) = r
      BY <2>7, SameCounts
    <3>2. Locs!Mapped(f.name, line, h) =
            IF before = {} THEN [name |-> f.name, line |-> line]
            ELSE LET d == h[Locs!Cardinality(before)] IN
                   [name |-> d.origName, line |-> d.origLine + line - d.ppLine - 1]
      BY DEF Locs!Mapped
    <3> HIDE DEF before
    <3> QED
      BY <2>8, <3>1, <3>2
  <2>11. h[r].origLine \in Nat /\ h[r].ppLine \in Nat
    BY <1>2, <2>5
  <2>12. h[r].origLine + (line - h[r].ppLine - 1) = h[r].origLine + line - h[r].ppLine - 1
    BY <2>11
  <2> QED
    BY <1>6, <2>9, <2>10, <2>12
<1> QED
  BY <1>4, <1>5, <1>6

-----------------------------------------------------------------------------
(* Every file describes its text: the inductive invariant for what is      *)
(* searched.                                                               *)
FileTrue(f) == Describes(disk.text[f.name], f) /\ NotedOf(f.name, f.hash)
TrueTable(fs) == \A i \in 1..Len(fs) : FileTrue(fs[i])
IInvTrue == IInvEnds /\ TrueTable(files)

LEMMA TextIn ==
  ASSUME disk \in Disks, NEW name \in Names
  PROVE  disk.text[name] \in Text /\ disk.directives[name] \in Seq(Directive)
BY DisksAssumption

(* A file that is read describes its text, with the marker at the start.   *)
LEMMA ReadTrue ==
  ASSUME disk \in Disks, NEW name \in Names, NEW start \in Nat
  PROVE  FileTrue(NewFile(name, disk.text[name], start))
<1> DEFINE t == disk.text[name]
           f == NewFile(name, t, start)
<1>1. f.name = name /\ f.hash = << >>
  BY DEF NewFile
<1>2. Describes(t, f)
  <2>1. f.lengths = All(t) /\ f.numLines = NL(t) /\ f.numChars = NumChars(t)
    BY DEF NewFile, All, NL
  <2>2. f.avg = IF NL(t) = 0 THEN NumChars(t) ELSE NumChars(t) \div NL(t)
    BY DEF NewFile, NL
  <2>3. f.index = [i \in 1..IndexSize(t) |-> IndexMarker(t, i)]
    <3>1. f.index = [i \in 1..(1 + Cardinality(t.newlines) \div MarkerPeriod) |->
                       Marker(Start(t, 1 + (i - 1) * MarkerPeriod), 1 + (i - 1) * MarkerPeriod,
                         Len(LengthsUpTo(t, (1 + (i - 1) * MarkerPeriod) - 1)), 1)]
      BY DEF NewFile
    <3> HIDE DEF f
    <3> QED
      BY <3>1 DEF IndexMarker, NL, IndexSize
  <2>4. TrueMarker(t, f.marker)
    <3>1. IsAt(t, 1, 0, Marker(0, 1, 0, 1))
      BY TextIn, FirstMarker
    <3>2. f.marker = Marker(0, 1, 0, 1)
      BY DEF NewFile
    <3> QED
      BY <3>1, <3>2 DEF TrueMarker
  <2> QED
    BY <2>1, <2>2, <2>3, <2>4 DEF Describes
<1>3. NotedOf(name, << >>)
  <2>1. << >> \in Seq(Directive) /\ Len(<< >>) = 0 /\ Len(disk.directives[name]) \in Nat
    BY TextIn
  <2> QED
    BY <2>1 DEF NotedOf
<1> QED
  BY <1>1, <1>2, <1>3 DEF FileTrue

LEMMA GotTrue ==
  ASSUME disk \in Disks, NEW fs, TableOK(fs, nextLoc), TrueTable(fs), NEW last \in 0..Len(fs),
         NEW name \in Names
  PROVE  TrueTable(GetFile(fs, last, name).files)
<1> DEFINE g == GetFile(fs, last, name)
           new == NewFile(name, disk.text[name], nextLoc)
<1>1. CASE FindFile(fs, last, name) # 0
  <2>1. g.files = fs
    BY <1>1 DEF GetFile
  <2> QED
    BY <2>1
<1>2. CASE FindFile(fs, last, name) = 0
  <2>1. nextLoc \in Nat /\ fs = [i \in 1..Len(fs) |-> fs[i]] /\ Len(fs) \in Nat
    BY DEF TableOK, IsTable, Partition
  <2>2. g.files = Append(fs, new)
    BY <1>2 DEF GetFile
  <2>3. FileTrue(new)
    BY <2>1, ReadTrue
  <2> HIDE DEF new, g
  <2>4. Append(fs, new) = [i \in 1..(Len(fs) + 1) |-> IF i = Len(fs) + 1 THEN new ELSE fs[i]]
    BY <2>1, AppendIs
  <2>5. Len(Append(fs, new)) = Len(fs) + 1
    BY <2>1, <2>4
  <2>6. ASSUME NEW i \in 1..(Len(fs) + 1) PROVE FileTrue(Append(fs, new)[i])
    <3>1. CASE i = Len(fs) + 1
      BY <2>3, <2>4, <3>1
    <3>2. CASE i # Len(fs) + 1
      <4>1. i \in 1..Len(fs)
        BY <2>1, <3>2
      <4>2. FileTrue(fs[i])
        BY <4>1 DEF TrueTable
      <4> QED
        BY <2>4, <3>2, <4>2
    <3> QED
      BY <3>1, <3>2
  <2>7. TrueTable(Append(fs, new))
    BY <2>5, <2>6 DEF TrueTable
  <2> QED
    BY <2>2, <2>7 DEF g
<1> QED
  BY <1>1, <1>2

(* A true marker may replace the one of a file, and the next directive may *)
(* be added.                                                               *)
LEMMA UpdatedTrue ==
  ASSUME NEW fs, NEW next, TableOK(fs, next), TrueTable(fs), NEW at \in 1..Len(fs),
         NEW f, f.name = fs[at].name, FileTrue(f)
  PROVE  TrueTable([fs EXCEPT ![at] = f])
<1>1. fs = [i \in 1..Len(fs) |-> fs[i]] /\ Len(fs) \in Nat
  BY DEF TableOK, IsTable
<1>2. Len([fs EXCEPT ![at] = f]) = Len(fs)
  BY <1>1
<1>3. ASSUME NEW i \in 1..Len(fs) PROVE FileTrue([fs EXCEPT ![at] = f][i])
  <2>1. [fs EXCEPT ![at] = f][i] = IF i = at THEN f ELSE fs[i]
    BY <1>1
  <2> QED
    BY <2>1 DEF TrueTable
<1> QED
  BY <1>2, <1>3 DEF TrueTable

LEMMA MovedTrue ==
  ASSUME NEW fs, NEW next, TableOK(fs, next), TrueTable(fs), NEW at \in 1..Len(fs),
         NEW m, TrueMarker(disk.text[fs[at].name], m)
  PROVE  TrueTable(MoveMarker(fs, at, m))
<1> DEFINE f == [fs[at] EXCEPT !.marker = m]
<1>1. fs = [i \in 1..Len(fs) |-> fs[i]] /\ fs[at] = [x \in Fields |-> fs[at][x]]
  BY DEF TableOK, IsTable, IsFile
<1>2. FileTrue(fs[at])
  BY DEF TrueTable
<1>3. /\ f.marker = m
      /\ \A x \in Fields : x # "marker" => f[x] = fs[at][x]
  BY <1>1 DEF Fields
<1>4. /\ f.name = fs[at].name /\ f.hash = fs[at].hash /\ f.lengths = fs[at].lengths
      /\ f.numLines = fs[at].numLines /\ f.numChars = fs[at].numChars
      /\ f.index = fs[at].index /\ f.avg = fs[at].avg
  BY <1>3 DEF Fields
<1> HIDE DEF f
<1>5. FileTrue(f)
  BY <1>2, <1>3, <1>4 DEF FileTrue, Describes
<1>6. TrueTable([fs EXCEPT ![at] = f])
  BY <1>4, <1>5, UpdatedTrue
<1>7. MoveMarker(fs, at, m) = [fs EXCEPT ![at] = f]
  BY <1>1 DEF MoveMarker, f
<1> QED
  BY <1>6, <1>7

-----------------------------------------------------------------------------
(* A file of the list, its text, and the lines that can be asked for.      *)
LEMMA FileIn ==
  ASSUME disk \in Disks, NEW fs, NEW next, TableOK(fs, next), TrueTable(fs),
         NEW at \in 1..Len(fs)
  PROVE  /\ fs[at].name \in Names /\ disk.text[fs[at].name] \in Text
         /\ Describes(disk.text[fs[at].name], fs[at]) /\ NotedOf(fs[at].name, fs[at].hash)
         /\ fs[at].start \in Nat /\ fs[at].numChars \in Nat
<1>1. fs[at].name \in Names /\ fs[at].start \in Nat /\ fs[at].numChars \in Nat
  BY DEF TableOK, IsTable, IsFile
<1>2. FileTrue(fs[at])
  BY DEF TrueTable
<1> QED
  BY <1>1, <1>2, TextIn DEF FileTrue

LEMMA AskedFor ==
  ASSUME disk \in Disks, NEW name \in Names, NEW at \in LineCols(name)
  PROVE  at[1] \in LinesOf(disk.text[name]) /\ at[2] \in Nat \ {0}
<1>1. at[1] \in 1..(NumLinesOf(name) + 1) /\ at[2] \in 1..MaxCol
  BY DEF LineCols
<1> QED
  BY <1>1, StaticsAssumption DEF NumLinesOf, LinesOf, NL

(* A location that was given out is a place of its file.                   *)
LEMMA PlaceOf ==
  ASSUME IInvTrue, NEW loc \in KnownLocs
  PROVE  LET at == FindFileWithLoc(loc) IN
           /\ at \in 1..Len(files) /\ HasLoc(files[at], loc)
           /\ files[at].name \in Names /\ disk.text[files[at].name] \in Text
           /\ Describes(disk.text[files[at].name], files[at])
           /\ NotedOf(files[at].name, files[at].hash)
           /\ loc - files[at].start \in Nat
           /\ WasEncoded(loc) => \/ loc - files[at].start \in 0..disk.text[files[at].name].size
                                 \/ loc - files[at].start = files[at].numChars
<1> DEFINE at == FindFileWithLoc(loc)
<1>1. disk \in Disks /\ TableOK(files, nextLoc) /\ TrueTable(files) /\ nextLoc \in Nat
  BY DEF IInvTrue, IInvEnds, IInv, TableOK, Partition
<1>2. at \in 1..Len(files) /\ HasLoc(files[at], loc)
  BY FoundWithLoc DEF IInvTrue, IInvEnds
<1>3. loc \in Nat
  BY <1>1 DEF KnownLocs
<1>4. WasEncoded(loc) => \/ loc - files[at].start \in 0..disk.text[files[at].name].size
                         \/ loc - files[at].start = files[at].numChars
  BY DEF WasEncoded, Offsets
<1> HIDE DEF at
<1>5. /\ files[at].name \in Names /\ disk.text[files[at].name] \in Text
      /\ Describes(disk.text[files[at].name], files[at])
      /\ NotedOf(files[at].name, files[at].hash) /\ files[at].start \in Nat
      /\ files[at].numChars \in Nat
  BY <1>1, <1>2, FileIn
<1>6. loc - files[at].start \in Nat
  BY <1>2, <1>3, <1>5 DEF HasLoc
<1> QED
  BY <1>2, <1>4, <1>5, <1>6 DEF at

-----------------------------------------------------------------------------
LEMMA CallTrue ==
  ASSUME IInvTrue, NEW r, Call(r), TrueTable(r.files)
  PROVE  TrueTable(files)'
<1>1. files' = r.files /\ disk' = disk
  BY DEF Call
<1> QED
  BY <1>1 DEF TrueTable, FileTrue, NotedOf

LEMMA EncodeOffsetTrue ==
  ASSUME IInvTrue, NEW name \in Names, NEW offset, Call(EncodeOffset(name, offset))
  PROVE  TrueTable(files)'
<1>1. disk \in Disks /\ TableOK(files, nextLoc) /\ TrueTable(files) /\ recent \in 0..Len(files)
  BY DEF IInvTrue, IInvEnds, IInv
<1>2. EncodeOffset(name, offset).files = GetFile(files, recent, name).files
  BY DEF EncodeOffset, Returned
<1>3. TrueTable(EncodeOffset(name, offset).files)
  BY <1>1, <1>2, GotTrue
<1> QED
  BY <1>3, CallTrue

LEMMA EncodeLineColTrue ==
  ASSUME IInvTrue, NEW name \in Names, NEW at \in LineCols(name),
         Call(EncodeLineCol(name, at[1], at[2]))
  PROVE  TrueTable(files)'
<1>1. disk \in Disks /\ TableOK(files, nextLoc) /\ TrueTable(files) /\ recent \in 0..Len(files)
  BY DEF IInvTrue, IInvEnds, IInv
<1>2. PICK g : g = GetFile(files, recent, name)
  OBVIOUS
<1>3. /\ TableOK(g.files, g.next) /\ g.at \in 1..Len(g.files) /\ g.files[g.at].name = name
      /\ TrueTable(g.files)
  BY <1>1, <1>2, GotFile, GotTrue
<1>4. PICK to : to = LineColToChar(g.files[g.at], at[1], at[2])
  OBVIOUS
<1>5. EncodeLineCol(name, at[1], at[2]).files = MoveMarker(g.files, g.at, to.marker)
  BY <1>2, <1>4 DEF EncodeLineCol, Returned
<1>6. disk.text[name] \in Text /\ Describes(disk.text[name], g.files[g.at])
  BY <1>1, <1>3, FileIn
<1>7. TrueMarker(disk.text[name], to.marker)
  BY <1>1, <1>4, <1>6, AskedFor, LineColIs
<1>8. TrueTable(EncodeLineCol(name, at[1], at[2]).files)
  BY <1>3, <1>5, <1>7, MovedTrue
<1> QED
  BY <1>8, CallTrue

LEMMA DecodeLineColTrue ==
  ASSUME IInvTrue, NEW loc \in KnownLocs, WasEncoded(loc), Call(DecodeLineCol(loc))
  PROVE  TrueTable(files)'
<1>1. disk \in Disks /\ TableOK(files, nextLoc) /\ TrueTable(files)
  BY DEF IInvTrue, IInvEnds, IInv
<1>2. PICK at : at = FindFileWithLoc(loc)
  OBVIOUS
<1>3. PICK from : from = CharToLineCol(files[at], loc - files[at].start)
  OBVIOUS
<1>4. DecodeLineCol(loc).files = MoveMarker(files, at, from.marker)
  BY <1>2, <1>3 DEF DecodeLineCol, Returned
<1>5. /\ at \in 1..Len(files) /\ disk.text[files[at].name] \in Text
      /\ Describes(disk.text[files[at].name], files[at])
      /\ loc - files[at].start \in Nat
      /\ \/ loc - files[at].start \in 0..disk.text[files[at].name].size
         \/ loc - files[at].start = files[at].numChars
  BY <1>2, PlaceOf
<1>6. TrueMarker(disk.text[files[at].name], from.marker)
  BY <1>3, <1>5, PlaceIs
<1>7. TrueTable(DecodeLineCol(loc).files)
  BY <1>1, <1>4, <1>5, <1>6, MovedTrue
<1> QED
  BY <1>7, CallTrue

(* What decodeOffset does with a location that goes through the #line map. *)
LEMMA DecodedThrough ==
  ASSUME IInvTrue, NEW loc \in KnownLocs, Decodable(loc),
         UsesHashLines(files[FindFileWithLoc(loc)]),
         \/ loc - files[FindFileWithLoc(loc)].start \in
              0..disk.text[files[FindFileWithLoc(loc)].name].size
         \/ loc - files[FindFileWithLoc(loc)].start = files[FindFileWithLoc(loc)].numChars
  PROVE  LET at == FindFileWithLoc(loc)
             from == CharToLineCol(files[at], loc - files[at].start)
             to == MapLine(files[at], from.line)
             g == GetFile(MoveMarker(files, at, from.marker), at, to.name)
         IN  /\ to.name \in Names /\ disk.text[to.name] \in Text
             /\ to.line \in LinesOf(disk.text[to.name])
             /\ TableOK(g.files, g.next) /\ TrueTable(g.files)
             /\ g.at \in 1..Len(g.files) /\ g.files[g.at].name = to.name
             /\ Describes(disk.text[to.name], g.files[g.at])
<1>1. disk \in Disks /\ TableOK(files, nextLoc) /\ TrueTable(files)
  BY DEF IInvTrue, IInvEnds, IInv
<1>2. PICK at : at = FindFileWithLoc(loc)
  OBVIOUS
<1>3. PICK from : from = CharToLineCol(files[at], loc - files[at].start)
  OBVIOUS
<1>4. PICK to : to = MapLine(files[at], from.line)
  OBVIOUS
<1>5. /\ at \in 1..Len(files) /\ disk.text[files[at].name] \in Text
      /\ Describes(disk.text[files[at].name], files[at])
      /\ loc - files[at].start \in Nat
  BY <1>2, PlaceOf
<1>6. TrueMarker(disk.text[files[at].name], from.marker)
  BY <1>2, <1>3, <1>5, PlaceIs
<1>7. MappedLine(loc) = to
  BY <1>2, <1>3, <1>4 DEF MappedLine
<1>8. to.name \in Names /\ to.line \in LinesOf(disk.text[to.name])
  <2>1. to.name \in Names /\ to.line \in 1..(1 + Cardinality(disk.text[to.name].newlines))
    BY <1>7 DEF Decodable
  <2>2. disk.text[to.name] \in Text
    BY <1>1, <2>1, TextIn
  <2> QED
    BY <2>1, <2>2, LinesAre DEF LinesOf, NL
<1>9. PICK fs : fs = MoveMarker(files, at, from.marker)
  OBVIOUS
<1>10. TableOK(fs, nextLoc) /\ TrueTable(fs) /\ at \in 0..Len(fs)
  <2>1. TableOK(fs, nextLoc) /\ Len(fs) = Len(files)
    BY <1>1, <1>5, <1>9, MovedMarker
  <2>2. TrueTable(fs)
    BY <1>1, <1>5, <1>6, <1>9, MovedTrue
  <2> QED
    BY <1>5, <2>1, <2>2
<1>11. PICK g : g = GetFile(fs, at, to.name)
  OBVIOUS
<1>12. /\ TableOK(g.files, g.next) /\ TrueTable(g.files)
       /\ g.at \in 1..Len(g.files) /\ g.files[g.at].name = to.name
  BY <1>1, <1>8, <1>10, <1>11, GotFile, GotTrue
<1>13. disk.text[to.name] \in Text /\ Describes(disk.text[to.name], g.files[g.at])
  BY <1>1, <1>12, FileIn
<1> QED
  BY <1>2, <1>3, <1>4, <1>8, <1>9, <1>11, <1>12, <1>13

LEMMA DecodeOffsetTrue ==
  ASSUME IInvTrue, NEW loc \in KnownLocs, WasEncoded(loc), Decodable(loc),
         Call(DecodeOffset(loc))
  PROVE  TrueTable(files)'
<1>1. disk \in Disks /\ TableOK(files, nextLoc) /\ TrueTable(files)
  BY DEF IInvTrue, IInvEnds, IInv
<1>2. PICK at : at = FindFileWithLoc(loc)
  OBVIOUS
<1>3. PICK from : from = CharToLineCol(files[at], loc - files[at].start)
  OBVIOUS
<1>4. CASE UsesHashLines(files[at])
  <2>1. PICK to : to = MapLine(files[at], from.line)
    OBVIOUS
  <2>2. PICK g : g = GetFile(MoveMarker(files, at, from.marker), at, to.name)
    OBVIOUS
  <2>3. PICK there : there = LineColToChar(g.files[g.at], to.line, from.col)
    OBVIOUS
  <2>4. DecodeOffset(loc).files = MoveMarker(g.files, g.at, there.marker)
    BY <1>2, <1>3, <1>4, <2>1, <2>2, <2>3 DEF DecodeOffset, Returned
  <2>5. \/ loc - files[at].start \in 0..disk.text[files[at].name].size
        \/ loc - files[at].start = files[at].numChars
    BY <1>2, PlaceOf
  <2>6. /\ disk.text[to.name] \in Text /\ to.line \in LinesOf(disk.text[to.name])
        /\ TableOK(g.files, g.next) /\ TrueTable(g.files)
        /\ g.at \in 1..Len(g.files) /\ g.files[g.at].name = to.name
        /\ Describes(disk.text[to.name], g.files[g.at])
    BY <1>2, <1>3, <1>4, <2>1, <2>2, <2>5, DecodedThrough
  <2>7. from.col \in Nat \ {0}
    BY <1>2, <1>3, <2>5, PlaceOf, PlaceIs
  <2>8. TrueMarker(disk.text[to.name], there.marker)
    BY <2>3, <2>6, <2>7, LineColIs
  <2>9. TrueTable(DecodeOffset(loc).files)
    BY <2>4, <2>6, <2>8, MovedTrue
  <2> QED
    BY <2>9, CallTrue
<1>5. CASE ~ UsesHashLines(files[at])
  <2>1. DecodeOffset(loc).files = files
    BY <1>2, <1>5 DEF DecodeOffset, Returned
  <2> QED
    BY <1>1, <2>1, CallTrue
<1> QED
  BY <1>4, <1>5

LEMMA AddHashLineTrue ==
  ASSUME IInvTrue, NEW name \in Names, AddHashLine(name)
  PROVE  TrueTable(files)'
<1>1. disk \in Disks /\ TableOK(files, nextLoc) /\ TrueTable(files) /\ recent \in 0..Len(files)
  BY DEF IInvTrue, IInvEnds, IInv
<1>2. PICK g : g = GetFile(files, recent, name)
  OBVIOUS
<1>3. /\ TableOK(g.files, g.next) /\ g.at \in 1..Len(g.files) /\ g.files[g.at].name = name
      /\ TrueTable(g.files)
  BY <1>1, <1>2, GotFile, GotTrue
<1>4. PICK old : old = g.files[g.at]
  OBVIOUS
<1>5. PICK d : d = disk.directives[name]
  OBVIOUS
<1>6. /\ Describes(disk.text[name], old) /\ NotedOf(name, old.hash) /\ old.name = name
      /\ d \in Seq(Directive)
  BY <1>1, <1>3, <1>4, <1>5, FileIn, TextIn
<1>7. /\ Len(old.hash) + 1 \in DOMAIN d /\ disk' = disk
      /\ files' = [g.files EXCEPT ![g.at].hash = Append(@, d[Len(old.hash) + 1])]
  BY <1>2, <1>4, <1>5 DEF AddHashLine
<1>8. PICK h : h = Append(old.hash, d[Len(old.hash) + 1])
  OBVIOUS
<1>9. NotedOf(name, h)
  <2>1. old.hash \in Seq(Directive) /\ Len(old.hash) \in Nat
        /\ Len(old.hash) + 1 \in 1..Len(d) /\ Len(d) \in Nat
    BY <1>6, <1>7 DEF NotedOf
  <2>2. d[Len(old.hash) + 1] \in Directive
    BY <1>6, <2>1, EntryIn
  <2>3. /\ h \in Seq(Directive) /\ Len(h) = Len(old.hash) + 1
        /\ \A i \in 1..Len(old.hash) : h[i] = old.hash[i]
        /\ h[Len(old.hash) + 1] = d[Len(old.hash) + 1]
    BY <1>8, <2>1, <2>2
  <2>4. \A i \in 1..Len(old.hash) : old.hash[i] = d[i]
    BY <1>5, <1>6 DEF NotedOf
  <2>5. \A i \in 1..Len(h) : h[i] = d[i]
    BY <2>1, <2>3, <2>4
  <2> QED
    BY <1>5, <2>1, <2>3, <2>5 DEF NotedOf
<1>10. PICK f : f = [old EXCEPT !.hash = h]
  OBVIOUS
<1>11. g.files = [i \in 1..Len(g.files) |-> g.files[i]] /\ old = [x \in Fields |-> old[x]]
  BY <1>3, <1>4 DEF TableOK, IsTable, IsFile
<1>12. /\ f.hash = h /\ f.name = old.name /\ f.marker = old.marker /\ f.lengths = old.lengths
       /\ f.numLines = old.numLines /\ f.numChars = old.numChars
       /\ f.index = old.index /\ f.avg = old.avg
  <2>1. f.hash = h /\ \A x \in Fields : x # "hash" => f[x] = old[x]
    BY <1>10, <1>11 DEF Fields
  <2> QED
    BY <2>1 DEF Fields
<1>13. FileTrue(f)
  BY <1>6, <1>9, <1>12 DEF FileTrue, Describes
<1>14. files' = [g.files EXCEPT ![g.at] = f]
  BY <1>4, <1>7, <1>8, <1>10, <1>11
<1>15. TrueTable([g.files EXCEPT ![g.at] = f])
  BY <1>3, <1>4, <1>6, <1>12, <1>13, UpdatedTrue
<1>16. PICK fs : fs = [g.files EXCEPT ![g.at] = f]
  OBVIOUS
<1>17. files' = fs /\ disk' = disk /\ TrueTable(fs)
  BY <1>7, <1>14, <1>15, <1>16
<1> QED
  BY ONLY <1>17 DEF TrueTable, FileTrue, NotedOf

(* The invariant is inductive.                                             *)
LEMMA TrueInductive == IInvTrue /\ [Next]_vars => IInvTrue'
<1> SUFFICES ASSUME IInvTrue, [Next]_vars PROVE IInvTrue'
  OBVIOUS
<1>1. IInvEnds'
  BY StepRefines DEF IInvTrue, Refines
<1>2. TrueTable(files)'
  <2>1. ASSUME NEW name \in Names, NEW offset, Call(EncodeOffset(name, offset))
        PROVE  TrueTable(files)'
    BY <2>1, EncodeOffsetTrue
  <2>2. ASSUME NEW name \in Names, NEW at \in LineCols(name),
               Call(EncodeLineCol(name, at[1], at[2]))
        PROVE  TrueTable(files)'
    BY <2>2, EncodeLineColTrue
  <2>3. ASSUME NEW name \in Names, AddHashLine(name)
        PROVE  TrueTable(files)'
    BY <2>3, AddHashLineTrue
  <2>4. ASSUME NEW s \in StaticLoc, EncodeStatic(s)
        PROVE  TrueTable(files)'
    BY <2>4 DEF EncodeStatic, filesVars, IInvTrue, TrueTable, FileTrue, NotedOf
  <2>5. ASSUME NEW loc \in KnownLocs, WasEncoded(loc),
               Call(DecodeLineCol(loc)) \/ (Decodable(loc) /\ Call(DecodeOffset(loc)))
        PROVE  TrueTable(files)'
    BY <2>5, DecodeLineColTrue, DecodeOffsetTrue
  <2>6. ASSUME UNCHANGED vars
        PROVE  TrueTable(files)'
    BY <2>6 DEF vars, filesVars, IInvTrue, TrueTable, FileTrue, NotedOf
  <2> QED
    BY <2>1, <2>2, <2>3, <2>4, <2>5, <2>6 DEF Next
<1> QED
  BY <1>1, <1>2 DEF IInvTrue

LEMMA TrueAlways == Spec => []IInvTrue
<1>1. Init => IInvTrue
  <2>1. Init => Len(files) = 0
    BY DEF Init
  <2> QED
    BY <2>1, InitRefines DEF IInvTrue, TrueTable
<1> QED
  BY <1>1, TrueInductive, PTL DEF Spec

(* Wherever the searches have left the marker of a file, in whatever order *)
(* lines, columns and offsets were asked for, it names the line and column *)
(* of the character it is before, and an entry that there is.              *)
THEOREM MarkersAlwaysTrue == Spec => []MarkersTrue
<1>1. IInvTrue => MarkersTrue
  <2> SUFFICES ASSUME IInvTrue, NEW i \in DOMAIN files
               PROVE  LET m == files[i].marker
                          text == disk.text[files[i].name]
                      IN  /\ m.array < Len(files[i].lengths)
                          /\ m.line = 1 + Cardinality({p \in text.newlines : p < m.char})
                          /\ m.char = Start(text, m.line) + m.col - 1
    BY DEF MarkersTrue
  <2>1. disk \in Disks /\ TableOK(files, nextLoc) /\ TrueTable(files)
    BY DEF IInvTrue, IInvEnds, IInv
  <2>2. i \in 1..Len(files)
    BY <2>1 DEF TableOK, IsTable
  <2>3. PICK m, t : m = files[i].marker /\ t = disk.text[files[i].name]
    OBVIOUS
  <2>4. t \in Text /\ TrueMarker(t, m) /\ files[i].lengths = All(t)
    BY <2>1, <2>2, <2>3, FileIn DEF Describes
  <2>5. /\ m.array < Len(All(t)) /\ m.char \in Nat /\ m.line \in LinesOf(t) /\ m.col \in Nat
        /\ m.char = Start(t, m.line) + m.col - 1 /\ m.col - 1 <= Length(t, m.line) /\ m.col # 0
    BY <2>4, TrueIs
  <2>6. Start(t, m.line) \in Nat /\ Length(t, m.line) \in Nat /\ m.line \in Int
    BY <2>4, <2>5, LinesAre DEF LinesOf
  <2>7. m.char \in Start(t, m.line)..(Start(t, m.line) + Length(t, m.line))
    BY <2>5, <2>6
  <2>8. Cardinality({p \in t.newlines : p < m.char}) = m.line - 1
    BY <2>4, <2>5, <2>7, NewlinesBefore
  <2> QED
    BY <2>3, <2>4, <2>5, <2>6, <2>8
<1> QED
  BY <1>1, TrueAlways, PTL

(* The location that Locations gives an offset.                            *)
LEMMA EncodedAtIs ==
  ASSUME IInvTrue, NEW name \in Names, NEW offset
  PROVE  LET g == GetFile(files, recent, name) IN
           Locs!EncodedAt(name, offset) = g.files[g.at].start + offset
<1>1. /\ disk \in Disks /\ TableOK(files, nextLoc) /\ Ends(files, nextLoc)
      /\ recent \in 0..Len(files)
  BY DEF IInvTrue, IInvEnds, IInv
<1>2. PICK g : g = GetFile(files, recent, name)
  OBVIOUS
<1>3. /\ TableOK(g.files, g.next) /\ g.at \in 1..Len(g.files) /\ g.files[g.at].name = name
      /\ OpenedOf(g.files) = Locs!Opened(OpenedOf(files), name)
  BY <1>1, <1>2, GetFileOpens
<1>4. /\ g.files = [i \in 1..Len(g.files) |-> g.files[i]] /\ Distinct(g.files)
      /\ DOMAIN g.files = 1..Len(g.files)
  BY <1>3 DEF TableOK, IsTable
<1>5. PICK table : table = OpenedOf(g.files)
  OBVIOUS
<1>6. /\ DOMAIN table = 1..Len(g.files)
      /\ \A i \in 1..Len(g.files) : table[i].name = g.files[i].name
                                    /\ table[i].start = g.files[i].start
  BY <1>4, <1>5 DEF OpenedOf
<1>7. (CHOOSE i \in DOMAIN table : table[i].name = name) = g.at
  <2>1. \A i \in DOMAIN table : table[i].name = name <=> i = g.at
    BY <1>3, <1>4, <1>6 DEF Distinct
  <2> QED
    BY <1>3, <1>6, <2>1
<1>8. Locs!EncodedAt(name, offset) =
        table[CHOOSE i \in DOMAIN table : table[i].name = name].start + offset
  <2>1. table = Locs!Opened(OpenedOf(files), name)
    BY <1>3, <1>5
  <2>2. table = Locs!Opened([i \in DOMAIN files |->
                               [name |-> files[i].name, start |-> files[i].start]], name)
    BY ONLY <2>1 DEF OpenedOf
  <2> QED
    BY ONLY <2>2 DEF Locs!EncodedAt
<1> QED
  BY <1>2, <1>3, <1>6, <1>7, <1>8

(* The location of an offset, and of every line and column that is         *)
(* promised, is always the one that counting in the file gives, whatever   *)
(* was asked before; and exactly the columns that are beyond their line are*)
(* answered with the end of it.                                            *)
THEOREM EncodingAlwaysExact == Spec => []EncodingExact
<1>1. IInvTrue => EncodingExact
  <2> SUFFICES ASSUME IInvTrue, NEW name \in Names
               PROVE  LET text == disk.text[name] IN
                 /\ \A offset \in Offsets(name) :
                      EncodeOffset(name, offset).answer.loc = Locs!EncodedAt(name, offset)
                 /\ \A at \in LineCols(name) :
                      Locs!LinePromised(text, at[1], at[2]) =>
                        EncodeLineCol(name, at[1], at[2]).answer =
                          [loc |-> Locs!EncodedAt(name, Locs!OffsetOf(text, at[1], at[2])),
                           truncated |-> Locs!IsTruncated(text, at[1], at[2])]
    BY DEF EncodingExact
  <2>1. disk \in Disks /\ TableOK(files, nextLoc) /\ TrueTable(files) /\ recent \in 0..Len(files)
    BY DEF IInvTrue, IInvEnds, IInv
  <2>2. PICK g : g = GetFile(files, recent, name)
    OBVIOUS
  <2>3. /\ TableOK(g.files, g.next) /\ g.at \in 1..Len(g.files) /\ g.files[g.at].name = name
        /\ TrueTable(g.files)
    BY <2>1, <2>2, GotFile, GotTrue
  <2>4. PICK t : t = disk.text[name]
    OBVIOUS
  <2>5. t \in Text /\ Describes(t, g.files[g.at])
    BY <2>1, <2>3, <2>4, FileIn
  <2>6. ASSUME NEW offset \in Offsets(name)
        PROVE  EncodeOffset(name, offset).answer.loc = Locs!EncodedAt(name, offset)
    <3>1. EncodeOffset(name, offset).answer.loc = g.files[g.at].start + offset
      BY <2>2 DEF EncodeOffset, Returned
    <3> QED
      BY <2>2, <3>1, EncodedAtIs
  <2>7. ASSUME NEW at \in LineCols(name), Locs!LinePromised(t, at[1], at[2])
        PROVE  EncodeLineCol(name, at[1], at[2]).answer =
                 [loc |-> Locs!EncodedAt(name, Locs!OffsetOf(t, at[1], at[2])),
                  truncated |-> Locs!IsTruncated(t, at[1], at[2])]
    <3>1. PICK to : to = LineColToChar(g.files[g.at], at[1], at[2])
      OBVIOUS
    <3>2. EncodeLineCol(name, at[1], at[2]).answer =
            [loc |-> g.files[g.at].start + to.offset, truncated |-> to.truncated]
      BY <2>2, <3>1 DEF EncodeLineCol, Returned
    <3>3. at[1] \in LinesOf(t) /\ at[2] \in Nat \ {0}
      BY <2>1, <2>4, AskedFor
    <3>4. to.offset = Locs!OffsetOf(t, at[1], at[2])
          /\ to.truncated = Locs!IsTruncated(t, at[1], at[2])
      BY <2>5, <2>7, <3>1, <3>3, EncodedIs
    <3>5. Locs!EncodedAt(name, to.offset) = g.files[g.at].start + to.offset
      BY <2>2, EncodedAtIs
    <3> QED
      BY <3>2, <3>4, <3>5
  <2> QED
    BY <2>4, <2>6, <2>7
<1> QED
  BY <1>1, TrueAlways, PTL

-----------------------------------------------------------------------------
(* The file of a location, and where it maps it to, in Locations.          *)
LEMMA FileAtIs ==
  ASSUME IInvTrue, NEW loc \in KnownLocs
  PROVE  LET f == files[FindFileWithLoc(loc)] IN
           Locs!FileAt(loc) = [name |-> f.name, start |-> f.start]
<1>1. PICK at : at = FindFileWithLoc(loc)
  OBVIOUS
<1>2. TableOK(files, nextLoc) /\ disk \in Disks
  BY DEF IInvTrue, IInvEnds, IInv
<1>3. at \in 1..Len(files) /\ HasLoc(files[at], loc)
  BY <1>1, PlaceOf
<1>4. /\ files = [i \in 1..Len(files) |-> files[i]] /\ Len(files) \in Nat
      /\ \A i \in 1..Len(files) : IsFile(files[i])
      /\ \A i, j \in 1..Len(files) :
           i < j => files[i].start + files[i].numChars < files[j].start
  BY <1>2 DEF TableOK, IsTable, Partition
<1>5. PICK opened : opened = OpenedOf(files)
  OBVIOUS
<1>6. DOMAIN files = 1..Len(files)
  BY <1>4
<1>7. /\ DOMAIN opened = 1..Len(files)
      /\ \A i \in 1..Len(files) :
           opened[i] = [name |-> files[i].name, start |-> files[i].start]
  BY <1>5, <1>6 DEF OpenedOf
<1>8. \A i \in 1..Len(files) :
        Locs!Extent(disk.text[opened[i].name]) = files[i].numChars
  BY <1>4, <1>7, SameExtent DEF IsFile
<1>9. \A i \in 1..Len(files) : HasLoc(files[i], loc) => i = at
  <2> TAKE i \in 1..Len(files)
  <2>1. /\ files[i].start \in Nat /\ files[i].numChars \in Nat
        /\ files[at].start \in Nat /\ files[at].numChars \in Nat
    BY <1>3, <1>4 DEF IsFile
  <2>2. loc \in Int
    BY DEF KnownLocs
  <2>3. i = at \/ i < at \/ at < i
    BY <1>3, <1>4
  <2> QED
    BY <1>3, <1>4, <2>1, <2>2, <2>3 DEF HasLoc
<1>10. (CHOOSE i \in DOMAIN opened :
          opened[i].start <= loc /\ loc <= opened[i].start + Locs!Extent(disk.text[opened[i].name]))
         = at
  <2>1. \A i \in DOMAIN opened :
          (opened[i].start <= loc
             /\ loc <= opened[i].start + Locs!Extent(disk.text[opened[i].name]))
          <=> i = at
    <3> TAKE i \in DOMAIN opened
    <3>1. opened[i].start = files[i].start /\ i \in 1..Len(files)
      BY <1>7
    <3> QED
      BY <1>3, <1>8, <1>9, <3>1 DEF HasLoc
  <2> QED
    BY <1>3, <1>7, <2>1
<1>11. Locs!FileAt(loc) = opened[CHOOSE i \in DOMAIN opened :
          opened[i].start <= loc /\ loc <= opened[i].start + Locs!Extent(disk.text[opened[i].name])]
  BY <1>5 DEF Locs!FileAt, Locs!TextOf, OpenedOf
<1> QED
  BY <1>1, <1>3, <1>7, <1>10, <1>11

LEMMA PlaceDecoded ==
  ASSUME IInvTrue, NEW loc \in KnownLocs,
         loc - files[FindFileWithLoc(loc)].start \in
           0..disk.text[files[FindFileWithLoc(loc)].name].size
  PROVE  LET f == files[FindFileWithLoc(loc)]
             from == CharToLineCol(f, loc - f.start)
             to == Locs!LineColAt(f.name, loc - f.start)
         IN  /\ from.col = to.col /\ from.col \in Nat \ {0}
             /\ to = [name |-> to.name, line |-> to.line, col |-> to.col]
             /\ UsesHashLines(f) => MapLine(f, from.line) = [name |-> to.name, line |-> to.line]
             /\ ~ UsesHashLines(f) => to.name = f.name /\ to.line = from.line
<1>1. PICK f : f = files[FindFileWithLoc(loc)]
  OBVIOUS
<1>2. PICK t, x : t = disk.text[f.name] /\ x = loc - f.start
  OBVIOUS
<1>3. PICK from, to : from = CharToLineCol(f, x) /\ to = Locs!LineColAt(f.name, x)
  OBVIOUS
<1>4. disk \in Disks /\ TableOK(files, nextLoc) /\ useHashLines \in BOOLEAN
  BY DEF IInvTrue, IInvEnds, IInv
<1>5. /\ FindFileWithLoc(loc) \in 1..Len(files)
      /\ f.name \in Names /\ t \in Text /\ Describes(t, f) /\ NotedOf(f.name, f.hash)
  BY <1>1, <1>2, PlaceOf
<1>6. x \in 0..t.size
  BY <1>1, <1>2
<1>7. /\ from.line = Locs!LineAt(t, x) /\ from.col = Locs!ColAt(t, x)
      /\ from.line \in Nat /\ from.col \in Nat \ {0}
  BY <1>3, <1>5, <1>6, DecodedIs
<1>8. HashOf(files)[f.name] = f.hash
  BY <1>1, <1>4, <1>5, HashOfFile
<1>9. PICK d : d = Locs!DirectivesOf(f.name)
  OBVIOUS
<1>10. d = IF useHashLines THEN f.hash ELSE << >>
  BY <1>8, <1>9 DEF Locs!DirectivesOf, HashOf
<1>11. PICK m : m = Locs!Mapped(f.name, from.line, d)
  OBVIOUS
<1>12. to = [name |-> m.name, line |-> m.line, col |-> from.col]
  BY <1>2, <1>3, <1>7, <1>9, <1>11 DEF Locs!LineColAt, Locs!TextOf
<1>13. CASE UsesHashLines(f)
  <2>1. d = f.hash
    BY <1>10, <1>13 DEF UsesHashLines
  <2>2. MapLine(f, from.line) = m
    BY <1>4, <1>5, <1>7, <1>11, <2>1, Mapping
  <2>3. m = [name |-> m.name, line |-> m.line]
    BY <1>11 DEF Locs!Mapped
  <2> QED
    BY <1>1, <1>2, <1>3, <1>7, <1>12, <1>13, <2>2, <2>3
<1>14. CASE ~ UsesHashLines(f)
  <2>1. d = << >>
    BY <1>10, <1>14 DEF UsesHashLines
  <2>2. m = [name |-> f.name, line |-> from.line]
    <3>1. {i \in DOMAIN d : d[i].ppLine <= from.line} = {}
      BY <2>1
    <3> QED
      BY <1>11, <3>1 DEF Locs!Mapped
  <2> QED
    BY <1>1, <1>2, <1>3, <1>7, <1>12, <1>14, <2>2
<1> QED
  BY <1>13, <1>14

(* A location is always decoded to the line and column that counting in its*)
(* file gives, or to the place that the last #line directive before it     *)
(* names, and to the offset that this place has; whatever the markers, the *)
(* index and the cached file are.                                          *)
THEOREM DecodingAlwaysExact == Spec => []DecodingExact
<1>1. IInvTrue => DecodingExact
  <2> SUFFICES ASSUME IInvTrue, NEW loc \in KnownLocs,
                      LET f == Locs!FileAt(loc) IN
                        Locs!OffsetPromised(disk.text[f.name], loc - f.start)
               PROVE  LET f == Locs!FileAt(loc)
                          to == Locs!LineColAt(f.name, loc - f.start)
                          orig == disk.text[to.name]
                      IN  /\ DecodeLineCol(loc).answer = to
                          /\ Decodable(loc) /\ Locs!LinePromised(orig, to.line, to.col) =>
                               DecodeOffset(loc).answer =
                                 IF UsesHashLines(files[FindFileWithLoc(loc)])
                                 THEN [name |-> to.name,
                                       offset |-> Locs!OffsetOf(orig, to.line, to.col),
                                       truncated |-> Locs!IsTruncated(orig, to.line, to.col)]
                                 ELSE [name |-> f.name, offset |-> loc - f.start,
                                       truncated |-> FALSE]
    BY DEF DecodingExact
  <2>1. PICK at : at = FindFileWithLoc(loc)
    OBVIOUS
  <2>2. PICK f : f = files[at]
    OBVIOUS
  <2>3. Locs!FileAt(loc).name = f.name /\ Locs!FileAt(loc).start = f.start
    BY <2>1, <2>2, FileAtIs
  <2>4. PICK x : x = loc - f.start
    OBVIOUS
  <2>5. x \in 0..disk.text[f.name].size
    BY <2>3, <2>4 DEF Locs!OffsetPromised
  <2>6. PICK from, to : from = CharToLineCol(f, x) /\ to = Locs!LineColAt(f.name, x)
    OBVIOUS
  <2>7. /\ from.col = to.col /\ from.col \in Nat \ {0}
        /\ to = [name |-> to.name, line |-> to.line, col |-> to.col]
        /\ UsesHashLines(f) => MapLine(f, from.line) = [name |-> to.name, line |-> to.line]
        /\ ~ UsesHashLines(f) => to.name = f.name /\ to.line = from.line
    BY <2>1, <2>2, <2>4, <2>5, <2>6, PlaceDecoded
  <2>8. DecodeLineCol(loc).answer = to
    <3>1. CASE UsesHashLines(f)
      <4>1. DecodeLineCol(loc).answer =
              [name |-> MapLine(f, from.line).name, line |-> MapLine(f, from.line).line,
               col |-> from.col]
        BY <2>1, <2>2, <2>4, <2>6, <3>1 DEF DecodeLineCol, Returned
      <4> QED
        BY <2>7, <3>1, <4>1
    <3>2. CASE ~ UsesHashLines(f)
      <4>1. DecodeLineCol(loc).answer = [name |-> f.name, line |-> from.line, col |-> from.col]
        BY <2>1, <2>2, <2>4, <2>6, <3>2 DEF DecodeLineCol, Returned
      <4> QED
        BY <2>7, <3>2, <4>1
    <3> QED
      BY <3>1, <3>2
  <2>9. PICK orig : orig = disk.text[to.name]
    OBVIOUS
  <2>10. ASSUME Decodable(loc), Locs!LinePromised(orig, to.line, to.col), UsesHashLines(f)
         PROVE  DecodeOffset(loc).answer =
                  [name |-> to.name, offset |-> Locs!OffsetOf(orig, to.line, to.col),
                   truncated |-> Locs!IsTruncated(orig, to.line, to.col)]
    <3>1. PICK mapped : mapped = MapLine(f, from.line)
      OBVIOUS
    <3>2. mapped.name = to.name /\ mapped.line = to.line
      BY <2>7, <2>10, <3>1
    <3>3. PICK g : g = GetFile(MoveMarker(files, at, from.marker), at, mapped.name)
      OBVIOUS
    <3>4. PICK there : there = LineColToChar(g.files[g.at], mapped.line, from.col)
      OBVIOUS
    <3>5. DecodeOffset(loc).answer =
            [name |-> mapped.name, offset |-> there.offset, truncated |-> there.truncated]
      BY <2>1, <2>2, <2>4, <2>6, <2>10, <3>1, <3>3, <3>4 DEF DecodeOffset, Returned
    <3>6. /\ mapped.name \in Names /\ disk.text[mapped.name] \in Text
          /\ mapped.line \in LinesOf(disk.text[mapped.name])
          /\ Describes(disk.text[mapped.name], g.files[g.at])
      BY <2>1, <2>2, <2>4, <2>5, <2>6, <2>10, <3>1, <3>3, DecodedThrough
    <3>7. there.offset = Locs!OffsetOf(orig, to.line, to.col)
          /\ there.truncated = Locs!IsTruncated(orig, to.line, to.col)
      BY <2>7, <2>9, <2>10, <3>2, <3>4, <3>6, EncodedIs
    <3> QED
      BY <3>2, <3>5, <3>7
  <2>11. ASSUME ~ UsesHashLines(f)
         PROVE  DecodeOffset(loc).answer = [name |-> f.name, offset |-> x, truncated |-> FALSE]
    BY <2>1, <2>2, <2>4, <2>11 DEF DecodeOffset, Returned
  <2> QED
    BY <2>1, <2>2, <2>3, <2>4, <2>6, <2>8, <2>9, <2>10, <2>11
<1> QED
  BY <1>1, TrueAlways, PTL
=============================================================================
