----------------------------- MODULE SourceText -----------------------------
(***************************************************************************)
(* The files that source locations are about, as smbase/srcloc.cc sees     *)
(* them: characters and the newlines among them, and the #line directives  *)
(* a lexer finds in them.                                                  *)
(***************************************************************************)
EXTENDS Integers, Sequences, FiniteSets

CONSTANTS
  Names, Disks,       \* names of files, and what can be under them
  StaticLoc,          \* locations that are made up
  NoLoc, InitLoc,     \* the two of them that are always there
  MaxStatics,         \* bound on the static locations made
  MaxCol              \* bound on the columns asked for

\* The offsets of the newlines tell the lines apart.
Text == {t \in [size : Nat, newlines : SUBSET Nat] :
           IsFiniteSet(t.newlines) /\ t.newlines \subseteq 0..(t.size - 1)}
\* The characters after the last newline.
LastLine(text) == {p \in 0..(text.size - 1) : \A q \in text.newlines : q < p}

Directive == [ppLine : Nat \ {0}, origLine : Nat \ {0}, origName : Names]

ASSUME DisksAssumption ==
  \A d \in Disks : \A n \in Names :
    /\ d.text[n] \in Text
    /\ d.directives[n] \in Seq(Directive)
    /\ \A i, j \in DOMAIN d.directives[n] :
         i < j => d.directives[n][i].ppLine < d.directives[n][j].ppLine

ASSUME StaticsAssumption == {NoLoc, InitLoc} \subseteq StaticLoc /\ MaxStatics \in Nat
                               /\ MaxCol \in Nat
=============================================================================
