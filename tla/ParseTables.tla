---------------------------- MODULE ParseTables ----------------------------
(***************************************************************************)
(* computeParseTables of GrammarAnalysis (elkhound/gramanl.cc) and the     *)
(* encoding and compression of the tables (elkhound/parsetables.cc).       *)
(*                                                                         *)
(* Each cell of the action table gets the shift and the reductions that are*)
(* left of a conflict.  How the cells are encoded and what is compressed   *)
(* depends on the build: error bits (EEF), merged rows and columns (GCS,   *)
(* GCSC) and codes relative to the state and the symbol (CRS).             *)
(***************************************************************************)
EXTENDS ItemSets

CONSTANTS
  MaxIndex,           \* of a CRS code, 63 in the code
  Builds              \* each a record of booleans; see BuildsAssumption

(* Rows are merged only if there are error bits, as mergeActionRows        *)
(* asserts.  allowAmbig is not a build option but a tracing flag.          *)
ASSUME BuildsAssumption ==
  /\ MaxIndex \in Nat
  /\ Builds \subseteq {b \in [eef : BOOLEAN, gcs : BOOLEAN, gcsc : BOOLEAN,
                              crs : BOOLEAN, allowAmbig : BOOLEAN] :
                         (b.gcsc => b.gcs) /\ (b.gcs => b.eef)}

VARIABLES
  build,
  state, term,        \* the cell to fill
  sr, rr, errors,     \* conflicts of each kind, and of tokens declared free of them
  temp,               \* what CRS codes index, while it is built
  actionTable, actionRow, actionCol,    \* a cell is found by its row and column
  gotoTable, gotoRow, gotoCol,
  errorBits, errorRow

tablesVars == <<state, term, sr, rr, errors, temp, actionTable, actionRow,
                actionCol, gotoTable, gotoRow, gotoCol, errorBits, errorRow>>

Unassigned == -1

TablesInit ==
  /\ build \in Builds
  /\ state = 0 /\ term = 0
  /\ sr = 0 /\ rr = 0 /\ errors = 0
  /\ temp = [prodList |-> << >>, prodStart |-> << >>,
             ambigList |-> << >>, ambigStart |-> << >>]
  /\ actionTable = << >> /\ actionRow = << >> /\ actionCol = << >>
  /\ gotoTable = << >> /\ gotoRow = << >> /\ gotoCol = << >>
  /\ errorBits = << >> /\ errorRow = << >>

-----------------------------------------------------------------------------
(* Conflicts.  A cell is [shift, reds]: a state or NoState, and a sequence *)
(* of productions.                                                         *)
Cell(shift, reds) == [shift |-> shift, reds |-> reds]
Actions(cell) == Len(cell.reds) + IF cell.shift = NoState THEN 0 ELSE 1

Prec(p) == grammar.prods[p].prec
Token(t) == grammar.tokens[t + 1]
Superset(n) == {e[1] : e \in {f \in grammar.subsets : f[2] = n}}

(* n or the nearest of its supersets that is maximal, if there is one.     *)
MaximalFrom(n) ==
  LET from[m \in Nonterms] ==
        IF m \in grammar.maximal THEN {m}
        ELSE UNION {from[s] : s \in Superset(m)}
  IN  from[n]

HasExtendingShift(s, n, t) ==
  \E i \in DOMAIN AllItems(s) :
    LET item == AllItems(s)[i] IN
      /\ ~ DotAtEnd(item)
      /\ Lhs(item.prod) = n
      /\ t \in FirstOfSymbol(SymbolAfterDot(item))

(* What is kept of a shift and a reduction.                                *)
HandleShiftReduceConflict(s, p, t) ==
  IF \E n \in MaximalFrom(Lhs(p)) : HasExtendingShift(s, n, t) THEN "shift"
  ELSE IF Prec(p) = 0 \/ Token(t).prec = 0 THEN "both"
  ELSE IF Prec(p) > Token(t).prec THEN "reduce"
  ELSE IF Prec(p) < Token(t).prec THEN "shift"
  ELSE [LEFT |-> "reduce", RIGHT |-> "shift", NONASSOC |-> "none",
        NEVERASSOC |-> "error", SPLIT |-> "dontWarn"][Token(t).assoc]

(* The reductions are considered in their order, as long as there is a     *)
(* shift.                                                                  *)
Uncounted(cell) == [cell |-> cell, dontWarns |-> 0, errors |-> 0]
WithReduction(s, t, acc, p) ==
  LET verdict == HandleShiftReduceConflict(s, p, t)
      kept == Append(acc.cell.reds, p)
  IN  IF acc.cell.shift = NoState
      THEN [acc EXCEPT !.cell = Cell(NoState, kept)]
      ELSE [cell |-> Cell(IF verdict \in {"reduce", "none"} THEN NoState
                          ELSE acc.cell.shift,
                          IF verdict \in {"shift", "none"} THEN acc.cell.reds
                          ELSE kept),
            dontWarns |-> acc.dontWarns + IF verdict = "dontWarn" THEN 1 ELSE 0,
            errors |-> acc.errors + IF verdict = "error" THEN 1 ELSE 0]
ResolveShift(s, t, cell) ==
  LET after[k \in 0..Len(cell.reds)] ==
        IF k = 0 THEN Uncounted(Cell(cell.shift, << >>))
        ELSE WithReduction(s, t, after[k - 1], cell.reds[k])
  IN  after[Len(cell.reds)]

\* Variant of HighestOnly: precedence decides between no two reductions.
HighestOnly_All(reds) == reds

(* Productions with a precedence below that of another one are dropped.    *)
HighestOnly(reds) ==
  Selected(reds, {k \in DOMAIN reds :
    Prec(reds[k]) = 0 \/ \A i \in DOMAIN reds : Prec(reds[k]) >= Prec(reds[i])})

(* subsetDirectiveResolution: a reduction to a nonterminal is dropped when *)
(* another one is to a subset of it.                                       *)
SubsetsOnly(reds) ==
  Selected(reds, {k \in DOMAIN reds :
    \A i \in DOMAIN reds : <<Lhs(reds[k]), Lhs(reds[i])>> \notin grammar.subsets})

IfSeveral(reds, resolve(_)) == IF Len(reds) > 1 THEN resolve(reds) ELSE reds

(* What is left after static disambiguation, with what is to be counted.   *)
Disambiguated(s, t, cell) ==
  LET shifted == IF cell.shift = NoState THEN Uncounted(cell)
                 ELSE ResolveShift(s, t, cell)
      reds == IfSeveral(IfSeveral(shifted.cell.reds, HighestOnly), SubsetsOnly)
  IN  IF Actions(cell) <= 1 THEN Uncounted(cell)
      ELSE [shifted EXCEPT !.cell = Cell(@.shift, reds)]

(* Bison's preferences: the shift, or the production that is first.        *)
OneAction(cell) ==
  IF cell.shift # NoState THEN Cell(cell.shift, << >>)
  ELSE Cell(NoState, <<Min(ToSymbolSet(cell.reds))>>)

PossibleActions(s, t) ==
  Cell(IF TermId(t) \in DOMAIN sets[s].trans THEN sets[s].trans[TermId(t)]
       ELSE NoState, PossibleReductions(s, t))

ResolvedCell(s, t) ==
  LET cell == Disambiguated(s, t, PossibleActions(s, t)).cell IN
    IF build.allowAmbig \/ Actions(cell) <= 1 THEN cell ELSE OneAction(cell)

\* Variants of Warned: every cell is counted; only those of three actions.
Warned_Always(result) == TRUE
Warned_Three(result) == Actions(result.cell) - result.dontWarns > 2

(* Whether a conflict is counted.                                          *)
Warned(result) == Actions(result.cell) - result.dontWarns > 1

-----------------------------------------------------------------------------
With(f, x, v) == [y \in DOMAIN f \cup {x} |-> IF y = x THEN v ELSE f[y]]

(* Codes of table entries.  With CRS a code is a kind and an index, and a  *)
(* code that does not fit is Truncated.                                    *)
Truncated == -1
MakeAE(kind, index) ==
  IF index <= MaxIndex THEN kind * (MaxIndex + 1) + index ELSE Truncated
AE_Shift == 0
AE_Reduce == 1
AE_Ambiguous == 2
ErrorAction == IF build.crs THEN 3 * (MaxIndex + 1) ELSE 0
ErrorGoto == -1
IsErrorAction(code) == code = ErrorAction

(* firstWithTerminal and firstWithNonterminal.                             *)
FirstWith(x) == Min({s \in StateIds : StateSymbol(s) = x})

EncodeShift(s, t) ==
  IF build.crs THEN MakeAE(AE_Shift, s - FirstWith(TermId(t))) ELSE s + 1

PositionIn(list, begin, p) == {i \in DOMAIN list : i >= begin /\ list[i] = p}

StartOf(starts, s, end) == IF s \in DOMAIN starts THEN starts[s] ELSE end

(* The result is the new lists and the code.                               *)
EncodeReduce(tmp, p, s) ==
  LET begin == StartOf(tmp.prodStart, s, Len(tmp.prodList) + 1)
      found == PositionIn(tmp.prodList, begin, p)
      list == IF found = {} THEN Append(tmp.prodList, p) ELSE tmp.prodList
      at == IF found = {} THEN Len(list) ELSE Min(found)
  IN  IF build.crs
      THEN [tmp |-> [tmp EXCEPT !.prodList = list,
                                !.prodStart = With(@, s, begin)],
            code |-> MakeAE(AE_Reduce, at - begin)]
      ELSE [tmp |-> tmp, code |-> - p]

(* A list of actions is its length and the actions.  One that is there     *)
(* already is shared within a state.                                       *)
EntryIn(list, begin, entry) ==
  {i \in begin..(Len(list) + 1 - Len(entry)) :
     SubSeq(list, i, i + Len(entry) - 1) = entry}

EncodeAmbig(tmp, actions, s) ==
  LET entry == <<Len(actions)>> \o actions
      end == Len(tmp.ambigList) + 1
      begin == StartOf(tmp.ambigStart, s, end)
      found == EntryIn(tmp.ambigList, begin, entry)
      at == IF build.crs /\ found # {} THEN Min(found) ELSE end
  IN  [tmp |-> [tmp EXCEPT
          !.ambigList = IF at = end THEN @ \o entry ELSE @,
          !.ambigStart = IF build.crs THEN With(@, s, begin) ELSE @],
       code |-> IF build.crs THEN MakeAE(AE_Ambiguous, at - begin)
                ELSE Cardinality(StateIds) + at]

EncodeReductions(tmp, shifts, reds, s) ==
  LET after[k \in 0..Len(reds)] ==
        IF k = 0 THEN [tmp |-> tmp, codes |-> shifts]
        ELSE LET e == EncodeReduce(after[k - 1].tmp, reds[k], s) IN
               [tmp |-> e.tmp, codes |-> Append(after[k - 1].codes, e.code)]
  IN  after[Len(reds)]

EncodeCell(tmp, cell, s, t) ==
  LET shifts == IF cell.shift = NoState THEN << >>
                ELSE <<EncodeShift(cell.shift, t)>>
      all == EncodeReductions(tmp, shifts, cell.reds, s)
  IN  IF all.codes = << >> THEN [tmp |-> tmp, code |-> ErrorAction]
      ELSE IF Truncated \in ToSymbolSet(all.codes) /\ build.crs
      THEN [tmp |-> tmp, code |-> Truncated]
      ELSE IF Len(all.codes) = 1 THEN [tmp |-> all.tmp, code |-> all.codes[1]]
      ELSE EncodeAmbig(all.tmp, all.codes, s)

-----------------------------------------------------------------------------
(* A cell of the action table.  A code that does not fit ends the analysis.*)
FillActionEntry ==
  /\ phase = "tables" /\ state \in StateIds /\ term \in Terms
  /\ LET result == Disambiguated(state, term, PossibleActions(state, term))
         left == Actions(result.cell)
         e == EncodeCell(temp, ResolvedCell(state, term), state, term)
         shifts == result.cell.shift # NoState
     IN  /\ IF Warned(result)
            THEN /\ sr' = sr + (IF shifts THEN 1 ELSE 0)
                 /\ rr' = rr + left - (IF shifts THEN 2 ELSE 1)
            ELSE UNCHANGED <<sr, rr>>
         /\ errors' = errors + result.errors
         /\ temp' = e.tmp
         /\ actionTable' = With(actionTable, <<state, term>>, e.code)
         /\ phase' = IF build.crs /\ e.code = Truncated THEN "failed" ELSE phase
  /\ term' = term + 1
  /\ UNCHANGED <<build, state, actionRow, actionCol, gotoTable, gotoRow, gotoCol,
                 errorBits, errorRow>>

EncodeGoto(s, x) == IF build.crs THEN s - FirstWith(x) ELSE s

FillGotoRow ==
  /\ phase = "tables" /\ state \in StateIds /\ term \notin Terms
  /\ gotoTable' = [c \in DOMAIN gotoTable \cup ({state} \X Nonterms) |->
       IF c \in DOMAIN gotoTable THEN gotoTable[c]
       ELSE LET x == NontermId(c[2]) IN
              IF x \in DOMAIN sets[state].trans
              THEN EncodeGoto(sets[state].trans[x], x) ELSE ErrorGoto]
  /\ state' = state + 1
  /\ term' = 0
  /\ UNCHANGED <<build, phase, sr, rr, errors, temp, actionTable, actionRow,
                 actionCol, gotoRow, gotoCol, errorBits, errorRow>>

Same(S) == [x \in S |-> x]

TablesFilled ==
  /\ phase = "tables" /\ state \notin StateIds
  /\ actionRow' = Same(StateIds) /\ actionCol' = Same(Terms)
  /\ gotoRow' = Same(StateIds) /\ gotoCol' = Same(Nonterms)
  /\ phase' = "order"
  /\ UNCHANGED <<build, state, term, sr, rr, errors, temp, actionTable,
                 gotoTable, errorBits, errorRow>>

-----------------------------------------------------------------------------
(* computeErrorBits: a row of bits is shared by the states that have it.   *)
ErrorTerms(s) == {t \in Terms : IsErrorAction(actionTable[<<s, t>>])}

ComputeErrorBits ==
  /\ phase = "errorBits"
  /\ IF build.eef
     THEN LET isNew(s) == \A r \in 0..(s - 1) : ErrorTerms(r) # ErrorTerms(s)
              rows == InOrder({s \in StateIds : isNew(s)}, LAMBDA a, b : a < b)
          IN  /\ errorBits' = [i \in DOMAIN rows |-> ErrorTerms(rows[i])]
              /\ errorRow' = [s \in StateIds |-> CHOOSE i \in DOMAIN rows :
                                ErrorTerms(rows[i]) = ErrorTerms(s)]
     ELSE UNCHANGED <<errorBits, errorRow>>
  /\ phase' = IF build.gcsc THEN "actionColumns"
              ELSE IF build.gcs THEN "actionRows" ELSE "done"
  /\ UNCHANGED <<build, state, term, sr, rr, errors, temp, actionTable,
                 actionRow, actionCol, gotoTable, gotoRow, gotoCol>>

(* colorTheGraph.  The next node to color is the one with the most colored *)
(* neighbours, then the fewest others, then the first; it gets the lowest  *)
(* color that no neighbour has.                                            *)
LowestFree(used, n) == Min((0..n) \ used)

Near(graph, x, S) == Cardinality({y \in S : <<x, y>> \in graph})
ColoredBefore(graph, colored, others, x, y) ==
  LET blocked(z) == Near(graph, z, colored)
      unblocked(z) == Near(graph, z, others)
  IN  \/ blocked(x) > blocked(y)
      \/ blocked(x) = blocked(y) /\ unblocked(x) < unblocked(y)
      \/ blocked(x) = blocked(y) /\ unblocked(x) = unblocked(y) /\ x < y
NextToColor(graph, colored, others) ==
  CHOOSE x \in others :
    \A y \in others \ {x} : ColoredBefore(graph, colored, others, x, y)

OneMoreColored(n, graph, c) ==
  LET x == NextToColor(graph, DOMAIN c, (0..(n - 1)) \ DOMAIN c)
      used == {c[y] : y \in {z \in DOMAIN c : <<x, z>> \in graph}}
  IN  With(c, x, LowestFree(used, n))

Coloring(n, graph) ==
  LET colors[k \in 0..n] ==
        IF k = 0 THEN << >> ELSE OneMoreColored(n, graph, colors[k - 1])
  IN  colors[n]

\* Variant of Conflict: a difference matters only next to error entries.
Conflict_OneError(a, b, error) == a # b /\ (a = error \/ b = error)

(* Two lines of a table conflict at a place if both have an entry there and*)
(* the entries differ.                                                     *)
Conflict(a, b, error) == a # error /\ b # error /\ a # b

(* Merge the lines 0..n-1, where at(line, k) is an entry: colors of lines  *)
(* and a table by color and k.                                             *)
MergedLines(n, places, at(_, _), error) ==
  LET graph == {e \in (0..(n - 1)) \X (0..(n - 1)) :
                  \E k \in places : Conflict(at(e[1], k), at(e[2], k), error)}
      color == Coloring(n, graph)
      entry(c, k) ==
        LET lines == {x \in 0..(n - 1) : color[x] = c /\ at(x, k) # error} IN
          IF lines = {} THEN error ELSE at(Max(lines), k)
  IN  [color |-> color,
       table |-> [ck \in {color[x] : x \in 0..(n - 1)} \X places |->
                    entry(ck[1], ck[2])]]

Rows(table) == {c[1] : c \in DOMAIN table}
Columns(table) == {c[2] : c \in DOMAIN table}
ByColumn(table) == [c \in Columns(table) \X Rows(table) |-> table[<<c[2], c[1]>>]]

MergeRows(table, error) ==
  LET at(r, c) == table[<<r, c>>] IN
    MergedLines(Cardinality(Rows(table)), Columns(table), at, error)

MergeColumns(table, error) ==
  LET merged == MergeRows(ByColumn(table), error) IN
    [color |-> merged.color, table |-> ByColumn(merged.table)]

MergeActionColumns ==
  /\ phase = "actionColumns"
  /\ LET m == MergeColumns(actionTable, ErrorAction) IN
       actionTable' = m.table /\ actionCol' = m.color
  /\ phase' = "actionRows"
  /\ UNCHANGED <<build, state, term, sr, rr, errors, temp, actionRow, gotoTable,
                 gotoRow, gotoCol, errorBits, errorRow>>

MergeActionRows ==
  /\ phase = "actionRows"
  /\ LET m == MergeRows(actionTable, ErrorAction) IN
       actionTable' = m.table /\ actionRow' = m.color
  /\ phase' = IF build.gcsc THEN "gotoColumns" ELSE "gotoRows"
  /\ UNCHANGED <<build, state, term, sr, rr, errors, temp, actionCol, gotoTable,
                 gotoRow, gotoCol, errorBits, errorRow>>

MergeGotoColumns ==
  /\ phase = "gotoColumns"
  /\ LET m == MergeColumns(gotoTable, ErrorGoto) IN
       gotoTable' = m.table /\ gotoCol' = m.color
  /\ phase' = "gotoRows"
  /\ UNCHANGED <<build, state, term, sr, rr, errors, temp, actionTable,
                 actionRow, actionCol, gotoRow, errorBits, errorRow>>

MergeGotoRows ==
  /\ phase = "gotoRows"
  /\ LET m == MergeRows(gotoTable, ErrorGoto) IN
       gotoTable' = m.table /\ gotoRow' = m.color
  /\ phase' = "done"
  /\ UNCHANGED <<build, state, term, sr, rr, errors, temp, actionTable,
                 actionRow, actionCol, gotoCol, errorBits, errorRow>>

TablesNext ==
  /\ \/ FillActionEntry \/ FillGotoRow \/ TablesFilled
     \/ ComputeErrorBits \/ MergeActionColumns \/ MergeActionRows
     \/ MergeGotoColumns \/ MergeGotoRows
  /\ UNCHANGED <<input, grammar, derivable, first, follow, changes, nextProd,
                 nextSym, hashOrder, setsVars>>

-----------------------------------------------------------------------------
(* The queries of the parser.                                              *)
ActionEntryIsError(s, t) ==
  IF build.eef /\ errorRow # << >> THEN t \in errorBits[errorRow[s]]
  ELSE IsErrorAction(actionTable[<<actionRow[s], actionCol[t]>>])

GetActionEntry(s, t) ==
  IF ActionEntryIsError(s, t) THEN ErrorAction
  ELSE actionTable[<<actionRow[s], actionCol[t]>>]

Kind(code) == code \div (MaxIndex + 1)
Index(code) == code % (MaxIndex + 1)

IsShift(code) ==
  IF build.crs THEN Kind(code) = AE_Shift
  ELSE code \in 1..Cardinality(StateIds)
IsReduce(code) == IF build.crs THEN Kind(code) = AE_Reduce ELSE code < 0

DecodeShift(code, t) ==
  IF build.crs THEN FirstWith(TermId(t)) + Index(code) ELSE code - 1
DecodeReduce(code, s) ==
  IF build.crs THEN temp.prodList[temp.prodStart[s] + Index(code)] ELSE - code
DecodeAmbig(code, s) ==
  LET at == IF build.crs THEN temp.ambigStart[s] + Index(code)
            ELSE code - Cardinality(StateIds)
  IN  SubSeq(temp.ambigList, at + 1, at + temp.ambigList[at])

(* What the parser makes of a code.                                        *)
Decoded(code, s, t) ==
  LET codes == IF IsErrorAction(code) THEN << >>
               ELSE IF IsShift(code) \/ IsReduce(code) THEN <<code>>
               ELSE DecodeAmbig(code, s)
      shifts == {i \in DOMAIN codes : IsShift(codes[i])}
      reds == Selected(codes, {i \in DOMAIN codes : IsReduce(codes[i])})
  IN  Cell(IF shifts = {} THEN NoState ELSE DecodeShift(codes[Min(shifts)], t),
           [i \in DOMAIN reds |-> DecodeReduce(reds[i], s)])

DecodeGoto(s, n) ==
  LET code == gotoTable[<<gotoRow[s], gotoCol[n]>>] IN
    IF build.crs THEN FirstWith(NontermId(n)) + code ELSE code
=============================================================================
