# Elkhound in TLA+

Elkhound is a parser generator: it turns a context-free grammar into tables
and C++ actions, and a generalized LR (GLR) parser core runs them. The core
keeps a graph-structured stack, so it accepts any grammar, ambiguous ones too,
and calls user actions to build, duplicate, merge and drop semantic values.
Everything is sequential. What is hard is not concurrency but *order*: in which
order reductions run, which cached facts about the stack are still true when
they are used, and who owns each node and each value at every moment.

This directory holds TLA+ modules translated from the source, TLC runs that
check them on small instances, and theorems checked by TLAPS. `PROJECT.json`
lists the components, the runs, the source lines of every definition, the
hazards and the findings.

## Inventory

| Part | Source | State | Operations | What makes it correct |
|---|---|---|---|---|
| GLR parser core | `elkhound/glr.{h,cc}` | stack nodes with sibling links, counts and determinism depths; `topmostParsers`, `prevTopmost`; the current token; worklist; statistics | `glrParse`, `deterministicParseToken` (mini-LR), `rwl*` (enumerate paths, reduce, shift), `cleanupAfterParse`, node (de)allocation | accepts exactly the language; value = all derivations merged; a value is complete before it is yielded; counts and depths exact; each value owned once; terminates |
| Reduction worklist | `glr.cc: ReductionPathQueue` | sorted linked list of paths, threaded through a pool | `newPath`, `insertPathCopy`, `dequeue`, `deletePath` | sorted by `goesBefore`, stable, no path lost or shared |
| Object pool | `smbase/objpool.h` | racks of objects, free list through a field of the objects | `alloc`, `dealloc`, `expandPool` | an object is free or in use, never both |
| Lexer interface, user actions | `lexerint.h`, `useract.h` | current token: internal and external code, value | `nextToken`, `reclassifyToken`, reductions, `duplicate…`, `deallocate…`, `merge…`, `keep…` | parameters of the core; the protocol of ownership |
| Grammar analysis | `elkhound/gramanl.{h,cc}`, `grammar.cc` (sets of terminals) | derivability bits, First/Follow sets, item sets on a pending stack or done, items on the closure's worklist or finished, tables | unreachable symbols dropped, fixpoints, LALR construction, renumbering, conflict resolution, nonterminal order | fixpoints reached; every state and every lookahead found, and no other; the declared disambiguation applied; order consistent with derivability |
| Parse tables | `elkhound/parsetables.{h,cc}` | encoded rows, ambiguous entries, error bits, compressed rows and columns | `encode…`, `decode…`, `mergeGotoColumns`, `colorTheGraph`, queries | a query after compression answers as before |
| Grammar representation and reader | `grammar`, `grampar`, `gramast`, `mlsstr`, `genml` | terminals, nonterminals, productions, options | parse and merge of grammar modules, emission of C++ and OCaml | mostly text |
| Parse trees, drivers | `ptreenode`, `ptreeact`, `glrmain`, … | trees with merged alternatives | counting, printing | user actions of the core |
| OCaml core | `elkhound/ocaml/` | as the GLR core | a port of `glr.cc` | as the GLR core |
| Source locations | `smbase/srcloc.{h,cc}`, `hashline.{h,cc}` | files one after another in one space of numbers, each with the lengths of its lines, an index of them and a moving marker; the file used last; `#line` directives; static locations | `encodeOffset`, `encodeLineCol`, `encodeStatic`, `decodeOffset`, `decodeLineCol`, `addHashLine` | answers do not depend on what was asked before; no two files share a location |
| Containers and strings | `smbase/` | lists, arrays, hash tables, bit arrays, dictionaries | the usual | data structure invariants |
| AST generator | `ast/` | none to speak of | text generation | text |
| C++ front end | `elsa/` | scopes, types, AST | type checking, overload resolution, ambiguity resolution | the rules of C++ |

Interactions: the driver calls `GLR::glrParse`, which pulls tokens from the
lexer and calls back into the user's actions (reductions, merges, drops). The
core reads the tables only through queries. The grammar analysis builds the
tables and the order of nonterminals that the worklist relies on: the promise
"no value is merged after it was yielded" depends on both. Nodes come from an
object pool; queued paths hold plain pointers into the stack. Lexers and the
front end ask the one `SourceLocManager` for locations, in any order, and a
decoded `#line` directive makes it ask itself for another file.

Hard behaviours, by kind (each with its line in `PROJECT.json`, "hazards"):

- *Cached facts.* The mini-LR core trusts `determinDepth`; queued paths hold
  plain pointers; two fields share one word in the object pool; cells of the
  compressed tables are shared where one of them is an error; a search for a
  line starts from where the last one ended.
- *Order.* Reductions must run so that values are complete before they are
  yielded; links added late must reopen parsers that were finished, and
  lookahead added late item sets that were done; ties must keep their order; a
  fixpoint must not stop early; nothing may depend on the order in which a hash
  table yields its items.
- *Ownership by hand.* Reference counts are moved rather than counted in two
  places; semantic values are moved into links and duplicated on use.
- *Cyclic stacks.* Hidden left recursion and cyclic grammars make the stack
  point at itself.
- *Failure of a step.* The user may refuse a reduction; assertions may be
  compiled in or out; a parse may stop in the middle; a number may not fit in
  the six bits of a table entry.
- *Boundaries.* Lines of 255 characters and more are cut into pieces; files may
  be empty or end without a newline; column and offset zero.

There is no concurrency, no persistence and no timing in this code, so there
are no models of them.

## Modules

| Module | Models | Kind |
|---|---|---|
| `PathOrder` | `goesBefore` and the sorted insertion, as operators | pure |
| `PathArrivals` | which paths arrive at the worklist | constants |
| `PathQueue` | what the reduction worklist promises: a sorted, stable sequence | abstract |
| `ReductionPathQueue` | the linked list in the object pool that implements it | detailed |
| `Parser` | what `glrParse` promises its caller | abstract |
| `GLR` | the parser core | detailed |
| `GLRProperties` | the properties of `GLR`, and its refinement of `Parser` | properties |
| `Derivable` | derivability, cyclicity, order of nonterminals | detailed |
| `FirstFollow` | unreachable symbols, First and Follow | detailed |
| `ItemSets` | the LALR item sets and their numbers | detailed |
| `ParseTables` | conflicts, encoding, error bits, merged rows and columns, queries | detailed |
| `GrammarAnalysis` | `runAnalyses`: the four above, one after another | composition |
| `GrammarProperties` | the properties of `GrammarAnalysis`, by reachability | properties |
| `SourceText` | files, lines and directives | constants |
| `Locations` | what a source location promises: no index, no marker, no cache | abstract |
| `SourceFile` | one file with its pieces of lines, its index and its marker | pure |
| `SourceLocs` | `SourceLocManager` | detailed |
| `Derivations` | how many derivation trees a word has, the reference semantics | reference |
| `SampleGrammars` | three grammars with their LALR(1) tables | instance data |
| `MCPathOrder`, `MCReductionPathQueue`, `MCGLR`, `MCDerivable`, `MCGrammarAnalysis`, `MCSourceLocs` | instances for TLC | instances |
| `Orders_proofs` | numbers, orders and what is computed step by step | proofs |
| `ReductionPathQueue_proofs` | the order of paths, the abstract worklist, and the list in the pool that implements it | proofs |
| `GLR_proofs` | the shape of a stack, its counts and its links, what each helper of `GLR` does to them; the invariant of the parser core, action by action, and its properties; that the worklist misses no reduction | proofs |
| `Derivable_proofs` | derivability, its cycles and the order of nonterminals | proofs |
| `ItemSets_proofs` | that lookahead is handed on to every state, and the types of the item sets | proofs |
| `GrammarAnalysis_proofs` | that First, Follow, the automaton and its lookaheads are exact | proofs |
| `ParseTables_proofs` | conflict resolution and its counts, encoding, colouring, merging, queries | proofs |
| `SourceLocs_proofs` | the table of files, that `SourceLocs` implements `Locations`, and that its answers are exact | proofs |

Definitions named `X_Something` next to a definition `X` are variants of it
with a plausible bug. They are used by no specification; putting one in the
place of `X` makes the property that `PROJECT.json` names under "mutants" fail.

### `GLR`: the parser core

The state is that of the `GLR` object between two steps of `glrParse`:

| Variable | Code |
|---|---|
| `node` | the live `StackNode`s; a node that went back to the pool is not in its domain. `sibs[1]` is `firstSib`, the others are `leftSiblings` |
| `topmostParsers`, `prevTopmost`, `globalNodeColumn` | the members of that name |
| `reduction` | `prod` and `toPass` of the pop loop in `deterministicParseToken` |
| `pathQueue` | the reduction worklist, as `PathQueue` promises it |
| `frames`, `requests` | the recursion of `rwlRecursiveEnqueue`, and the loops that call `rwlEnqueueReductions` |
| `depthSweep` | the loop that recomputes `determinDepth` in `rwlShiftNonterminal` |
| `lastShiftLink` | `prev` of `rwlShiftTerminals` |
| `decs` | the references `decRefCt` and `deinit` have still to drop |
| `lexer`, `text`, `position`, `savedTokens` | the token stream and the pieces of a reclassified lexeme |
| `owned` | a ghost: how many semantic values were handed to the parser and not given back |
| `yieldThenMergeCt` | the statistic of that name, saturating at `MaxYieldThenMerge` |
| `treeTop` | the tree handed to the caller |

Actions follow the functions: `TakeToken` the top of the loop in
`innerGlrParse`; `MiniLRError`, `MiniLRReduce`, `MiniLRPop`, `MiniLRPush`,
`MiniLRShift` and `FallBack` the mini-LR core (`deterministicParseToken`);
`EnqueueReductions`, `ExtendPath`, `FinishPath` the enumeration of paths;
`ReduceCancelled`, `ReduceMerge`, `ReduceAddLink`, `ReduceNewParser` the body
of `rwlProcessWorklist` with `rwlShiftNonterminal`; `SettleParser`,
`SettleSweepDone` the depth recomputation; `StartShifts` … `ShiftsDone`
`rwlShiftTerminals`; `DropReference`, `FreeNode` the recursion of `decRefCt`
and `deinit`; `NextToken`, `CleanupAfterParse`, `Accept`, `Return` the end of
a token and of a parse. Loops are unrolled to one turn per step where an
intermediate state matters; a step is otherwise a whole handler.

The tables, the lexer and the user's actions are constants. So is `Items`: the
generator makes the tables from LR items and does not keep them, but what makes
a reduction possible is that its production is complete in a state and that
every way to that state went over its symbols. `ItemsAssumption` and
`FinalItemsAssumption` say so; `MCGLR` finds the items again from the tables of
its grammars (`MCItems`), and every run evaluates both assumptions. The build
options are constants too: `NDebug` (assertions compiled out) and `EnableEEF` (the
early error check). Not modelled: the parser index (compiled out at
`glr.cc:185`), source locations, tracing, statistics other than the one
above, `dumpGSS`, and the arrays behind `toPass` and the token buffer (their
limits are listed as hazards). Nodes come back from the pool without links, as
after `deinit`.

Two properties of the algorithm have known limits, and the runs respect them.
A cyclic stack is never freed by reference counts, so `EverythingReleased` is
not asked of grammars with hidden left recursion (such a node links to
itself). And a cyclic grammar has no order that avoids yield-then-merge, so
`NoYieldThenMerge` is asked of acyclic ones only, as the comment at the top of
`glr.cc` says.

### `ReductionPathQueue` and `PathQueue`

`PathQueue` is a sequence kept sorted by `goesBefore`, where a path that ties
goes after those before it, and at most one path is out of the queue.
`ReductionPathQueue` has the objects of the pool with their one `next` field,
the free list and the head of the sorted list, and takes a step per turn of
the search loop; a pool object holds garbage until it is set. The refinement
maps the list from `top` along `next` to the sequence: `MCReductionPathQueue`
has the two next to each other, `queue` being at each step what is found by
going along the links, and asks `PathQueue`'s properties and its specification
of it.

### `Derivable`

A grammar is chosen in `Init` and never changes. A step considers one
production (`ConsiderEmpty`, `ConsiderProduction`), one edge (u, v) of the
closure (`ClosureStep`), or one call or return of `topologicalSort`
(`SortFrom`, `SortDeriver`, `PutInOrder`). Terminals are one symbol, because
the analysis never tells them apart. The reference, `Derives`, does not share
anything with the algorithm: a symbol is nullable, or derivable, if it is in
*every* set closed under the productions. That form needs no recursion, which
is what makes it usable in a proof. The search for the order happens much
later in the program than the fixpoint; `derivable` runs the two on their own,
and `GrammarAnalysis` puts what happens in between there.

### `GrammarAnalysis`: from a grammar to its tables

`phase` follows `runAnalyses`. The module extends `ParseTables`, which extends
`ItemSets`, which extends `FirstFollow`; `Derivable` is an instance on the same
variables, with the terminals erased from the productions (`Erased`).

| Phase | Code | Step |
|---|---|---|
| (`Init`) | `initializeAuxData` | reachable symbols kept and renumbered; `forbid` sets converted to the new numbers |
| `derive` | `computeWhatCanDeriveWhat` | as in `Derivable` |
| `first` | `computeFirst` | one production |
| `follow` | `computeFollow` | one symbol of a right-hand side |
| `sets` | `constructLRItemSets`, `itemSetClosure` | take a state from the pending stack; close one item; take the finished items in the order of the hash table; move the dot over one item, which finds the target state, merges lookahead into it and may put it back on the stack, or makes it |
| `number` | `renumberStates` | all |
| `tables` | `computeParseTables`, `resolveConflicts` | one cell of the action table, or one row of gotos |
| `order` | `topologicalSort` | as in `Derivable` |
| `errorBits` … `gotoRows` | `computeErrorBits`, `merge…` | one table |

`hashOrder` is the order in which the hash tables of a run yield productions,
which in the program depends on addresses; it is chosen at the start, as is
`build`: early error checks (`eef`), merged goto columns (`gcs`, with colouring
`gcsc`), codes relative to the first state of a symbol (`crs`), and whether
ambiguity is allowed. `MaxIndex` is the largest number in an entry, 63 in the
program. A code that does not fit ends in phase `failed`, where the code has
its assertion.

The reference (`GrammarProperties`) shares nothing with the iterations: what
can begin and follow a symbol, the states and their lookaheads are sets of
things *reachable* along edges that are read off the productions.

### `SourceLocs`: source locations

An action is one call. `SourceFile` has what the code keeps of a file: the
lengths of the lines in pieces shorter than `LongLine` (255 in the program), an
index entry for every `MarkerPeriod` lines and the marker where the last search
ended. `recent` is the file used last. `NumChars` adds the length of an
unterminated last line twice, as `File::init` does (srcloc.cc:144 and 154), so
such a file owns more locations than it has characters; the decode calls are
made for locations that an encode call gives out.

`Locations` has the text and no index: the line of an offset is one more than
the number of newlines before it. `SourceLocs` implements it, which says that
markers, cache and index can never be observed. The promise is for offsets up
to the size of the file, and for lines that end in a newline; what happens on a
last line without one is finding 5.

## Runs

Deadlock is checked in every `glr_*` run, in `source_locs`, and in
`grammar_analysis`, where only the phases `done` and `failed` may stutter: that
every analysis comes to one of them is a matter of the phases' own fixpoints
(`AnalysisEnds` asks it of the first). `derivable` and `derivable_order` turn it
off because the analysis ends, `reduction_path_queue` because a behaviour ends
after `MaxArrivals` arrivals once the last path is deleted.

| Run | Instance | Shows |
|---|---|---|
| `glr_forks` | grammar `forks`: sums up to 5 tokens and one of 7, chains up to 3, trails up to 4 tokens | `TypeOK`, `UniqueState`, `RefCountExact`, `EverythingReleased`, `NoYieldThenMerge`, `DeterminDepthExact`, `QueuedPathsExist`, `ParseEnds`, and that the core implements `Parser` |
| `glr_cycles` | grammar `cycles` with assertions compiled out and a lexeme that stands for two tokens | `ReductionsComplete`, `OldNodesFrozen`, `ImplementsParser` where the stack is cyclic |
| `glr_cancel` | grammar `cycles`, the user may refuse any reduction, assertions and early errors on, a keyword reclassified | `AssertionsHold`, `ValuesOwnedOnce` |
| `reduction_path_queue` | the productions of `MCPathOrder`, columns 0 and 1, 4 arrivals, `RackSize` 2, assertions compiled out | `EachPathInOnePlace`, refinement of `PathQueue`, `QueueSorted`, `TiesInArrivalOrder` |
| `derivable` | 3777 grammars of four nonterminals | `DerivableSound`, `SettledComplete`, `CyclesFound`, `OrderFollowsDerivable`, `AnalysisEnds` |
| `grammar_analysis` | 15 grammars, 4 builds, each with an order of the hash tables, `MaxIndex` 3 | `TypeOK`, `FirstFollowExact`, `AutomatonExact`, `LookaheadsExact`, `DoneHasPropagated`, `ConflictsResolved`, `ConflictsCounted`, `QueriesAgree`, `ForbiddenNotReduced`, and `TablesAsRecorded`: the tables that the `glr_*` runs use are those the analysis makes |
| `source_locs` | two files, once with directives and once without a last newline, `LongLine` 3, `MarkerPeriod` 2 | `TypeOK`, `FilesApart`, `FilesDistinct`, `MarkersTrue`, `EncodingExact`, `DecodingExact`, refinement of `Locations` |
| `glr_pieces_values` | a lexeme split in two | **violated** `ValuesOwnedOnce`: both tokens' links own one value |
| `glr_pop_shared` | hidden left recursion | **violated** `PoppedLinkUnshared`: the assertion at `glr.cc:1231` |
| `glr_token_codes` | sums, after a terminal that no rule uses | **violated** `ImplementsParser`: the two cores use two different codes of a token |
| `derivable_order` | S → A A, A → x \| ε | **violated** `OrderRequirement`: the fixpoint stops one iteration early |
| `source_locs_round_trip` | as `source_locs` | **violated** `RoundTrip`: a character of an unterminated last line decodes to a place that encodes to another |

Why the bounds are enough. The interesting events of the core are meetings:
two alternatives that reach one state, a link added to a parser that others
point at, a path queued before the link that completes its value. The grammars
were chosen so that each happens within three or four tokens: in `forks` an x
is one nonterminal in four ways (order of the worklist), a sum of three
terms merges (two derivations) and one of four merges twice, and `K K C` with
an empty `C` adds links under existing parsers and shortens depths. In
`cycles` the stack becomes cyclic after one token. Together the passing runs
take every action. `SVal` counts derivations, so a derivation lost or made
twice changes the value; `glr_cycles` uses a single value instead because the
number of derivations is infinite there. `MaxHeight` bounds the derivation
trees that `Derivations` counts, and exceeds the height of every tree of the
texts (for `cycles`, of some tree for every sentence). `MaxCount` is never
reached in `glr_forks` and makes counting into recognition in `glr_cycles`.
`MaxYieldThenMerge` caps the one counter that is never reset. In `derivable` the
alternatives are chosen so that empty, unit, self-, mutually and
context-dependent productions meet in every order of their indices; among them
are 2 → 3 4, 3 → 4 2, 4 → ε, whose cycle the fixpoint stops too early to see, and one
more has a nonterminal that derives itself directly.

The grammars of `grammar_analysis` are the three of the parser runs and twelve
for one hazard each: symbols that are dropped before a `forbid` set is read
(`junk`, and `nest` where none is; both forbid the end of the file),
each associativity, declared splits, three reductions next to a shift with
precedences below, above and like its own, so that in some cells the order
decides and in others it must not (`ranked`, `rivals`), `maximal` with `subset`
(`words`: next to a shift, and without one), a grammar that is
LR(1) but not LALR(1), a state that adds to its own lookahead, optional symbols
at both ends, a nonterminal of which the analysis does not know that it vanishes,
and one with more successors of a terminal than `MaxIndex` can number. `MaxIndex` 3 instead of 63 puts the limit within reach of a grammar of
seven terminals, `wide`.
Three permutations stand for the orders of the hash tables; a different order
for each table at each moment would be more than the program can do with
addresses that do not change.

In `source_locs` a line of 6 characters takes three pieces with `LongLine` 3,
an exact multiple (5 and 2 characters with their newlines) and an empty line
are next to it, and every search by marker may have been preceded by any other,
forwards or back, since the marker is part of the state and the state space is
finite. `MaxStatics` 3 allows one static location more than the constructor
makes; `MaxCol` 8 exceeds the longest line, so truncation happens.

Fairness. `FairSpec` of `GLR` is weak fairness of `Parse`: `glrParse` is a
call of a sequential function, which goes on once started. The caller need
not call again. `FairSpec` of `Derivable` is weak fairness of `Next`, for the
same reason. Without user code that loops these are the only assumptions. The
other specifications state none: `SourceLocs` and `PathQueue` are called by
whom they like, and for `GrammarAnalysis` nothing is claimed that needs it.

## Findings

1. **Two codes for one token** (`glr_token_codes`). `lexer.internalType` and
   `lexer.type` are used by two copies of the same decisions; they differ when
   a terminal is unreachable.
2. **A value with two owners** (`glr_pieces_values`). A reclassified lexeme's
   value is put in several links without a duplicate.
3. **An assertion that need not hold** (`glr_pop_shared`). A leaked cycle
   keeps a second reference to a node that mini-LR is about to use as its own.
4. **A fixpoint that stops early** (`derivable_order`). Setting the bit for an
   empty production does not count as a change.
   `SettledComplete` shows the exact extent: the relation is complete as soon
   as one derivation between different nonterminals was found. The rest of the
   analysis asks this relation what vanishes: for S → D A, D → x, A → M M,
   M → m | ε it does not know that A does, so Follow of D lacks the end of the
   text and x alone is not accepted. `FirstFollowExact` and `LookaheadsExact`
   have what the relation knows as their premise (`NullableKnown`), and
   `AutomatonExact` needs none.
5. **A place that does not round-trip** (`source_locs_round_trip`). The line
   after the last newline stands for the end of the file, although it may hold
   characters; and its length is added to `numChars` twice.
6. **Cycles that are not reported** (stated in `CyclesFound`). `cyclic` is to be true
   of what derives itself in one or more steps. A nonterminal that does so directly
   (A → A, or A → A B with B nullable) is never reported, since the bit is there from
   the start; and where finding 4 strikes, as in A → B C | x, B → A C, C → ε,
   neither is a cycle of two.
7. **The end of the file is not forbidden** (stated in `ForbiddenNotReduced`).
   `TerminalSet::convert` takes the new number 0 for a dropped terminal, so a
   `forbid_next` of the end of the file is forgotten when the grammar has an unused
   symbol, and kept when it has none.
8. **Actions that depend on addresses** (stated in `ConflictsResolved`). The shift
   is compared with one reduction after another until it is gone. A reduction
   that comes after that stays, though it would have been dropped if it had come
   first: of two with the precedence of a nonassociative terminal one stays, not
   none. The order is that of a hash table of pointers.

Findings 6 to 8 are no runs of their own: the property says what the code does and
names the exception, and a grammar of its run meets it.

The lists of `productionsByLHS` are appended to without ever being constructed
(gramanl.cc:1485); the model has them empty, as cleared memory makes them.

## Proofs

TLAPS checks these for all values of the constants.

`ReductionPathQueue_proofs`, from `ProdInfoAssumption` and `NontermOrderAssumption`:
`TypeCorrect`, `QueueAlwaysSorted`, `TiesAlwaysInArrivalOrder`. `goesBefore` is
a strict weak order (irreflexive, asymmetric, negatively transitive); the
insertion point exists and separates what goes before from what does not; so
an insertion preserves sortedness and stability. The invariant of the last
theorem is strengthened by sortedness: without it a path could be inserted in
front of a tie that stands behind a later path.

Of the list in the pool: `PoolPartitioned` (`EachPathInOnePlace`) and
`ListImplementsQueue`, from which `ListAlwaysSorted` and
`ListTiesInArrivalOrder` follow. The invariant has two witnesses, the sequence
of objects on the sorted list and the one on the free list, each chained
through the one `next` word; that they and the objects in hand share nothing is
what makes a write to `next` in one list harmless for the other. During a
search the position in the list is the one the abstract insertion would choose
or lies before it.

`Derivable_proofs`, from `GrammarsAssumption`: `DerivableAlwaysSound`,
`DerivableAlwaysComplete` (`SettledComplete`), `CyclesAlwaysFound` and
`OrderAlwaysFollowsDerivable`.

*Soundness.* The inductive invariant is that the bits set so far are derivations, of the grammar
chosen at the start. The step that needs an argument is `ConsiderProduction`:
the code concludes that the rest of a right-hand side vanishes from bits in
column 0, so one needs that whatever *derives* the empty string is *nullable*
(`DerivesEmptyNullable`): otherwise the symbols that are not nullable would be
a set closed under derivation that does not contain the empty string.

*Completeness.* `Fixpoint` says what an iteration has achieved where its loops
have passed. `Closing`: an edge that they passed is joined to all that leaves its
end, unless a bit was set since, and then `changes` will have it looked at again.
`Considered`: the empty productions they passed are known, and the others too, as
long as nothing changed *and* there is an edge at all: the first iteration may
end without a change while the empty productions ahead of it were unknown, which
is the fourth finding and the reason for the premise of `SettledComplete`. When
the loop ends the relation is transitive and its column 0 is closed under the
productions, so it has every nullable nonterminal, and then every derivation:
`Nullable` and `Derives` are least sets, and what is known is one of the sets that
they are the least of. `CyclesFound` is about the derivations of the grammar, not
about the matrix: what is reported is an edge there and back by `Closing`, and both
are derivations by `DerivableSound`; conversely both derivations are in the matrix by
`SettledComplete`, and `Closing` has joined them.

*The order.* `Sorted` says that the stack of calls is a path along the relation
(`OnPath`), that a nonterminal has its ordinal as soon as its call is over, and that
one has an ordinal only when all that come after it do (`Numbered`). A nonterminal
that is put in order has its derivers seen; one that it does not derive in turn
cannot be among the calls, since the last call derives all of those, so it has its
ordinal. The invariant needs the relation to be transitive, so
`Fixpoint` is carried along.

`ItemSets_proofs`, from `HashOrdersAssumption`: `DoneAlwaysPropagated`
(`DoneHasPropagated`). The invariant `SetsInv` holds while the states are made:
- a state has transitions only for symbols its items call for, and they lead to
  states there are (`Automaton`);
- the stack has no state twice and none that is done, and the state under closure
  is neither done nor the one whose items are looked at (`Lined`);
- a closure keeps at least the productions it began with, each once, whether
  finished or on its worklist (`GoodWork`), so that a state that is closed again
  calls for no symbol less (`MoreCalledFor`);
- a state that is done has handed on what it has, over each symbol (`HandsOn`),
  and the current one, if it is still done, over those of the items it is past
  (`Considered`).

The last part is where the code is subtle. A state that gets more lookahead is
taken out of `done` in the same step, and so is the current one when it adds to
itself, although its items are still gone through and its closure is put off;
that is why `Considered` is conditional. A transition may be set again, to the
same state or to another; it is the kernel that the dots lead to that counts, and
it only grows (`Covers`). Items come out of the closure in the order of the hash
table, of which the proof needs only that it is one (`ListedOnce`).

Also there, from `InputsAssumption`: the types of what the iterations and the
closure make (`Typed`, `Placed`), which `ParseTables_proofs` builds on.

`GrammarAnalysis_proofs`, from the same assumptions, compares what the analysis has
found with the references: `AutomatonAlwaysExact` (`AutomatonExact`),
`FirstFollowAlwaysExact` (`FirstFollowExact`) and `LookaheadsAlwaysExact`
(`LookaheadsExact`). The references are recursive functions
on sets that take one step after another until nothing changes; `GrownIs` and
`ReachIs` show that each is the least set with its closure, by the smallest number of
elements missing for which they could fail, and from there on only that is used.

*The automaton.* `LrSoFar` says what holds while the states are made: each is a state
of the automaton with its kernel in item order, so that the comparison of kernels as
lists finds it, and no two have the same (`LrStates`); each nonkernel item is there
once and is needed, because some chain of items calls for it; all states are on the
stack or done; and all but the one under closure have each item they call for. Of that
one the same is said of what its worklist and its finished items will make
(`WorkComplete`): the code drops the finished items of a state that is closed
again, and finds them anew. At the end nothing is missing, since `DoneHasPropagated`
gives every state its transitions and what they lead to is there (`SetsDoneLr`), and
the new numbers change no more than the names (`RenumberedLr`).

*First and Follow.* `FirstFollowInv`: nothing is added that a derivation does not put
there; and in an iteration in which nothing has changed so far, the productions that it
has passed, or the places of their right-hand sides, have nothing to add. So when an
iteration ends without a change, both are closed, and hence complete. What the code
computes of a list of symbols is what the reference asks of it (`OfSequence`) when
`CanDeriveEmpty` is, and that is the premise.

*Lookahead.* The reference lets a terminal travel along edges: with an item over its
next symbol into another state, and from an item to those it calls for (`LookEdges`).
`LooksSoFar` has two halves. No item has a terminal that has not travelled there
(`AllSound`); and what an item passes on, the items it calls for have (`AllPass`). The
second half has two exceptions, where the code is at work. Of the state under closure
it is said of the items on the worklist and of the finished ones, which go back on the
list when they get more (`WorkLooks`). And the state that is being looked at can get
lookahead from itself: its closure is then put off to the end, and until then its
kernel may have more than its items were given (`mustCloseMyself`). At the end neither
is left, `DoneHasPropagated` gives what goes over a symbol, and the terminals in the
items are closed under all edges, so they are all there are (`SetsDoneLooks`). The
premise is that of First and Follow, since a closure reads both `CanDeriveEmpty` and
First.

`ParseTables_proofs`, from these and `BuildsAssumption`, proves five properties of the
whole analysis: `AnalysisTypes` (`TypeOK`), `ConflictsAlwaysResolved`
(`ConflictsResolved`), `ConflictsAlwaysCounted` (`ConflictsCounted`),
`QueriesAlwaysAgree` (`QueriesAgree`) and `NothingForbiddenReduced`
(`ForbiddenNotReduced`). The invariant is `AnalysisInv`: `SetsInv`, types, which
phase comes after which, and `TablesInv`, which says of the tables, phase by phase,
that each cell filled so far has a code that *means* what the conflict resolution
leaves of it.

*Resolution.* The code compares the shift with one reduction after another, and a
comparison may drop the shift, so that the ones after it see a cell without it. The
loops are folds here (`Iterated`); after k steps the shift is left if none of the
first k reductions takes it, and of these the ones that it does not take or that come
after one that takes it (`AfterReds`). `OrderMatters` splits the rest. Where it holds,
this is what the reference says: `UpToTheFirst` are the places at which the shift is
still there. Where it does not, a reduction that stays by its place only is
outranked by one that stays in any case, and the next pass drops it (`Outdone`,
`HighestAlike`), so the order makes no difference; nor does it where there is no
shift. Among
the subsets of a nonterminal the code looks for the nearest superset that is present; that going up
comes to an end is in `Input`, because a cycle of subset declarations is reported
before (gramanl.cc:2957).

*Counting.* `CountsInv` counts cells seen so far. It says nothing of grammars with
a terminal whose split is declared, which the code counts apart. The reduce/reduce
conflicts are counted as pairs of a cell and a place in its list
(`MoreReds`), which turns the sum over the cells into the size of a set.

*Encoding.* A code means an action relative to lists that grow while the tables are
filled (`CodeMeans`): `Grown` says what a list may become, and that a meaning
survives it (`StaysMeant`). Codes relative to the first state of a symbol, and
lists that are found again instead of added, need that the start of a state's part
is set once (`StartIs`). A number that does not fit ends the analysis, so
every code of finished tables decodes to its cell (`MeansDecoded`).

*Merging.* Rows or columns are merged by colour. `ColoringIs` says that neighbours
in the graph of conflicts have different colours, whatever the order of colouring,
because the lowest free colour is among as many as there are nodes
(`FreeIs`). What is not an error is then kept in the merged table, and what is an
error is told apart by the error bits, which is why merging is only built with them.

`SourceLocs_proofs`, from `DisksAssumption` and `StaticsAssumption`:
`TypeCorrect`, `LocationsPartitioned` (`FilesApart`) and `FilesKnownOnce`
(`FilesDistinct`). The invariant `IInv` is about the table of files as a whole:
names are distinct, and the files cut the locations below `nextLoc` into
intervals. Neither part stands alone. A new file starts at `nextLoc`, so that it
meets no earlier one only if all of those end below; and a decode call finds a
file, which then becomes `recent`, only because every location has one.
Distinctness needs that `recent` is the number of a file and that a name that
neither it nor the list has is new. One lemma per call shows that it leaves
`IInv`; they rest on what the helpers `FindFile`, `GetFile` and `MoveMarker`
return.

Also there: `LocationsImplemented`. Each call of `SourceLocs` is the
call of `Locations` on the mapped state: files keep their starts, directives go
to the file that the abstract step names, whatever `recent` and the markers
have been left at. It uses `IInv`: that the cached file and
the list find the same file needs that names are distinct.

`MarkersAlwaysTrue`, `EncodingAlwaysExact` and `DecodingAlwaysExact` say what is
inside a file, from `SourceFileAssumption` too; `LongLine` is any number from 2 and
`MarkerPeriod` any from 1. The invariant adds to `IInv` that each file `Describes`
its text: its entries, its index and its counts are those of the text, and its
marker is true (`TrueMarker`), which means before part j of some line l, with the
column and the character that follow from l and j. The directives noted of a file are the
first ones in it (`NotedOf`), so that their lines ascend. The argument:
- the entries of a line stand for its length, each but the last for `LongLine - 1`
  characters, and the last one is not empty if there are others (`PartsAre`,
  `Entries`); a marker that advances goes from part to part and from line to line
  (`AtAdvances`), so it stays true;
- the loops stop before the entries end (`MovedToLine`, `MovedToChar`): at the first
  part of the line that is asked for, and at the part that the character is in;
- both binary searches find the last key that is not above the one asked for, if
  there is one, or the first (`SearchIs`); this is where a marker of the index
  that is not beyond comes from;
- so a line and column, and a character, come out where counting newlines puts
  them (`LineColIs`, `PlaceIs`), from any true marker.
Where the promise ends, in an unterminated last line, markers stay true all the
same: that line is answered without moving one.

### The parser core

`GLR_proofs` proves every safety property of the core that
does not speak of the grammar's language. The theorems rest on
the assumptions about the tables (`TablesAssumption`, `ItemsAssumption`,
`FinalItemsAssumption`, `ProdInfoAssumption`, `NontermOrderAssumption`,
`LexerAssumption`), and on named hypotheses:

| Hypothesis | Says | Why |
|---|---|---|
| `UserValues` | the lexer and the user's actions answer with semantic values | their types in `useract.h` |
| `AssertedOrNoLoop` | assertions are compiled in, or the grammar has no hidden left recursion | `glr_pop_shared` shows that a release build goes on after popping a node that something else refers to; from there on counts are wrong |
| `NoHiddenLeftRecursion` | there are `empty`, `rest`, `height` as in `NoEmptyLoop` | a cyclic stack is never freed; a run of `MCGLR` evaluates `NoEmptyLoop` for its acyclic grammars |
| `OnePiece` | no lexeme is split | `glr_pieces_values` shows two owners of one value otherwise |

| Theorem | Property | Hypotheses |
|---|---|---|
| `StackInOrder` | `IInv`, and no shared link is popped | `UserValues`, `AssertedOrNoLoop` |
| `StackTypesCorrect` | `TypeOK` | the same |
| `StatesAlwaysUnique` | `UniqueState` | the same |
| `CountsAlwaysExact` | `RefCountExact` | the same |
| `DepthsAlwaysExact` | `DeterminDepthExact` | the same |
| `QueuedPathsAlwaysExist` | `QueuedPathsExist` | the same |
| `AssertionsAlwaysHold` | `AssertionsHold` | the same |
| `ReductionsAlwaysComplete` | `ReductionsComplete` | the same and no reduction is refused |
| `OldNodesStayFrozen` | `OldNodesFrozen` | the same |
| `ValuesAlwaysOwnedOnce` | `ValuesOwnedOnce` | the same and `OnePiece` |
| `PoppedAlwaysUnshared` | `PoppedLinkUnshared` | `UserValues` and a witness of `NoHiddenLeftRecursion` |
| `EverythingAlwaysReleased` | `EverythingReleased` | `UserValues`, `NoHiddenLeftRecursion`, `OnePiece` |

*The views.* A stack is looked at through functions of its nodes: `Shape` (the
nodes its links lead to), `States`, `Counts`, `Depths`, `ColumnsOf`. Each helper
of `GLR` changes few of them, and one lemma says which (`ViewsIncRefCt`,
`LinksGrown`, ...). `In(w, n)` is the number of links of a shape that lead to a
node, `Occ(n, list)` how often a list holds it; a count is exact if it is the
sum of these.

*The invariant*, `IInv`, has twelve parts, and no property is inductive without
most of them. `Counted` is `RefCountExact` of the shape: a step that
takes a reference away from a list has to put it in a link or on `decs`.
`StackSound` says that links lead to live nodes along the automaton; with
`Items` a path of the length of a right-hand side then exists under every
reduction and its left edge has the goto (`Popping`, `Enumerated`), which is why
a reduction never runs off the stack. `UniqueTops`, with `Shifts` for the
parsers that are shifted meanwhile, gives `UniqueState`. `TopsUnlinked` says that
nothing leads to the parsers on top, so that
what is frozen stays frozen and a new link disturbs no depth below; amid the
reductions they may lead to each other, which is the one way a stack becomes
cyclic. `Settling` says which depths may be wrong while they are computed again.
`Phases` and `TopColumns` say what the lists hold at each point of `glrParse`;
`AtEnd` that the token that ends a text leads to the final state over one link,
which is what `cleanupAfterParse` asserts.

*Freezing.* The lemma about an action that changes the stack ends in
`StackChanges`: a node of an earlier column that survives keeps its state and its
links, and the number of links grows by what the values need. The first half is
`OldNodesStayFrozen`. The assertions need one more fact, `DroppedAreOld`: the
references dropped during a shift are not those of the new parsers.

*Values.* `Owning` counts `owned` against the number of links, the values on
their way and the token; each action changes both sides by the same amount. A
node that is freed gives back one value per link, a merge two for one, a refused
reduction those that it duplicated.

*No reduction is missed.* `AllSought` says: a parser on top, one
of its reductions and a walk of that length down the stack (`Walk`: the nodes and
the positions of the links between them) are always in one of four states. The
reduction is `Made`: a parser for its result is linked to the left edge. Or it is
`Waiting` in the worklist. Or a frame is on the walk and has yet to pass
the link it must use, if any (`Followed`). Or the parser is to be
looked at, with no restriction or for a link that is on the walk (`Requested`).
The step that needs this form is a new link under an old parser: it creates walks
that were in none of the four states, each of which uses that link, and the code
looks at every parser on top for just these. That the walks are those of the
final stack, and not of the one the enumeration began with, is why the positions
are part of them: old links keep theirs. A refused reduction is taken
from the worklist and leaves nothing behind, so there are none in this theorem;
and in `glr_cycles`, where assertions are compiled out and the stack is cyclic, the
property stays with TLC. `LeftEdges` of the property is a recursive function of
the length; that its members are ends of walks is shown by the least length at
which it could fail.

*Ranks.* Without hidden left recursion a stack is acyclic: every link goes to a
node of an earlier column, or, over an empty nonterminal, to one of the same
column in a state of a greater `height` (`Downhill`). `Working` carries what that
takes through a reduction: once it is back in the current column, all symbols
that it still has to pass derive the empty string. In an acyclic stack some node
of every set has nothing of that set above it. If a popped link led to a node
with a second reference, a node other than the one popped would lead to it, and
above that one would be another, without end (`PoppedIsUnshared`); and if a node
remained after an accepted parse, so would one that nothing refers to, whose
count is not positive (`AllReleased`).

### What only TLC checks

- Liveness (`ParseEnds`, `AnalysisEnds`, the liveness half of
  `ImplementsParser`): out of the prover's reach.
- `ImplementsParser` and `NoYieldThenMerge`: they speak of the values of all
  derivations of a text, and of derivability over the whole grammar; the first
  is defined by the recursive functions of `Derivations`.
- `TablesAsRecorded`: it is about three grammars, and is evaluated.

## Plan

1. *Done:* the worklist and its pool, the parser core, the grammar analysis from
   the declared grammar to compressed tables, source locations, and the theorems
   above.
2. *Proofs that are left:* of `NoYieldThenMerge`, the part that follows from the order
   of the worklist alone.
3. *If the project grows:* the containers of `smbase` that carry an algorithm
   (hash table with removal and resizing, array queue), each against its abstract
   data type; the generic ambiguity resolution of the C++ front end
   (`elsa/generic_amb.h`) with the errors it sets aside and puts back, and the
   tournament of `elsa/overload.cc`.

## Not modelled

- *In the parser core:* what is listed under `GLR` above. A reduction that the
  user refuses in the mini-LR core leaves values of half-built nodes behind
  (glr.cc:1348), the buffer of a reclassified lexeme has no check (glr.cc:946),
  and `toPass` is shared by nested parses (glr.cc:232); these are in the list of
  hazards without a property.
- *In the grammar analysis:* the modes LR(0), SLR(1) and LR(1), which
  are build options that the program is not built with; sample inputs, left
  contexts and reports, which only print; entries of 16 bits, which no small
  table fills, and the entries of 8 bits that gotos have with `crs`
  (`validateGoto`, parsetables.cc:209): the limit that `MaxIndex` brings within
  reach is that of the action table. Reading the tables back from generated code is text.
- *In source locations:* file names that are links to each other, reading the
  file, and numbers beyond an `int`.
- *Grammar files, generated code, AST generator:* translation of text to text;
  their state is a syntax tree that is walked once. The properties that matter
  (the tables mean the grammar) are stated about the analysis.
- *Parse trees and drivers:* user actions of the core, counted by `Derivations`.
- *OCaml core:* a port of `glr.cc`; a model would be `GLR` again, read from
  another language.
- *The C++ front end* is most of the source by size. It is one sequential pass
  over a syntax tree whose cases follow the standard of C++; a model of it is a
  definition of C++. The parts with an algorithm of their own are in the plan.
