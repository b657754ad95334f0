# TLA+ specifications of the Adder compiler

Adder is a statically typed language with Python's syntax; `src/compiler/`
compiles it to x86-64 assembly and drives `as` and `ld`.  These modules model
the compiler as it is written, check what its output promises on small
instances with TLC, and prove the most important promises for every instance
with TLAPS.  Line numbers refer to `compiler/codegen_x86.py` unless a file is
named.

Run a specification with `tlc -config MCFrameRun.cfg MCFrameRun`, a proof
with `tlapm FrameProofs.tla`.  `PROJECT.json` lists every run, the source
lines behind every definition, the hazards and what covers them.

## 1. The system

The compiler is one sequential process.  Its difficulties are not races but
long sequences of legal calls over mutable tables: what a pass remembered when
it emitted an instruction, and what that table says when the instruction's
partner is emitted.  The emitted code is then a program with its own state, and
a slip in the generator shows only when that code runs.

| Component | State it keeps | Operations | What makes it correct |
|---|---|---|---|
| Import collection (`adder.py:79-128`) | work list `to_process`, `visited`, `ordered` | pop, parse, queue an import, insert in front | ends on cycles; every file of the program once, nothing else; an order |
| Module scoping and merge (`adder.py:131-470`) | rename tables, declarations seen so far | mangle private names, rewrite references, drop or reject duplicates | a reference means what it meant in its own file, whatever was imported around it |
| Assemble and link (`adder.py:480-774`) | object files in one temporary directory | run `as` per source, then `ld` | every source reaches the image exactly once; the build ends |
| Lexer (`lexer.py`) | position, `indent_stack`, bracket depth | scan one token, emit INDENT/DEDENT | ends at the end of input; every line is in the blocks its indentation says, blank lines and brackets change nothing; no character of the program is lost |
| Parser (`parser.py`) | token cursor, errors so far | one method per production; resynchronise | what is written is what the tree says; nothing is accepted unread; recovery makes progress and finds the next declaration |
| Frame layout (227-234, 1374-1612, 1900-2018) | `FunctionContext`: `locals`, `stack_size`, the label counter | a slot per parameter, declaration, loop; spills; stores; the patched prologue | slots apart; stores in their slots; the guard outermost; nothing below `%rsp` |
| Choice of guarded functions (1193-1372) | none (a scan of the tree) | | every function whose local can be overrun is scanned as such |
| Control-flow lowering (236-250, 1573-1660, 1766-2018) | label counter, `loop_stack`, `locals`, code so far | one `gen_*` per statement | the code does what the block structure says |
| Expression stack machine (2022-3066) | pushed words, argument block, registers while the code runs | push, pop, reserve, call | operands and arguments meet; the stack is restored; alignment |
| Values (430-560, 2202-2316) | registers at their width | sized load and store, compare, shift, divide | the language's arithmetic at each width and signedness |
| Struct layout and methods (671-880, 2899-2989) | `struct_fields`, `class_methods` | lay out a class, flatten bases, offset a receiver | fields apart; an inherited method finds its fields |
| Per-CPU data and data emission (612-625, 1029-1191) | `percpu_offsets`, `percpu_size` | assign an offset, emit the template | each access meets the bytes emitted for it |
| Optimizer (`optimizer.py`) | instruction list | peephole passes for the former ARM backend | the observable effect is unchanged (no backend imports it) |

How they interact: the driver parses each file, merges the declarations in the
collected order into one program, and hands it to one `X86CodeGen`.
`gen_program` registers all declarations, then generates function by function;
`gen_function` owns one `FunctionContext`, which the statement generators and
the expression generators share.  So frame layout, lowering and expressions meet
in `locals` (name to slot), in the one label counter, and on the machine stack.

## 2. Modules and their order

| # | Modules | Status |
|---|---|---|
| 1 | `FrameLayout`, `FrameRun`, `FrameProofs` | checked and proved |
| 2 | `Lowering`, `SourceRun` (abstract), `LoweredRun` (composes and refines), `LoweredRunProofs` | checked; `CheckedOnce` and `ReadsSeeLastWrite` proved |
| 3 | `ExprStack`, `ExprStackProofs` | checked and proved |
| 4 | `ImportOrder`; `DriverProofs` | checked (in `Driver`) and proved |
| 5 | `ModuleScope`; `DriverProofs` | checked (in `Driver`) and proved |
| 6 | `Driver`, composing 4 and 5 with assembling and linking; `DriverProofs` | checked; safety proved |
| 7 | `StructLayout`; `LayoutProofs` | checked and proved, but for what a doc says wrongly |
| 8 | `DataLayout`, on top of 7: per-CPU offsets, emitted globals; `LayoutProofs` | checked and proved |
| 9 | `CanaryScan`: which functions are guarded; `CanaryScanProofs` | checked and proved |
| 10 | `Values`, `RangeLoop`: widths, signedness, loop counters | checked |
| 11 | `Lexer`; `LexerProofs` | checked (in `FrontEnd`) and proved |
| 12 | `Grammar`, `Parser`; `Syntax` (the reference) | checked (in `FrontEnd`) |
| 13 | `FrontEnd`, composing 11 and 12 | checked |
| - | `Recursion`: lemmas about functions defined by recursion | proved |

The `MC*` modules hold the instances.  What is left to the model checker, and
why, is said at the end of section 5.

## 3. What is modelled

### FrameLayout - the frame of one function

A behaviour is one walk of `gen_function` over one function; the statements it
meets are chosen as it goes, so the reachable states cover every function with
at most `MaxVars` slots.  `Enter`, `Param`, `Prologue`, `VarDecl`, `Assign`,
`ForRange`, `ForArray`, `Finish` are the callers of `alloc_local` and of the
local stores, each with everything it allocates and stores.  `locals` is the
dictionary that a redeclaration rebinds; `slots` remembers every `LocalVar`
ever allocated, `stores` every local store emitted, as byte ranges from `%rbp`.
A type is its size and whether it is a scalar.

Abstractions: a constructor call is taken to fill an object of the declared
type of its variable (the compiler does not compare the two).  The names the
generator makes up, `__canary` and `__for_idx_N`, are assumed not to be used
by the source (`NamesAssumption`); the compiler does not reject them.

### FrameRun - that frame in use

Composes `FrameLayout` with a memory of 8-byte words: `Call` runs the prologue,
`Execute` any store the walk emitted, in any order and number, `Overrun` a loop
over an aggregate that does not stop at its end, `Epilogue` the check, `leave`
and `ret`.

### Lowering, SourceRun, LoweredRun - control flow

`Lowering` compiles one function of at most `MaxStmts` statements: one action
per statement form, and one for the end of each body, where the `gen_*` call
emits its tail.  `open` is the Python call stack of `gen_*` calls; `loop_stack`,
`label_counter` and `locals` are the generator's own.  `LoweredRun` lets a
processor execute the finished code: tests come out either way, slots hold loop
counts.  `SourceRun` is the abstract specification: the meaning of the token
sequence by its block structure alone, without labels or slots.
`ImplementsSource` is the refinement: every observable step of the machine is
the step of the source that the same test outcomes prescribe, everything else
stutters.

### ExprStack - expressions and calls

One action per push, pop, reservation, store and call of `gen_expr` and what it
calls; the expressions are chosen freely up to `MaxExprs` nodes.  A word holds
the number of the expression it is the value of, so "the right operand in the
right register" can be said and arithmetic is not needed.  `%rcx` and `%rdx`
are lost with every evaluation, every caller-saved register with every call.
Aggregates larger than a word are passed by address and are words too.

### ImportOrder - the work list of `collect_all_imports`

One action per turn of the loops; the import graph is chosen initially and may
contain cycles, files importing themselves, files imported twice, and imports
that `resolve_import` does not find.

### StructLayout - classes, inherited fields, receivers

One action per field placed, one for the end of a class, one for the method
tables, one per method call generated.  Class `c` is the `c`-th declared;
`structs` grows with `cur`, so a type whose class is not laid out yet counts as
8 bytes, as in `get_type_size`.  A type is `count` elements of a class or of a
scalar size; pointers are scalars of size 8.  The hierarchy is walked by
functions over its depth (`Flat`, `Resolve`) in place of the code's recursion,
over programs in which no class contains or inherits itself.

Three preconditions separate what holds from what does not.  `TypesFirst`: each
class is declared after the classes of its fields, inherited ones included.
`WholeWords`: the fields of each class end on a multiple of 8.  `OnePath`: no
class is reached through two bases.

### ModuleScope - names across files

`CollectExports`, one `ScopeModule` per file, then one `Keep`, `DropExtern` or
`Duplicate` per declaration and one `NextFile` per file: `merge_programs` after
parsing.  A declaration has
a kind, a name and its bodies (a class one per method), and a body the names it
binds and the names it refers to.  A symbol is a pair `<<slug, name>>`.
Rewriting the references has no order to get wrong, so it is an operator,
`Rewritten`; `Reaches` says what a rewritten reference means to the code
generator and the linker.  Of an import only its names matter here: which files
are merged is the concern of `ImportOrder`.

### Driver - one build

Composes the two: `ParseProgram` hands the files to `ModuleScope` in the order
`ImportOrder` found; when they are merged, `EmitOnly` ends a kernel-module
build, and `Assemble` (one job a step) and `Link` make an image for the other
targets.  `BuildFails` is any `CodeGenError` or tool that fails.  Object files
are a map from a name to the source it was last made from, because all of them
are written to one directory under the stem of their source.

### DataLayout - global variables

Extends `StructLayout`: when the classes are laid out, `PassGlobal` and
`AssignOffset` are the first pass of `gen_program` over the globals, and one
`Emit` action per branch of `gen_data` emits them section by section.
`cursor` is where `gen_data` believes to be in the per-CPU section, `sections`
how many bytes there are; they differ after a variable that is no whole word.

### CanaryScan - who gets a guard

A body is a tree grown node by node; `UsesAddr` and `HasBigArray` are the two
walks of `_function_needs_canary`, and `Walked` says which fields of a node
they enter.  The tree has every node code is generated for, with the fields
of `ast_nodes.py`.

### Values, RangeLoop - bits and what they mean

An operand carries its bits, its type as far as the compiler can tell, the
integer the program means, and how many low bits are bound to be right (`good`).
That number is what makes the property precise: sums need no more than the
bits the operands have right; compares, divisions and right shifts need whole
words in the range of the signedness that `LANGUAGE.md` names; where the
language leaves a result open, `good` is 0.  A narrow value read through an
address is right only in the bits of its type if it is negative.  `RangeLoop`
adds the counter of `gen_for_range` with the loads, stores and compares of
`Values`; an instance either evaluates an expression or runs a loop.

### Lexer - one turn of `tokenize` a step

The text is a sequence of characters; tokens are spans of it.  Every branch of
`tokenize` is an action, in the order of the code: indentation, blanks,
comments, line breaks, strings, numbers, names, operators, continuations.  The
values of literals are left out.  What matters of most words is only where
they begin and end, so a word may be one letter (`Vocabulary`).  The end of the
text is `""`, which `in " \t"` accepts in Python: `Spin` is the loop that
never returns.

### Grammar, Parser, Syntax - the parser

Each `parse_*` method is a rule over tokens in `Grammar`, with the point at
which it decides and the tokens it decides on; `Run` follows a rule as the
method does, backtracking only where the code resets the cursor.  `Parser` is
`parse_program` with its error recovery: a step is one turn of the loop.
`Syntax` builds phrases of the language together with their trees from the
precedences of Python, without looking at the parser: what the parser reads is
compared with what was written.  Kinds of tokens that are treated alike are one.

### FrontEnd - from characters to a tree

Composes the two as `parse` does: `Scan` is a step of `Lexer`, `Deliver` hands
the kinds of its tokens to the parser, `Parse` is a step of `Parser`
(`INSTANCE Parser WITH tokens <- kinds, ...`).  The phrases of `Syntax` are
written out in characters, closely or spread over lines with comments and
breaks in brackets, and go through both: so `ParsesBack` compares what was
written with what is read from the characters, and depends on both.

### Slips

Next to a definition there is sometimes a second one of the same shape,
introduced as a slip: `AllocWord`, `RelLeft`, `PopSwapped`.  No specification
uses them; substituted for the definition they mimic a mistake one could make
in that code, and the property paired with it in `PROJECT.json` then fails.
They document what each property is able to notice.

## 4. Runs

| Run | Shows | Bounds |
|---|---|---|
| `MCFrameRun` | every frame of up to three slots, laid out and run: slots apart, stores contained; a protected function never returns through a damaged frame, the check fails only after an overrun | 2 names; a scalar of 4 bytes, aggregates of 1 and 12: guard, aggregate and scalar at once, with redeclaration |
| `MCControl` | compiling all bodies of up to 4 statements and running them: the canary checked exactly once, no way off the end, `ImplementsSource` | 4 statements nest break or continue in an if in two loops; either outcome of every test |
| `MCNames` | reads, compares and steps use the slot last written, without redeclaration inside blocks; functions with counted loops return | 4 statements, 2 names of which a fixed one is bound first (the rest differ in names only), every kind of loop, no canary |
| `MCNestedFor` | **violation**: two nested `range` loops with the same variable never end | one name |
| `MCExprStack` | operands meet, arguments in place, the stack restored; exactly which calls are misaligned | 8 nodes, 5 arguments, 2 argument registers: three stack arguments (odd, so padded), and calls inside arguments of calls |
| `MCDriver` | everything collected, merged and linked once; names keep their meaning; duplicates are real; every build ends | 3 files: any graph of up to 2 imports each; or a row of files, one of them with any contents, one with at most a declaration and the main one a user of a private name; or any graph without self-imports with a shared public name; or up to 3 picked-up sources |
| `MCDataLayout` | fields apart, first base a prefix, receivers in place, the nearest owner called; globals apart, per-CPU offsets inside the area and, behind whole words, at their template | 3 classes with up to 2 bases, 10 field lists (6 lists of whole words when they have methods, which is what `ReceiverInWords` is about); or any 2 globals of 25, or 3 of 11 that differ in section, size or alignment |
| `MCReceiverPointer` | **violation**: through a pointer the receiver of a second base's method misses its fields | 3 classes |
| `MCCanaryScan` | every address operator and big array protects its function, nothing else does | 4 nodes: an operator in any field of any node, four levels deep |
| `MCValues` | results right in as many bits as can be expected, no undue trap; `range` loops take Python's values | words of 4 bits, narrow types of 2, five values a variable starts with, three operands or operators on one side; every pair of arguments, steps -3, -1, 1, 2 |
| `MCSignedCells` | **violation**: a negative variable of a narrow signed type reads as a positive value through an address | as `MCValues` |
| `MCFrontEnd` | blocks follow indentation, brackets hide lines, nothing is swallowed, numbers as documented, the scan ends; programs are read as they were written; nothing is skipped unreported, and after an error the next declaration is read | some 30 000 texts: four lines, or any 4 (or 5) characters of those that interact; every form of a phrase inside every other, two declarations, one token missing, each written closely and, but for expressions inside expressions, spread out |

The bounds are small because the components are: a frame slot only interacts
with its neighbours, a jump with the innermost loop and the one around it, a
pushed word with the words pushed above it, a line with the lines of the
blocks it is in.  Two argument registers instead of
six only bring the boundary between register and stack arguments nearer; four
bits have every sign, carry and wrap that 64 have.

`CHECK_DEADLOCK FALSE` stands in every configuration because every walk,
program, text and work list really ends.  Symmetry over names is used where only
invariants are checked; `MCNames`, which checks liveness too, leaves out the
functions that are another one with its names exchanged.

`MCNames` sets `AnyRedeclaration = FALSE`: a name is not declared
again inside a block.  With it the properties fail, as `MCNestedFor` shows for
a loop inside a loop; two arms of an `if` that both declare a name are the
other case, where a later read uses the slot of the arm generated last.

### Fairness

`LoweredRun` assumes weak fairness of the processor (`Instruction`): it runs on
whenever there is an instruction.  Nothing is assumed of test outcomes, which
is why `CountedLoopsEnd` is about functions whose only loops count.
`DriverSpec` assumes weak fairness of its whole next-state relation: one
sequential process, and tools that return.  `FrontFair` assumes it of the scan,
a loop that is never waited for; `Terminates` needs no more.  That the parser's
loop ends is the action property `MovesOn`, and needs none.
The other specifications state safety only and assume none.

### Findings

Three runs state what a document or comment says, and show the code doing
something else.

1. **Nested loops with one variable** (1964, `MCNestedFor`): the step looks the
   counter up by name after the body has rebound it, so the outer loop never
   ends; `LANGUAGE.md` promises Python's `range`.
2. **Receiver through a pointer** (2969-2974, `MCReceiverPointer`): the comment
   calls pointer arithmetic un-scaled; `gen_binary` scales it, so the offset of
   a second base is multiplied by the size of the class.
3. **Narrow signed cells** (2524, 2636, 2787, `MCSignedCells`): elements,
   fields, dereferences and per-CPU variables are zero-extended whatever their
   type, and nothing calls `emit_load_sized_signed`; `LANGUAGE.md:195` says
   reads extend "per the type's signedness".

Further divergences the models are built around, without a run of their own:

- **Text that ends in a blank** (`lexer.py:333`): the end of the text reads as
  an empty string, which is `in ' \t'`, and the scan never returns (`Spin`).
- **Which base wins** (757): of two bases the later overwrites the entry;
  `LANGUAGE.md:578` and the docstring (679) promise the leftmost.
- **Address in a method call** (1226-1315): the scan has no case for method
  calls, so `obj.m(&x)` earns no canary, against the comment (1215).
- **Per-CPU template** (624, 1171-1189): offsets advance by sizes, bytes by
  whole words; the comment (1147) says one matches the other.
- **Order of files** (`adder.py:126`): if main imports g and h and g imports h,
  g comes before h, against "imports first" (99).
- **Equal slugs** (`adder.py:200`): `a/b_c.ad` and `a_b/c.ad` give a private
  helper one symbol, against "globally-unique" (191).
- **Signedness of computed operands** (2463-2492): `(a - b) / 2` or
  `(a - b) >> 1` with signed variables is unsigned, because a computed operand
  has no type; compares of computed unsigned values are signed.
- **Order of errors** (`parser.py:1413`): `parse_with_errors` returns no partial
  tree though its docstring says so.

Elsewhere a property holds only under a precondition that the documents do not
mention.  The precondition is part of the property, or of the instance:

| Precondition | Without it |
|---|---|
| no type has size 0 (230) | a slot of 0 bytes, yet an eight-byte store: its neighbour or saved `%rbp` is overwritten |
| `%rsp` is aligned up to pushed words (2207), `MisalignedByPushesOnly` | a call inside the second operand of an operator, or in a later register argument, runs with `%rsp` off by 8; the module text promises 16 bytes at every call |
| a file precedes *one* importer (`adder.py:126`), `BeforeAnImporter` | not all of them: inserting each popped file in front is no topological order |
| `TreeOfImports`, `ExternsFromAbove` (`adder.py:446-461`), `DuplicatesAreReal` | a definition merged after an `extern` of its name is rejected as a duplicate |
| `ObjectsDiffer` (`adder.py:569`), `ImageHoldsEverySource` | a second `.S` file of one stem, or one called `main.S`, overwrites an object, which is then linked twice; the comment (540-542) says any file can be dropped in |
| `NamesKept` (227-234), `LatestRead` | a name bound again inside a block: later code uses the slot of the text generated last, whichever part ran (finding 1) |
| `ArraysFilled` (1970-2018), `LatestRead` | a loop over an empty array rebinds its variable and never writes the new slot: a later read of the name gets an unwritten one |
| `TypesFirst` (805-880) | a field, own or inherited, whose class is declared later takes 8 bytes in the layout and its full size in the code |
| `WholeWords` (671-775) | `receiver_offset` adds unpadded spans, the flattened layout aligns each field: the receiver of a second base misses its fields |
| `WholeWordsBefore` (619, 1171-1189), `TemplateAtOffset` | behind a per-CPU variable that is no whole word the template has other bytes than the code reads |
| `IntsOnScalars` (1115-1127) | an integer initialiser of an array or object emits one `.quad`, whatever its size |
| no body of the class binds the name (`adder.py:386-389`), `OwnDefinition` | a local in one method un-mangles the name in all methods of the class |
| the slugs differ (`adder.py:190`), `NoPrivateClash` | private names of `a/b_c.ad` and `a_b/c.ad` collide |
| `Hidden` (1226-1315), `ExposedAreProtected` | `&x` in the receiver or an argument of a method call, or in the target of a call, earns no canary |
| `Fits` (1919-1966), `RangeMatchesPython` | an unsigned counter does not stop below 0, a narrow one wraps before its limit, a negative step in a variable counts nowhere |
| `PlainIndents` (`lexer.py:751-784`), `LayoutFollowsIndents` | a blank line that ends in `\r\n`, the end of the text or a backslash, and a space after a tab, change blocks |
| `EndsInBlank` (`lexer.py:331`), `Terminates` | trailing blanks with no line break: the scan never returns |
| `paren_depth = 0`, `OnDeclaration` (`parser.py:43`), `ResumesAtDeclaration` | an unclosed bracket hides every line after it; an error met on the first word of a declaration, as after a block with no statement, skips that word and so the declaration |

The parser's rules have corners the reference leaves out because Python
differs: a method call takes no trailing comma, no blank line may follow the
head of a `match` or `union` or a top-level decorator, decorators before
globals, imports and externs are dropped, `2 ** -1` and a missing final line
break are rejected, comparisons associate to the left instead of chaining.
`Grammar` has them as they are.  In `Lexer`, `**=` is recorded as `**`, and
`0xFE+1` is a number, a sign and a number although it looks like an exponent.

## 5. Proofs

All theorems are about every value of the constants; what the code does not
justify is a named hypothesis of the theorem or a precondition inside the
property.  No property is inductive by itself, so each proof has an inductive
invariant, which TLC was made to check before it was proved.

### The frame: `FrameProofs`

For all names, types and any number of slots:

- `TypeCorrect`, `DisjointFrames`, `HiddenIndices`, `GuardOutermost`;
- `StoresContained` and `RedZoneUnused` under `NonEmptyTypes` (no type has size
  0), without which a slot of no bytes is stored to.

`SlotsDisjoint` follows from `Packed`: every slot
lies within the `stack_size` bytes below `%rbp`, so a new one, which starts
there, is below all of them.  `ForIdxUnique` follows from `Hidden`: a hidden
index carries a number below the label counter, which grows past it in the same
step.  `StoresInOwnSlot` needs `Aimed` (a store is aimed at the slot it
belongs to, at its own offset) and rounding lemmas; `FrameCoversStores` adds
`Patched`; `CanaryShields` is `Guarded`, and `Hidden` keeps source names
apart from made-up ones.  `IInv` is their conjunction with `TypeOK`; it holds
initially and is kept by every action, one step of the proof per action.

On that invariant, and under `NonEmptyTypes`, rest `RunTypeCorrect`,
`NoSmashedReturn` and `NoFalseAlarm`: whatever the function,
however often its stores run and however far its locals are overrun.  The
epilogue only looks at the guard, so the invariant has to relate the guard to
what it protects: `Shielded` says that saved `%rbp` and the return address are
intact as long as the guard is, because stores stay below it (lemma `Stores`)
and an overrun that starts below it and climbs overwrites it first (`Climbs`).

### Expressions and calls: `ExprStackProofs`

For any expressions, nested to any depth, with any number of arguments, and any
list of distinct argument registers other than `%rax` and `%r11`
(`RegsAssumption`): `OperandsMeetHolds`,
`ArgumentsInPlaceHolds`, `RestoresStackHolds`, `MisalignedByPushesOnlyHolds`.

The invariant `IInv` describes the machine stack by the `gen_*` calls under
way.  `Place(f, k)` is the word in which call `f` keeps its `k`-th operand, a
push, a stash or a word of the argument block; `Holds(f, d, s)` says that the
stack `s` is what `f` has found and above it its first `d` operands, each in its
place.  `Chain`: every call waits on top of what the one around it holds, and
computes its next operand.  `Evaluating`, `Delivered` and `Ready` say it of the
innermost call while it evaluates, has a value in `%rax`, or is ready for its
instruction.  That no two operands share a place (`PlacesDiffer`) carries the
argument registers over the calls that their arguments make.

The parity argument of `MisalignedByPushesOnly` counts pushed words along the
chain by a recursive function, `PushedUpTo`; `Recursion` proves, by the
least counterexample, that such functions exist and have a type.

### Control flow: `LoweredRunProofs`

`CanaryComparedOnce` proves `CheckedOnce` for bodies of any length that
`gen_stmt` accepts, with any nesting of statements, and any outcome of their
tests: the processor never leaves the code, and a function that has returned
compared its canary exactly once if it is protected and never if it is not.

`GenIInv` is about the code generated so far.  `Placed(l)`: label `l` is in the
code, or is due when a statement under way ends, or is the epilogue's.
`Targets`: every jump emitted, and every jump that a loop under way may still
be asked for, goes to such a label.  `Body`: statements compare no canary, and
return only in unprotected functions.  `EndsInLeave`: what `last_is_return`
relies on.  They give `Finished`: in the finished code every label jumped to is
defined, and comparison and `ret` are its last instructions.  `RunOK` then says
that the count of comparisons is determined by where the processor is.

`LatestRead` proves `ReadsSeeLastWrite` for bodies of any length and any number
of turns of their loops, under `NamesKept` (names are bound again outside every
statement only, and no source name is a hidden index) and `ArraysFilled` (no
loop over an empty array).  The generator changes the slot of a name once, when
it passes the declaration; the processor comes by in an order of its own.
`SlotsChange` connects them: where two instructions use different slots of a
name, it was `Rebound` in between, at a place `j` that splits the code, every
label (but the epilogue's) lying on the side its number says (`Split`), and no
label of the code before being still due (`Sealed`).  So no jump leads past `j`
or back over it, and whoever comes to `j` writes the name before using it
(`Entry`).  For the processor, `Current(n)` follows: uses of a slot later than
the one last written are behind a gate still to be passed, uses of an earlier
one before a gate already passed, hence none is reached.

### Layout: `LayoutProofs`

`FieldsNeverOverlap`: for any number of classes and whatever they inherit and
declare, under `TypesFirst`, the fields of an object are apart and inside it.
The invariant `StructIInv` says of the class being laid out, and of those that
are, that their fields are `Chained`: each ends before the next begins, by the
sizes known at that moment; and `MadeOf` classes laid out before, which is why
the sizes are the same when the code generator uses them (`SizesKept`).  That
the flattened field list is one, for any hierarchy, again needs `Recursion`.

`FirstBaseFirst`: for any hierarchy without cycles, a class begins with its
first base, field by field and at the same offsets.  The recursion of
`_collect_inherited` is cut at depth `N` in the model; `FlatFixed` shows that
nothing is lost by it: the classes whose list still changes at depth `d` each
have a base whose list does, so with every level at least one class settles
(`WellFounded`), and after `N` levels the list of a class is the concatenation
of those of its bases and its own.  The invariant `FlatIInv` says that what is
placed is `Laid`: the beginning of the flat list, every field where the one
before it ends.  Two lists that begin alike are laid alike (`LaidBegins`).

`NearestSupplies` and `ReceiversFit`: the argument about depths is made once,
for any recursion over the bases (`LevelsSettle`), and serves the ancestors of a
class (`DerivesFixed`, `DerivesOrder`: a partial order) and the method tables
(`ResolveFixed`) as well.  So an entry of a table is the class's own or that of
one base, bumped (`EntryFrom`), and induction over the hierarchy (`Hierarchy`:
what fails for a class only if it fails for a base never fails) gives both
theorems.  That one owner is nearest takes antisymmetry and `OnePath`.  That
the receiver fits takes the place of each base in the flat list (`FlattenAt`),
and that a field moves with the end of the one before it (`StartShifted`),
which holds because every span is a whole number of words and every alignment
divides a word; `BaseShifted` then says that the object of the `i`-th base
begins at the running offset of `_collect_class_methods`.  The invariant
`CallIInv` says that a call was generated from the tables, when all classes are
laid out in whole words.

`GlobalsNeverOverlap`, `PercpuCovered`, `TemplatesInPlace`: for any globals,
under `IntsOnScalars`.  `OffsetsChained` gives the offsets of pass 1,
`ShownApart` what each section holds.  The template takes three facts at once:
variables are emitted by offset (`OffsetOrder`), the cursor is at the end of one
of them (`CursorReached`), and it tells the truth as long as all of them are
whole words (`CursorTrue`); a variable of no bytes may be emitted before or
after its neighbour, which is the case that needs `OffsetOrder`.

### Which functions are guarded: `CanaryScanProofs`

`ExposedProtected` and `NoneUncalledFor`, for bodies of any number of nodes and
any depth, any threshold but 0, and functions with at most one prefix in front
of the name they were written with (`FunctionsAssumption`: private functions of
a module and methods of a class get one).  The invariant says where a node may
stand (`Placed`: below an earlier node, a statement in a body, an expression in
a field) and that a decision once made is the one of the finished body.  The
walks are recursive functions over the tree whose equations have to be shown
solvable: `Marking` does it once, with the least set closed under "contains a
marked node".  One theorem then goes down from a marked node to the last one,
which must be an address or an array itself; the other goes up from an exposed
node to the first one the walk would have missed.

### The text of a program: `LexerProofs`

The theorems hold of every text, of any length, and every vocabulary in which no
word is the end of the text, a blank, a line break, `#` or a backslash
(`VocabularyAssumption`; words are letters there only to keep texts short).  The invariant `LexerIInv` was first checked on the
`front_end` instance.  `InPlace`: tokens come in order and without overlap, and
each character before `pos` is in one of them or was passed over as a blank, a
line break, a backslash, part of a comment or of `**=`.  `Balanced` says what
`paren_depth` is worth: the most by which brackets opened exceed brackets closed
since any place in the tokens, which is what makes a bracket closed too often
forgotten; `Flat` that this was 0 at every layout token.  An action of the
scanner is one `Turn`: it appends tokens and moves `pos`; `EveryTurn` shows
it of each action, `PlaceStep`, `BalanceStep` and `FlatStep` use nothing else.

`NumbersDocumented` is proved for words of any length.  `Classified` keeps what
`_try_classify_number` said when a word was read; `NumberIsForm` shows that its
scans, each of which stops at the first character that does not belong
(`AfterInStops`, `AfterInIs`), accept a word exactly if it can be divided as
`LANGUAGE.md` says.

`BlocksFollowIndents` shows that what the indentation stack does agrees with a
definition that has no stack: a line is in the blocks of every earlier line
that no line since has been shallower than (`OpenAt`).  Its invariant
`LayoutInv`, first checked on texts of up to nine characters, says of every line
that has begun that it is in its blocks, after one INDENT or none (`Accounted`),
and what the stack is at each place of the scan.  At the start of a line, on a
blank line and within a line it holds the blocks of the last line that began
(`Steady`); once a line is known to count, its INDENT or DEDENTs are out before
its first token is, and the stack is that of a line the tokens do not show yet
(`Coming`).  Blank lines, comments and lines within brackets must not lead
there.  `NewHead` and `NoNewHead` say what more tokens do to the lines,
`OpenNext` what a line more does to the blocks that are open, `KeptRising` that
the stack loses just those that are deeper.  `IndentIsWidth` is where
`PlainIndents` is needed: a space after a tab is not counted by
`handle_indentation`.

### Imports, names, the build

`DriverProofs` proves of `ImportOrder`, for every set of files and import graph,
`ImportTypeCorrect`, `EachFileOnce`, `NoStrayFile`, `WholeProgram` and
`SomeImporterLater`.  The inductive invariant adds `Position` (how far the scan
is), `MainFirst` (main is the first file parsed and the last in the order),
`Followed` (each import of a merged file has been visited or waits in the work
list, and of the current file, those already scanned) and `Wanted` (each
waiting file is imported by a merged or current one).  When the work list is
empty `Followed` makes `visited` closed under imports, which is
`AllCollected`.

Of `ModuleScope` it proves, for any files, names and slugs, `TablesCorrect`,
`AllDefined`, `NoCapture`, `ImportsReach` and `NoPrivateClash`.  The invariant
says that all files are renamed with the names that all files export (`Scoped`;
renaming one file before the exports of another are known would break it), that
everything before the position of the merge is merged or was an extern
declaration (`SoFar`), and that the symbols seen are those merged, once each
(`Single`).  `NoCapture` then needs uniqueness: the definition found under a
symbol is the only one.

A build runs one after the other.  `Handover` says that scoping
starts from nothing and works on the files the import loop found, in its
order; `Assembling` that every object made is still the one its job made, as
long as no two share a name.  `BuildMergesOnce`, `BuildIsWhole`,
`BuildDropsNothing`, `BuildOwnDefinition`, `BuildCrossModuleNames` and
`ImageComplete` follow.  `DuplicatesReal` needs the shape of the import graph: in
a tree every file but main has one importer, so `SomeImporterLater` orders it
before that one, and an `extern` above a definition is met after it.

### What is proved and not run, and the reverse

Some properties of these modules are proved and not run: `ForIdxUnique`,
`CanaryShields`, `FrameCoversStores`, `OnlyProgram`, `BeforeAnImporter`,
`PrivateNeverClash`, and the type invariants.

Only model-checked: liveness (`CountedLoopsEnd`, `BuildEnds`, `Terminates`),
which the prover cannot treat; the refinement `ImplementsSource`,
which relates the generated code to a whole source program and would need an
induction over its statements; those of `FrontEnd`.  `Grammar`, `Parser`, `FrontEnd`,
`Values` and `RangeLoop` use recursive operators, about which the prover cannot
reason.

## 6. Not modelled

- **Rejection of unsupported constructs** (`codegen_x86.py`, the `case _:` and
  `isinstance` branches that raise `CodeGenError`): a case analysis that keeps
  nothing between two checks; `BuildFails` is its only effect.
- **Optimizer** (`optimizer.py`): passes for a former ARM backend; nothing
  imports the module.
- **AST nodes**: data; their fields are the tables of `CanaryScan`.
- **Compiler tests** (`tests/`, `scripts/`): read for what they state.
- Names of labels are not spelt out: two functions can be named so that labels
  of the form `.prefix_function_n` coincide (237), which the assembler rejects.
- Text formatting of instructions, diagnostics and command-line handling: no
  state outlives them.
