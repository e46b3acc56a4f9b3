# Verification of the Inform 6 compiler with LLVM back end

This directory holds TLA+ models of the compiler in `src/src` (Inform 6 in C,
with a direct LLVM IR back end for Glulx), the TLC configurations that check
them, and proofs checked by TLAPS. Line numbers refer to the files in
`src/src`; `PROJECT.json` maps every definition to the lines it models.

1. [The system](#the-system)
2. [Modules](#modules)
3. [Runs](#runs)
4. [Bounds](#bounds)
5. [Proofs](#proofs)
6. [Where the code and its promises differ](#where-the-code-and-its-promises-differ)
7. [What is not modelled](#what-is-not-modelled)
8. [Plan](#plan)

## The system

The compiler is one sequential program. What makes it hard is not concurrency
but order: one pass over the source does everything at once, so a decision is
taken (a label dropped, a name noted, a branch made short, an address copied)
before what decides it is known, and global state kept per routine, per pass
and per compile is read by whoever comes next. The LLVM back end adds a second
consumer of the parse that has to see the same program, at another time, and
to be undone when it fails.

| Component | Source | State | Operations | Interacts with |
|---|---|---|---|---|
| Statement parser and reachability | `states.c`, `syntax.c` | `execution_never_reaches_here`, loop labels, `labeluse[]` | `parse_statement`, `parse_code_block`, `parse_routine` | encoder (labels, instructions), direct build (through the parser's state), lexer |
| Instruction encoder | `asm.c` | `zcode_holding_area`, `labels[]`, the chain `first_label`..`last_label`, `next_label` | `assemble_instruction`, `assemble_label_no`, `assemble_routine_header/end` | reads and writes the parser's reachability |
| Branch shortening | `asm.c` `transfer_routine_z/g` | holding area, markers, label offsets | the passes that replace, delete, shorten and move | code area, backpatch table |
| Capture and replay | `asm.c` | `cur_emit`, `capturing`, `replaying` | `capture_*`, `replay_emission_unit` | encoder (replayed into it), pipeline |
| Routine pipeline | `asm.c`, `inform.c` | `deferred_routines`, `deferred_lowering_latch`, code area | header, end, `emit_deferred_routines`, refresh of tables | direct build, lowering, symbols, verbs, actions |
| Direct IR build | `llvm_codegen.c` | `direct_ru`: blocks, symbolic stack, model of the parser's state | `llvm_direct_*` hooks called by the parser | parser, lowering; a rejection falls back to the replay |
| IR lowering | `llvm_lower.c` | liveness sets, slots, branch fixups | `llvm_lower_direct_unit` | emits through the encoder |
| Unused routine removal | `symbols.c`, `bpatch.c`, `files.c` | `df_*` map, backpatch table of the code area | note, `locate_dead_functions`, `output_file_z/g` | lexer (lookups), parser (reachability), encoder (markers) |
| Lexer | `lexer.c` | circle of tokens, token texts, lexical context | `get_next_token`, `put_token_back`, `release_token_texts` | symbols, everyone who parses |
| Directives, conditional compilation | `directs.c` | `ifdef_stack` | `parse_given_directive` | all that a directive defines |
| Symbols | `symbols.c` | symbol table, hash chains, replacement map | `symbol_index`, `assign_symbol`, `remove_symbol` | lexer, unused routine removal |
| Expression parser and generator | `expressp.c`, `expressc.c` | emitter stack, operator stack, the tree `ET` | `parse_expression`, `code_generate` | lexer, encoder, direct build |
| Objects and classes | `objects.c` | object tree, property tables, class inheritance | `make_object`, `make_class`, `property_inheritance_z/g` | dictionary, arrays, symbols |
| Arrays and globals | `arrays.c` | static data, dynamic data | `make_global`, `make_array` | memory map |
| Dictionary and text | `text.c`, `chars.c` | dictionary tree, low strings, encoded text | `dictionary_add`, `sort_dictionary`, `translate_text` | verbs, objects, story file |
| Grammar and actions | `verbs.c` | verbs, grammar lines, actions | `make_verb`, `extend_verb`, `refresh_*` | dictionary, pipeline |
| Veneer | `veneer.c` | table of routines needed | `compile_initial_routine`, `compile_veneer` | parser (it feeds source text), pipeline |
| Story file | `tables.c`, `bpatch.c`, `files.c` | memory map, header, backpatch tables, checksum | `construct_storyfile`, `backpatch_*`, `output_file` | everything compiled |
| Options, command line | `options.c`, `inform.c` | settings with a precedence each | `set_compiler_option`, `run_pass` | everyone |
| Errors; memory lists | `errors.c`, `memory.c` | counters; growing arrays | `error`, `ensure_memory_list_available` | everyone |

What makes each part correct:

- *Parser and encoder*: an instruction that control can reach is in the code
  area, each branch leads to where its label stands in the source, and a label
  that was dropped is not wanted later. The flags keep the convention of
  `header.h` 2067 that `UNREACHABLE` is set when any flag is.
- *Branch shortening*: the routine does the same after every pass, and the
  form chosen on old distances holds the new ones.
- *Capture and replay*: the parser, which reads back what the encoder writes,
  sees one state whether the encoder runs now or later, and the bytes are the same.
- *Pipeline*: each routine of the source is emitted once, in source order; a
  routine that could not be lowered is emitted from a complete stream or is an
  error; all that copied an address has the final one.
- *Unused routine removal*: what is dropped is never asked for, what is kept
  still leads to the right place.
- *Direct build and lowering*: the IR does what the classic code does, on the
  symbolic stack as on the real one; what the build writes for the parser is what
  the classic encoder would have written; sharing slots loses no value.
- *Lexer*: a token that was put back and read again means what its text means
  in the new context, its text is still its text, and looking ahead leaves nothing
  in the symbol table.
- *Conditional compilation*: exactly the lines of the chosen branches are compiled.
- *Names*: a name stands for what its declarations say, also where it was
  used before them.
- *Options*: whoever has the highest precedence, and of these the last, decides.
- *Dictionary*: each word has one entry, found again by every later mention
  whatever rotations came between, and the final order is that of the words.
- *Expressions*: the tree is the one the operator table gives; the code of it
  gives its value, with its effects in order, and leaves the stack as it was.
- *Objects*: an object has the values its definition and its classes give it,
  in the order of the classes, and its place in the tree.
- *Grammar*: a word leads to the lines its verb was given, in their order, and
  a line to its action.
- *Veneer*: the library routines that are called for are there, once each, and
  the search for them ends.

### Hard behaviours

`PROJECT.json` lists them as hazards, each at its line, with the properties
that cover it. They fall into four families:

- *a fact is used before or after it holds*: the saved `ENTIRE` bit
  (`syntax.c` 865), a mention judged before its label (`syntax.c` 736), an
  address copied before emission (`verbs.c` 1108, `inform.c` 1045), label state
  of another routine (`asm.c` 2442), distances from before a deletion
  (`asm.c` 3062, 3386), a slot whose occupant is still live (`llvm_lower.c` 859);
- *two encoders of one source must agree*: eager and replayed (`asm.c` 1907),
  classic and IR (`llvm_codegen.c` 182, 208, 331), lookup and operand (`states.c` 2445);
- *one step fails and the rest goes on*: a build or a lowering rejected
  (`asm.c` 2454, `llvm_codegen.c` 2060, 2250, `llvm_lower.c` 908);
- *a boundary*: branch ranges, the 64K steps of the backpatch table
  (`files.c` 487), a short form whose operand must be in 0..63, a count of 32 in
  a field of five bits (`verbs.c` 1363, `objects.c` 551).

There are no threads, no I/O that is retried and nothing persistent to
recover; the only loops that could fail to end are internal ones (the veneer's
fixpoint, `veneer.c` 2421; the expression parser's error repairs, `expressp.c` 2160).

## Modules

| Module | Models | Extends / composes |
|---|---|---|
| `RoutineReach` | statement parser and eager encoder of one Glulx routine | |
| `BranchShortenZ`, `BranchShortenG`, `MCBranchShorten` | `transfer_routine_z`, `transfer_routine_g` | the MC module is a compile for either target |
| `ShadowReplay` | one source through the eager and through the capturing encoder | two encoders in lockstep |
| `RoutinePipeline` | routines from `[` to the code area, with stash, fallbacks and refresh | direct build and lowering as outcomes |
| `DeadRoutines` | mention map, search, output passes | lexer lookahead, parser reachability, output |
| `MCRoutines` | the last three, one per behaviour | |
| `DirectBuild` | the direct IR build beside the classic encoder, then both run | build, parser and two machines |
| `LowerSlots` | `llvm_lower.c`: a routine in SSA form, lowered, and run beside its IR | IR machine and frame in lockstep |
| `MCBackEnd` | the last two | |
| `SymbolTable` | `symbols.c`: the hash lists | a library of `TokenQueue` and `Declarations` |
| `TokenQueue` | the circle of tokens, their texts, the symbols they make | lexer, any parser, symbol table |
| `ConditionalText`, `Conditional` | `If...`, `Ifnot`, `Endif` | the second implements the first |
| `Options` | settings and who decides them | |
| `WordTable`, `Dictionary` | the search tree of `text.c` and its final order | the second implements the first |
| `VeneerTexts`, `Veneer` | `compile_veneer` and what each veneer routine calls for | the texts are data of the fixpoint |
| `MCFrontEnd` | tokens, conditionals, options, dictionary, veneer | |
| `ExpressionTree`, `ExpressionParser` | trees and operator table; `parse_expression` | |
| `ExpressionMachine`, `ExpressionZ`, `ExpressionG`, `ExpressionCode` | the two machines; the code of a node on each; `code_generate` | parser, generator and machine |
| `MCExpression` | texts and trees to run them on | |
| `Declarations` | what a name stands for | `SymbolTable`, backpatching |
| `ObjectWorld` | what object directives mean | reference of `Objects` |
| `Objects`, `ObjectsZ`, `ObjectsG`, `MCObjects` | directives; property tables of each target | |
| `GrammarWorld` | what Verb and Extend mean | reference of `Grammar` |
| `Grammar`, `MCGrammar` | `verbs.c` and its tables in the story file | dictionary as a `WordTable` |
| `MCWorld` | names, objects, grammar | |

The proofs stand in `RoutineReachProofs`, `BranchShortenProofs`,
`ShadowReplayProofs`, `RoutinePipelineProofs`, `DeadRoutinesProofs`,
`FrontEndProofs`, `TokenQueueProofs` and `DictionaryProofs`; see [Proofs](#proofs).

An MC module that holds several components gives each behaviour one of them,
its `part`, chosen in `Init`; the variables of the others stay as they began.
The components of one MC module share no variables: they are put together
because they are of a size, and where they do interact a module of its own
(`DeadRoutines`, `ShadowReplay`, `DirectBuild`) contains both sides.

### RoutineReach

The recursion `parse_statement` → `parse_code_block` → `parse_statement` is
the stack `frames`; `Open...`, `Middle...` and `Close...` actions are the parts
of a compound statement before, between and after its bodies. The encoder is
one record `enc`: `exec` is `execution_never_reaches_here` as a set of flags,
`code` the holding area, `next` `next_label`, `offset` `labels[].offset`, `use`
`labeluse[]`, `chain` the list from `first_label` to `last_label`. An action
applies the assembly calls of its handler to that record in the order of the
code. Two history fields are added: `source`, every instruction the routine asks for
whether assembled or not, and `place`, where each label stands in it.
`StrippingSound` compares the code with that source: whatever control reaches
in the source is in the code, and a jump arrives at the same instruction.

### BranchShortenZ and BranchShortenG

The routine is first assembled, one instruction or label at a time, into the
holding area: every branch long, and nothing where control cannot come
(`Assemble`, `AssembleLabel`); an instruction has an opcode class, a length and
a branch or jump target. Then come the passes: replacing jumps to returns and
deleting unreached ones (Z only), deleting and shortening branches, recalculating
label positions (the chain from `first_label` is walked beside the code), writing
out. `FlowPreserved` compares the code written with the code assembled: `Follow`
follows the jumps of either, and from each instruction that is kept, and along each branch, control
must come to the same instruction or return. `FormsHold` says that the form of a branch, chosen on distances before the
routine shrank, holds the distance that is written.

### ShadowReplay

Two copies of the encoder take the same source steps: `eager` encodes at
once, `cap` stores events and runs them through the same functions when the
routine ends or, if `latch`, after the parse (`emit_deferred_routines`). The
label table survives the routine in both, as `labels[]` does; only
`alloc_label` resets an entry. `ParserAgrees` says that between steps the two
agree in all the parser can read; `ReplayIsEager` that what the encoder made is
the same.

### RoutinePipeline

`mode` is the combination of options, `latch` the decision latched before
`Main__`. The actions are `assemble_routine_header`, an instruction, a
rejection of the direct build, `assemble_routine_end` with its three outcomes,
directives (`Switches`, `Replace`, a grammar token, an error), the end of the
parse, `emit_deferred_routines` one routine at a time, and the refresh of
action and grammar tables. A routine is one unit long.

### DirectBuild

The source is built one statement at a time, by an action per statement. `c`
is the classic compile: its stream of instructions and its own reachability.
`d` is the direct build: blocks with instructions, the symbolic stack,
`suspended`, `escalated`, and the parser's state under the writer in force
(`flip`). When the routine ends, phase `run` executes both in lockstep:
`Advance` takes silent steps, `Match` one observable of each (a call and its
arguments, a stack count, a test, a return). `SameCode` is then: neither
machine gets stuck, and no observable differs. `ModelAgrees` says that the
parser sees the state it would see in the classic compile, `LegalAccepted` that the
build does not reject a routine that the classic compile accepts.

### LowerSlots

A routine is built instruction by instruction over a given control-flow
graph; its operands are values that dominate their use, its phis may read later
values of a loop, and every value is used, which is what LLVM's passes leave.
`Classify`, `Liveness` and `Lower` are the passes of `llvm_lower_routine`;
`vals` holds what `vals[]` does. Instruction kinds stand for what the lowering
treats alike: `calc` is any single opcode, `udiv`, `icmp`, `select` and
`minmax` are emitted as several opcodes that write the result before they have read
the operands, `freeze` and `zext` are aliases, `trunc` has no slot and is read through by
`sext`. Then the IR takes a step (`Execute`, `Leave`) and the code catches up
(`Step`, `Arrive`). A value is a token: an instruction gives its result a token
that is nowhere in use, a copy moves a token, so that reading a slot is
right exactly if it holds the token of the value it stands for. Every path is
explored, loops to their fixpoint, since tokens are used again when they are free.

### DeadRoutines

The lexer notes a mention when it looks a name up and only while code is
reachable; the operand is assembled later. A routine is a list of statements,
each with the lookups and the operand it makes, in the lexical order in which
the code makes them (with the token read ahead for "else" and read again in another
context). After the parse come the search (`used` the functions marked, `todo` those of them whose
mentions have not been followed, in any order), the new addresses, one function per
step, and the output pass over the code area, operand by operand and function by function,
with the backpatch table whose positions are stored modulo a bank. `LinksRight` looks at the story file: each
operand is the final address of the routine its author named. `PlacedRight` looks at the
code area: what the output pass patched are the operands of the functions kept, each
where its function was moved.

### SymbolTable and TokenQueue

A table is a record of `start_of_list[]` and `symbols[]`; `symbol_index` and
`end_symbol_scope` are functions from table to table. `TokenQueue` keeps the
lexer's circle, `lextexts[]` (which buffer each token text stands in) and
what the buffers hold. `get_next_token` takes a fresh token or one put back, and
reads that again if the context differs; `put_token_back` takes a
symbol that the token made out of the table; `release_token_texts` exchanges
the buffers of the tokens put back with the first ones. The parser is any
client that keeps two rules that the parsers of `src/` keep, stated in
`MayPutBack`. `taken` is what it has read, `held` the texts it may still use.

### Conditional and ConditionalText

`ifdef_stack` grows and shrinks only around text that is compiled; text that is
skipped is run through by one of two counting loops (`loop`, `n`).
`ConditionalText` knows no loops: it keeps one frame for each open `If...` and
says which lines lie in chosen branches. `Conditional` implements it with
the frames as refinement mapping.

### Options

`options` is the table of settings with a value for each platform and the
precedence of who gave it; `variables` is what `set_compile_variables` makes of it;
`given` is history. `SettingsDecided` compares the two after any session of commands,
compilations, and statements in sources.

### Dictionary

`dtree` is the array of nodes with `root`, `codes` is `dict_sort_codes`, `walk`
holds the locals `ggf gf f at ggfr gfr fr r` of `dictionary_add` while it walks.
`Add` enters the loop; each turn is `Descend` (a node with two red links is split,
the link above is rotated if it is red too, then one link down), `Merge` (the word
is there) or `Attach` (the last rotation and the new node). A text is a sequence of
letters with the flags after `//`; preparing it cuts it to `Resolution` letters.
`dictionary_find` and the traversal of `sort_dictionary` are recursive functions on the tree.
`WordTable` is the abstract specification: a mention adds its flags to the one entry of
its word, and the entries are put in the order of the words. `IsWordTable` says
that the tree implements it, with the walk as stuttering. Entries are never removed.

### Veneer and VeneerTexts

`VeneerTexts` has, for each routine of the veneer, the other routines its
text names and the constructs in it for which the compiler calls others
(`Mentions`), and what `mark_as_needed_z/g` say (`Marks`). `Veneer` runs the
sweeps of `compile_veneer` over the table, and `veneer_backpatch_addresses`.
`VeneerSettles` says that what is compiled at the end has what it calls for, and
nothing else, and that the sweeps end: each makes one of finitely many routines.

### Expressions

`ExpressionParser` follows `parse_expression` token by token: `get_next_etoken`
with its one token of memory, the comparison by `prec_table`, `emit_token` with
markers and bracket counts, the folding of constants, and the errors. A tree of
`ExpressionTree` replaces the links of `expression_tree_node`.
`ExpressionCode` is `generate_code_from`: a node's code from its kids', with the
labels of conditions; `ExpressionZ` and `ExpressionG` have what one operator
becomes. `ExpressionMachine` runs the code. `Means` is the reference: what an
expression does, of the tree as written. The code of each tree is run from four
machine states and compared with it: value, effects in order (calls, stores,
prints, errors), and the depth of the stack. Words have five bits, so that every operator
meets the edges of the range.

### Declarations

A source is a sequence of directives and mentions. Mentions are compiled with
the symbol's value or left to `backpatch_value`; `NamesSettle` compares what is in the story file
with what the declarations of the name, whenever they came, say.

### Objects, ObjectsZ, ObjectsG and ObjectWorld

One step is one directive. `ObjectsZ` has the blocks of `properties_table` and
`individuals_table` and inherits by decompiling the block of each class, as the
code does; `ObjectsG` has `full_object_g` with its `continuation` of values.
`ObjectWorld` reads the answer off the definitions: `ObjectsAsDeclared` says that every
object of the tables has these values, attributes and classes, on both targets;
`TreeAsDeclared` that parent, sibling and child links are those of the arrows.

### Grammar and GrammarWorld

`Verb`, `Extend` with its modes and `Fake_Action` fill `Inform_verbs`, the
lines and the actions; `Finish` lays them out as `tables.c` does for grammar
versions 1 to 3. `GrammarWorld` keeps groups of words with lists of lines.
`GrammarAsDeclared` reads the lines of a word back from the story's bytes;
`ActionsAsDeclared` says that each line and each mention leads to the routine of its action.

## Runs

| Run | Module | Result | What it shows |
|---|---|---|---|
| `reach` | RoutineReach | pass | every control statement nested two deep: stripping is sound, flags keep their convention, promises to the label table are kept, label list and use counts are exact |
| `shorten` | MCBranchShorten | pass | either target: flow is preserved by every pass; forms hold |
| `backend` | MCBackEnd | pass | IR and classic code do the same under both writers; lowered code follows its IR, shared slots lose no value, phis are assigned in parallel |
| `routines` | MCRoutines | pass | routines once, in order and complete; symbols and tables final; capture is invisible; links of the story file are right with unused routines removed |
| `frontend` | MCFrontEnd | pass | tokens re-read mean what their texts mean and leave no trace; branches, settings and words are what the source says; the veneer is complete and ends |
| `expression` | MCExpression | pass | trees are those of the grammar, folding is computing, code gives values, conditions branch right, the parser ends |
| `world` | MCWorld | pass | the tables of names, objects and grammar say what the source says |
| `reach_deadjump` | RoutineReach | violation | with a used label inside a dead block, reachable code is dropped |
| `frontend_skip` | MCFrontEnd | violation | a failing `#If` inside an object header takes away the texts of the header |
| `objects_long` | MCObjects | violation | a class property of 32 values is inherited as none |
| `grammar_long` | MCGrammar | violation | a line with one token too many is written without tokens |
| `expression_void` | MCExpression | violation | an expression used as a statement leaves values on the stack |

The seven passing runs fire every action of every module. `CHECK_DEADLOCK
FALSE` appears in every configuration because a compile ends.

Fairness: the compiler is one sequential program that runs whenever it can, so
that weak fairness of its next step is what the code gives. It is assumed for `ParsingEnds`
only, the one property that is about an end and has no measure of its own. `VeneerSettles`
shows its end by a number that every sweep but the last makes smaller, which needs no fairness;
every other loop is bounded by its input.

## Bounds

Every bound is a CONSTANT of its module with a comment, and guards the actions
that would pass it.

- `reach`: one user label, all 13 kinds of statement, conditions that are an
  expression or a literal false, 4 instructions, 4 labels, nesting 2. A fault of
  the label bookkeeping needs a jump, the label and one instruction that is
  kept or lost between or after; nesting matters through the saved flag, one level of which is
  saved per block, so that two levels show its restoring over a changed one.
  `reach_deadjump` uses nesting 3, fewer kinds, and sets `JumpIntoDead`.
- `shorten`: two labels, four items. The lengths are chosen so
  that sums of up to four items meet every limit in the code from both sides
  (63 and 64 for Z; 127/128 and 32767/32768 for Glulx).
- `backend`: routines of four statements where those that bring many states with
  them count 2, nesting 2, three values on the stack; both writers. For the lowering,
  eight control-flow graphs of up to four blocks with an if, two
  exits, loops and switches; six values without a branch, four in the
  loop, three elsewhere. A value lost needs one
  definition, another in its last reader's range and that reader; two phis that swap need one
  comparison. `MAX_LOWER_SLOTS` is 6, so that some routines fail.
- `routines`: pipeline: names `Main`, `F`, `X` with `Replace X OldX`, three
  routines of which the first is `Main__`, one grammar token, one error, one
  other reference, all modes. Replay: three labels, two routines, six steps: the label table is shared,
  so that two routines show whatever one leaves to the next. Unused routines: two names
  besides `Main` (symmetric), three routines, two statements
  each, one datum; the bank of the backpatch table is 6 bytes, so that the
  carry from one bank to the next occurs in a three-routine program.
- `frontend`: tokens: three identifiers, of which one is a keyword in one of three contexts and two share
  a hash list, in four texts; a circle of 3 with 2 tokens of look-ahead, so that it wraps. Conditionals: all
  texts of six lines, a stack of 2. Options: one setting of every kind of limit and the
  pair that shares the abbreviations, values below, within and above, three commands. Dictionary: thirteen words, six
  ways in which a source may begin, then any three new words and one known word. A rotation on the way down
  needs nine words, and one below the root ten, so that small sets of words never show
  it; the beginnings were chosen to come just before each. Veneer: the tables of all routines; the program
  calls one and has one of four names for itself.
- `expression`: texts of up to four lexemes over three alphabets, in which most texts are malformed, and
  longer ones of the forms that pit operators against each other; every operator and
  system function with operands that are variables, constants or computed. Words of five bits,
  four machine states.
- `world`: sources of four declarations of fifteen kinds and a mention; families of object
  programs (inheritance, attributes, trees, refused ones); three Verb or Extend directives
  after one of several openings, four targets. Limits of the grammar tables (31 tokens, 256 verbs,
  fields of a line) are scaled down, named in `MCGrammar`, and met from both sides.

## Proofs

TLC shows the properties on these instances; the following are proved for
every value of the constants. The only assumptions are those the modules
name (`BoundsAssumption`, `GlulxBoundsAssumption`, `NamesAssumption`, `ReplayAssumption`,
`DeadAssumption`, `SettingsAssumption`, `HashAssumption`, `TokenAssumption`), which say what
the constants are: numbers where numbers are meant, positive limits, for settings that
the default of the two abbreviation settings is the one in the code, for tokens that no parser
puts back more than the circle holds, and for unused routines that the first marker, in `Main__`,
lies in the first bank. No theorem
assumes a bound that the code does not have: where a constant only bounds a run
(a number of statements, of labels, of routines), it may be any number. The one guard without a
counterpart in the code is `Gap < Bank` of `DeadRoutines`, see [Unused routines](#unused-routines).

| Theorem | States | For |
|---|---|---|
| `TypeCorrect` (RoutineReachProofs) | `TypeOK` | every source |
| `FlagsSafe` | `FlagsImplyUnreachable` | stripping, and no used label inside a dead block |
| `LabelsHold` | `LabelsExact` | every source |
| `PromiseHolds` | `PromiseKept` | no stripping, or no used label inside a dead block |
| `StrippingHolds` | `StrippingSound` | stripping, and no used label inside a dead block |
| `FormsAlwaysHold` (BranchShortenProofs) | `FormsHold` | every routine, both targets |
| `FlowAlwaysPreserved` | `TargetFlowPreserved` | every routine, both targets, without an error |
| `PipelineTypes`, `PipelineOrder`, `PipelineLosesNothing`, `PipelineResolves`, `PipelineRefreshes` (RoutinePipelineProofs) | `RoutinesInSourceOrder`, `NothingLostSilently`, `SymbolsResolve`, `TablesFresh` | every program of the modelled steps |
| `ReplayInvariant`, `ReplayParserAgrees`, `ReplaySameCode` (ShadowReplayProofs) | `ParserAgrees`, `ReplayIsEager` | every program of the modelled steps |
| `DeadInvariant`, `DeadLinks`, `DeadPlaced` (DeadRoutinesProofs) | `LinksRight`, `PlacedRight` | every program without the three exceptions named below |
| `ConditionalRefines` (FrontEndProofs) | `ChoosesBranches` | every text |
| `SettingsHold` | `SettingsDecided` | every session |
| `QueueRight`, `PeeksTraceless` (TokenQueueProofs) | `PeeksLeaveNoTrace` | every text, and parser that keeps `MayPutBack` |
| `QueueFaithful` | `TokensFaithful` | as before, if no text is skipped while token texts are in use |
| `FindHolds`, `TableRefined` (DictionaryProofs) | `FindAgrees`, `IsWordTable` | every set of words and order of them |

### The parser's reachability

`IInv == BaseInv /\ (Restricted => FlagInv)`. `BaseInv` adds to the type that
labels in frames and symbols are below `next_label`, which the type alone does
not say and which each assembly call needs. `FlagInv` adds to the flag
convention what each open frame saved: `FlagsImplyUnreachable` is not inductive
because the way out of a block restores the `ENTIRE` bit from the frame; one
has to know that a frame that saved it was entered unreachable, that everything inside
stays unreachable until that frame is closed, and that the frames inside it saved it too. There is
a lemma per operator of the encoder (`AssembleLabel`, `Assemble`, ...) and a step
per action. Without `Restricted` the convention is
false: `reach_deadjump` shows what follows from it.

The second part follows a label through its life: allocated, pending in
the one frame or symbol that is to place it, placed once or dropped. `LabelsExact`
needs that pending labels are distinct and have no offset, or one would be linked
twice. `PromiseKept` needs besides that a label that something jumps to has an
offset or is pending (`Owed`), and that where a label is dropped nothing jumped to
it before, which is where `JumpIntoDead` comes in: only then a block that could not be entered
becomes reachable in its middle.

The third part is `StrippingSound`. `FlagInv` carries `Matched`: each instruction of the code
stands for one of the source, the next instruction of the code, or the place where the next
is to come, stands for the next of the source, and so does the offset of a label for its place. Nothing is said
of what was dropped; it need not be, because `Matched` leads from what is kept to what is kept.
At the end of a routine that compiles no place is left open, and two inductions (over the recursions of
`CanExecute` and of `Arrives`, whose existence is proved first) carry `Matched` along
every path of the source.

### Branch shortening

Two layouts are compared: `Spot`, the address of an instruction in the holding
area, and `T`, its address in what has been written so far. No instruction
grows, so the new addresses keep the order of the old and are never further apart, and
a form that held the old distance holds the new one; the exceptions
(a Z-code branch one byte short of a limit, a jump to what follows) are cases of their own.
The relocation walk needs that the chain of labels is sorted by place and that
the labels it has passed are exactly those placed before the instruction it has come to.
The first attempt of this proof showed CASE arms that overlapped, whose value TLA+
leaves open; they, and all others in the project, are disjoint now.

`FlowAlwaysPreserved` needs besides the layouts what the passes decided, in terms of the code
as it was assembled (`GFlow`, `ZFlow`). A jump that was deleted goes to the next instruction. A jump that
became a return goes to an instruction with that return, or to an earlier jump that became one; a
branch of a return form likewise (`ZChosen`). A return that pass 1a deleted
is behind an instruction that ends the flow, and nothing that is kept goes to a label before it
(`ZCutOff`, `ZLeft`); while the chain is walked, a label with `labeluse[]` 0 is one of these
(`ZUsed`), because `Counted` of the first part says what the count is. What pass 3 has written is
each kept instruction, at its new address and in order, with the operand of its label's
new address (`Sent`). At the end this is a relation between two graphs of jumps, each with a node for an
instruction. `FlowsAlike` says when two such graphs end alike: an instruction left out leads to the next one,
a jump kept goes where its counterpart goes, and any other is paired with its own copy.
For this, following jumps must come to rest: `FollowedSettles` shows that as many
steps as there are instructions are enough, since a longer way visits one twice.

### Capture and replay

The events of a routine are a log. A log has a history: what code, label
uses and label offsets are after each of its events (`IsLog`). During the parse the
eager encoder stands at the end of the history of the events captured (`Twin`); a replay walks along the
same history (`Replaying`), so that it ends where the eager encoder was when
it transferred the routine. `ParserAgrees` alone is not inductive: it says
nothing of events not yet replayed.

### Pipeline

The invariant follows a routine from its definition to the code area: `Ended`
counts the routines defined and closed; under the latch they stand in the stash
and the code area holds the first `next - 1` of them, without it they are the code area (`InOrder`).
What the symbols hold is a matter of the routines in the code area alone (`Resolved`), so that
one invariant serves the parse, the emission and the end.

### Unused routines

Neither property is inductive: they look at the story file, and what it will hold was decided when a
token was read. `DeadInv` has two parts. `SourceInv` is about what the parse has built: the functions
tile the code area; a symbol has the address of the last function of its name, or, replaced, stands for the later one; an operand
lies inside one function, and *that function has noted the routine the operand names*
(`Placed`). The last is the heart of it. It holds because a statement that makes an
operand looked its name up while code could be reached; the three hypotheses of the
theorems exclude the places where that is not so (a `(Foo):` after a return, a
`for (::Foo())` after one without label stripping, a grammar token between two definitions of a replaced name;
see [Seen in the code](#where-the-code-and-its-promises-differ)).

`StageInv` says what each later stage has made of it. In the search the marks are closed
under the mentions of every function that is not queued, so that an empty queue
means that they are closed. In the measuring, the new address of a function is the size of what is kept
before it (`SizeAt`). In the output pass, the reader stands inside one function (`Within`), and what
has been written is its new address and the bytes since its start. An operand is found
by an offset that wraps: `LapsRight` and `Decoded` show that the laps counted from the
place of the previous operand give the place of this one, for Z-code as long as each marker is
less than a bank (64K) behind the one before. That is the guard `Gap < Bank` of the model, not of the
code, which relies on it (see below).

### Conditional compilation and settings

`ConditionalRefines` is step simulation: the open frames of the abstract text
are those of `ifdef_stack` followed by a `Trail`, which the counting loop stands for: one frame "unless" or "over" and
then as many dead ones as the loop has counted.

`SettingsHold`: the precedence kept with a setting is that of the last of the
highest precedence among what was given (`Ruled`). What made it more than a
restatement: a source may decide for its own platform only, while the one field
of precedence serves both. That is right because every precedence above that
of a source was given for both platforms, and a compilation ends the source's reign.

### Tokens and symbols

`QueueInv` says what each entry of the circle may rely on. An entry put back is one
of three things: a separator or the end, which mean the same everywhere; a symbol
that was new, has been taken out of the table again and will be read anew
(`NoContext`); or what its text means in the context it remembers. In the last
case a symbol must still be in the table, and it is, because a
token further back than any parser puts back made it (`AsRead`). This is where
the rules of `MayPutBack` are needed: a name that is new and stands twice in what is
put back would leave an entry with the index of a discarded symbol. An entry that is
taken either made its symbol and is the first of its name, or an earlier one has the
name (`HoldsTaken`), so that `put_token_back` removes a symbol exactly when no taken token uses it.

For the texts the invariant is that `lextexts[]` is a permutation of the buffers whose first slots
hold the texts of the youngest tokens in order. The loop of `release_token_texts` exchanges
slot by slot; `Kept` says what is true between two turns: slots up to the one reached have
their new contents, those beyond what was exchanged their old ones, and what lies between
is scrambled but belongs to no one.

`QueueFaithful` excludes skips in the middle of a definition (`SkipsInDefinitions`), where it is
false: `frontend_skip` shows the texts lost. `QueueRight` and `PeeksTraceless` hold with such skips too.

The symbol table below is proved on its own. `InLists` says that each hash list holds the
symbols in use that belong there, sorted, each name once, by saying of `next_entry` that it is the first
of the greater names. `WalkEnds`: `symbol_index` comes to rest, because each turn passes one more
symbol of the list; `IndexIs` and `ScopeEnds`: inserting and removing keep
`InLists` and change nothing else that is in use. `Walk` and `KeepTexts` are recursive functions; that they
have the values their definitions ask for is `StepsExist` and `StepsStay`.

### Dictionary

`S[x]` is the set of the entries at or below x. `IsTree` says that spans are
made of those of the branches, with smaller words on side 0 and greater ones on
side 1. Rotations change the spans of the two or three entries they turn
(`SingleTurns`, `DoubleTurns`); the word being added stays next to the
span of the entry the walk has reached (`Close`), so that a word not in the tree
can be attached there. `dictionary_find` and the traversal are recursive
functions, about which nothing is known by computing: the proofs give their
values explicitly from the spans and show them unique by the lowest entry at which another
solution could differ. No property of the colours of the links is used: order and
lookup do not depend on them.

### What is only model-checked

- `SameCode`, `ModelAgrees`, `LegalAccepted`, `OperandsHold`, `PhisParallel`,
  `FlowFollows`: their modules are the largest in state, their inductive invariants
  relate two machines over arbitrary graphs; not attempted.
- `TypesOK`: its conjuncts for `RoutinePipeline` and `DeadRoutines` are proved (`PipelineTypes`,
  `DeadTyped`), that of `ShadowReplay` is TLC's.
- What TLC checks of expressions, names, objects, grammar and veneer: these modules use
  recursive operators over trees and tables, in which the SMT backend is not available.
- `ParsingEnds`, as all liveness.

## Where the code and its promises differ

Each of these was met while modelling. These have a run, which ends in the
counterexample:

1. `reach_deadjump`: a label in use inside a block entered unreachable resets
   reachability, and leaving the block sets `ENTIRE` again from the saved bit
   (`syntax.c` 865). The next instruction is dropped though control reaches it.
2. `frontend_skip`: a failing `#If` skips its text with `release_token_texts`
   for each token (`directs.c` 518), also in the middle of an object header that still uses
   the text of its name, against the comment at `syntax.c` 147.
3. `objects_long`: a Z-code property of 32 values, which `objects.c` 1348 allows, is written with a size
   whose low six bits are 0 (`objects.c` 551): an instance inherits it, and what follows it, as nothing.
4. `grammar_long`: a line of 32 tokens under grammar version 3 is "cut short" to 31 (`verbs.c` 1254),
   but its count includes those cut off and overflows to 0 (`verbs.c` 1363).
5. `expression_void`: "When void, this must not leave anything on the stack"
   (`expressc.c` 1483). `youngest(x);` leaves a 0 in Z-code when x has children
   (2188-2196); `x == 1 or f();` leaves the alternatives it did not test (1814-1836), which also
   makes `(x == 1 or f()) + h()` wrong.

Code that does something else than its expression says. Each is a named
exclusion of `ExpressionCode` (`Leaks`, `TakesWrong`, `ReadLate`, `CompileErrors`);
everything outside them is checked:

- alternatives of `or` that are computed after the first test stay on the stack when an earlier one holds;
- a Glulx or Z-code store through `->` or `-->` whose value and address are both computed, used
  as a value, pulls them in the wrong order (Z also for a property, non-strict);
- `has`, `hasnt` and `in` without strict mode with a computed second operand, or a computed
  object and an unknown attribute, leave or read the wrong value;
- a variable is read when its operator runs: `x = x++` gives the new value, `(x=2) + (x=f())` reads x
  late, pushed arguments of Glulx calls with four and more are read early;
- Z-code comparisons of constants are folded unsigned;
- `emitter_stack[-1]` is read after some errors; `ET[fnaddr].value` of an earlier tree in `func_args_on_stack`;
- `elder` uses the error number of `youngest` on Glulx, and ignores the object of the check on Z;
- the bounds check of a Glulx byte array shorter than four bytes lets entry 0 of `-->` pass, (size-3)/4 being 0;
- four or more arguments with an assignment or a comma among them end in "mixed arguments" on Glulx.

After a failed check of an attribute or array bound, and after a division by
zero without strict mode, the value is the machine's affair: only the trace up to there and the
stack are compared.

Seen in the code, without a run:

- *Replay*: `emit_deferred_routines` (`asm.c` 2447) restores
  `next_label` but not `labels[].offset`; a jump to a stripped label takes an
  offset of an earlier routine instead of being an error (comment at `asm.c` 2210).
- *Unused routines*: after a clause that ended in a return, `(Foo):` is parsed
  while the code is unreachable (`syntax.c` 736, `symbols.c` 1458); `Foo` is not noted and may be dropped.
  A token `noun=Foo` between two definitions of a replaced `Foo` keeps the
  address of the first (`verbs.c` 1108), which is dropped. `DeadRoutines` excludes both by constants.
  In Z-code, `output_file_z` takes the position of a marker 64K or more behind the last one for one 256K before
  (`files.c` 487); nothing checks that markers are nearer than that.
- *Deferred emission* gives a grammar token between two definitions of X under
  `Replace X Y` the last definition (`verbs.c` 151), an eager compile the first,
  against "byte-identical to eager emission" (`asm.c` 2271).
- *Shortening*: `transfer_routine_g` never decrements `labeluse[]`, against `asm.c` 1088.
- *Direct build*: `while (1) { if (0) break; }` makes the crosscheck of the classic writer report
  `forward-label` (`llvm_codegen.c` 1524) although both compiles are right; a tail call that leaves values on the symbolic
  stack (`llvm_codegen.c` 2060) and a used label in an `if` entered unreachable (`states.c` 2386)
  make it reject the routine, which is a compile error under the default writer (`TailLeaves`, `DeadLabels`);
  `for (::Foo())` after a return with `$STRIP_UNREACHABLE_LABELS=0` (`states.c`
  2157) assembles an increment whose lookup was not noted.
- *Dictionary*: `dictionary_add` (`text.c` 2410) hangs the new word as a
  black node and makes the node above it red, though the node below that may be red
  already; against "balanced with the red-black algorithm" (`text.c` 1824) and `text.c` 2369.
  Order and lookup are not hurt (proved), but nothing bounds the depth by the logarithm of the number of words.
- *Veneer*: the texts of `RT__ChG` and `RT__ChGt` name `Z__Region`, which `mark_as_needed_g` does not mark
  (`veneer.c` 2012, 2096, 2434): a Glulx program with a `RT__Err` of its own may end in "No such constant as Z__Region".
- *Sizes*: the estimate of a Glulx file omits the table of dynamic strings and a byte per verb.
- *Grammar*: `Extend only` copies grammar lines that were counted once (`verbs.c` 1597);
  `Extend only "take" "take"` copies an uninitialised verb into itself (1576); without words it reads
  `Inform_verbs[-1]`; a verb's line count is written as one byte; more than 32 `noun=` routines of grammar
  version 1 run into the next range; `Verb meta` that becomes an "Extend last" does not make actions meta.
- *Names*: the new name of a replaced routine, mentioned before the original's first definition, compiles as 0
  (`directs.c` 823); circular constants are accepted; a constant may take a replaced name; with `Replace X Y` a later system definition overrides
  X, against `syntax.c` 195.
- *Options*: settings in the comments at the head of a source persist into later compilations (`options.c` 690-706).
- *Objects*: a private class property overridden publicly differs between the targets; the duplicates
  a class asks for count as parents of the arrows that follow; a Z-code class object shows only property 3.
- *Expressions*: after a postfix operator a minus is read as a sign and a bracket as a new expression
  (`expressp.c` 272-277); after "Missing operator" before "(" the bracket level is counted twice
  (2160), so that a later ")" is "unmatched".

## What is not modelled

Within the modelled components:

- *RoutineReach*: system-file routines that are skipped, debug sequence points, `objectloop`,
  `$STRIP_UNREACHABLE_LABELS=0` (a constant, not checked by a run; all but two of the theorems cover it).
- *BranchShorten*: errors for targets out of the two-byte range, padding.
- *ShadowReplay*: labels never defined (an error in either compile), raw code bytes.
- *RoutinePipeline*: veneer routines go through it as ordinary ones.
- *DeadRoutines*: the veneer and its markers, the infix symbol table, bytes of
  switch jumps. The bank constants are scaled down.
- *LowerSlots*: `catch` (its token slot is written again when a throw resumes),
  undefined values as conditions, a definition laid out after a block it dominates.
- *DirectBuild*: expressions (a condition is a local or a constant), `catch`,
  `throw`, `switch`, `do`, `for`, `objectloop`.
- *TokenQueue*: characters, numbers and strings; recursive lexers (a lexer opened on a string).
- *Dictionary*: the other data fields of an entry, Z-characters (a letter is one unit).
- *Veneer*: what the texts do; the symbol-table routine of Infix; `compile_initial_routine`. `DEBUG` and `INFIX` are undefined.
- *Expressions*: action constants, Z-code of versions 3 and 4, the direct IR generation for
  expressions (`expressc.c` 3258-4735).
- *Declarations*: version 5 Z-code, eager emission (what deferring changes is in `RoutinePipeline`).
- *Objects*, *Grammar*: Infix records, listings, debugging output. After the first error only its fact is kept.
  `Extend only` is asked only of lists that are neither empty nor repeating.

Components without a module are listed in `PROJECT.json` with the reason.
Text encoding, Huffman coding, the character tables, path translation, help
texts, debugging files and the wording of errors are data transformations or
I/O without interesting control; the rest is in the plan. The lines mapped for the veneer's tables
are those of the texts they abstract.

## Plan

1. `OperandsHold` of `LowerSlots` for one block, where liveness is an order.
2. `MemoryMap`: estimate, layout and backpatch of the story file.
