# TOI: a verification project

TOI ("Tiny Object oriented Interpreter", `src/README.md`) reads a script, parses
all of it into stacks of cells and then evaluates the cells, in one process and
one C thread. This directory holds TLA+ models of its core, the TLC
configurations that check them, and proofs about them for TLAPS.

References such as `eval.c:148` are to files under `src/`.

## 1. Inventory

| component | files | state | operations |
|---|---|---|---|
| hash table | `st.c`, `st.h` | `bins`, `num_bins`, `num_entries` | lookup, insert, add_direct, delete, delete_safe, cleanup_safe, foreach, copy, free; growth (`rehash`) |
| variables, methods, symbols | `symbol.c`, `class.c`, `eval.c` | one `st_table` per block (`env_tbl`) and two per class (`im_tbl`, `sm_tbl`), the symbol table | `assign0`, `define_*`, `check_variable`, `get_variable`, `var_in_scope`, `sym2ref`, `get_method`, `intern` |
| parser | `parse.y`, compiled from `parse.tab.c` (lexer, grammar, `main`) | `cur_thr`, `end_vector`, `current_class`; the blocks under construction | one `parse_*` and one `end_*` function per kind of block, `push_cell`, `yylex`, `yyerror` |
| blocks ("threads") | `thread.c`, `toi.h` | `thr_stk`; per block `up`, `branch`, `excobj`, `stack`, `ip`, `env_tbl`, `obj_stk`, `last` | `thread_new`; `thread_schedule`, `pop_scope` exist and are not called |
| evaluator | `eval.c`, `main()` in `parse.y` | the C stack, `cur_thr`, `cself`, each block's `ip` | `eval_cell`, `eval_stack`, `eval_thread`, `assign0`, `toi_funcall` |
| exceptions | `exception.c` | per begin block `thr`, `body_thr`, `rescue_thr`, `retry` | `throw_exc`, `exception_retry`, the macro `fail` |
| classes and calls | `class.c` | class objects, the method cache | `define_class`, `mcall_call`, `get_method`, `kind_of_p` |
| garbage collector | `gc.c` | `refcount` per object, `obj_stk` per block | `object_refcount_up/down/check`, `memdealloc`, `gc_s_run` |
| vectors | `vector.c`, `array.c` | `data`, `num`, `cap` | push, pop, shift, unshift, aref, delete, foreach ... |
| strings | `string.c`, `dynstring.c` | `ptr`, `len`, `capa` per string | `dstr_new`, `dstrcat`, `dstr_grow_by`; plus, minus, split, chomp, upcase ... |
| I/O | `iostream.c` | `fread`, `fwrite` per stream; the C library's FILEs | `file_open`, `file_read`, `file_gets`, `file_write`, `file_puts`, `file_flush`, `file_close`, `io_reap` |
| numbers, kernel, hashes | `integer.c`, `float.c`, `numeric.c`, `kernel.c`, `hash.c` | | the methods scripts call; `Hash` has none |

How they interact. `main()` calls the parser until the file ends, then evaluates
the cells of the current block one by one. Parser and evaluator share the global
`cur_thr`: the parser points it at the block being written, the evaluator at the
block being run, and everything that looks up a variable or an exception handler
starts from it and follows `up`. Control leaves a block by *values*: the object
`Qbreak` is what a `break`, a `retry` and a rescued exception return, and every
construct decides for itself whether to pass it on. Names live in hash tables
which are written with `st_add_direct`, without looking for an older entry.

There are no operating system threads, no messages and nothing persistent, so
there is no concurrency or crash recovery to model. What is hard here is
different: global state that each construct must save and restore; one signal
with three meanings; notes in shared fields that nested blocks overwrite; tables
that are relinked in the middle of a long run; walks over structures that their
own callbacks change. `PROJECT.json` lists these hazards with their lines.

What makes each component correct:

* hash table: it is a dictionary, whatever growth or clean-up is half done;
* variable tables: a name has the value it was last given;
* parser: what it builds is what the script says, or the script is refused;
* evaluator: every construct hands `cur_thr` back, a `break` ends one loop, a
  `retry` restarts its block, evaluation gets on;
* exceptions: a throw in a begin block runs its rescue and goes on after it;
* classes: a method is entered in the class it is written in, and a call finds the
  nearest one, with or without the method cache;
* garbage collector: nothing that is referenced is freed, nothing is freed twice,
  and what nothing refers to goes at the end of its block;
* strings and streams: a buffer is terminated, no text is lost, what a file_read
  returns is what is in the file, and a FILE is closed once.

## 2. Modules

| module | models | extends |
|---|---|---|
| `Dictionary` | what a symbol table promises: a partial map (abstract) | |
| `StTable` | `st.c` | implements `Dictionary` |
| `VarTable` | the tables as `assign0` and `define_*` use them | `StTable` |
| `Induction` | induction over numbers, over recursive functions and along links, stated with sets (lemmas only) | TLAPS |
| `StTableProofs` | theorems about `StTable` and `VarTable` | `VarTable`, TLAPS |
| `Cells` | blocks, branches, exception objects (`toi.h`, `thread_new`, `push_cell`) | |
| `Parser` | the grammar actions of `parse.y` | `Cells` |
| `Evaluator` | `eval_stack`, `eval_cell`, `eval_thread`, `throw_exc`, `exception_retry`, `main`'s loop | `Cells` |
| `Interp` | the program: parse, then evaluate | `Parser`, `Evaluator` |
| `InterpProofs` | theorems about `Parser` and `Interp` | `Interp`, `Induction` |
| `Scope` | the variable tables of the blocks: `assign0`, `eval_thread`, `sym2ref`, `var_in_scope`, the links `parse.y` makes | |
| `ScopeProofs` | theorems about `Scope` | `Scope`, `Induction` |
| `List` | what a vector promises: a list (abstract) | |
| `Vector` | `vector.c` | implements `List` (calls named in `Kept`) |
| `VectorProofs` | theorems about `Vector` | `Vector`, TLAPS |
| `Classes` | the class nest of the parser, `define_class`, `get_method`, `mcall_call` and its cache | |
| `ClassesProofs` | theorems about `Classes` | `Classes`, `Induction` |
| `Gc` | `gc.c`, and what `assign0`, `eval_stack` and `array.c` do with reference counts | |
| `GcProofs` | theorems about `Gc` | `Gc`, `Induction` |
| `Strings` | `dynstring.c` and the methods of `string.c`, as operators on texts and buffers | |
| `Streams` | `iostream.c` on the C library's FILEs, with a script's string | `Strings` |
| `StreamsProofs` | theorems about `Strings` and `Streams` | `Streams`, `Induction` |
| `MC*` | instances for TLC | |

`parse.tab.c` holds the code of `parse.y` word by word, in three pieces: the prologue 66
lines further down, the rules as the cases of `yyparse`, and the functions after the
rules 1960 lines further down. The Makefile compiles `parse.tab.c` and has its call of
bison commented out, so the `map` of `PROJECT.json` names lines of `parse.tab.c`; the
comments of the modules, the hazards and this text name those of `parse.y`.

### The hash table

A chain is the sequence of its entries, head first, so pushing on a bin is
prepending. Each iteration of the loops in `rehash()` and `st_foreach()` is a step
of its own (`pc` says which loop runs), because the invariants are about tables in
the middle of them; between calls `pc = "ready"`. Keys are model values, the hash
function is the constant `Hash`, sizes are the constants `MINSIZE`, `Primes`,
`MAX_DENSITY`. `MCStTable` also evaluates, for the primes of `st.c:66-96`, the
fact the model needs of them: a growth always finds the next prime.

`StTable!Next` is a client that uses the dictionary calls only, as `hash.c` does.
`VarTable` is the other client: it stores with `st_add_direct`, and history
variables record what was assigned.

### Parser and evaluator

A script is a sequence of tokens at the level of statements: `stmt` (any
expression whose value does not matter), `break`, `throw`, `retry`, a `call` of a
method, and the keywords that open, divide and close blocks. Expressions,
variables and text are left out; a condition may be true or false each time it is
tested. The objects the parser makes are numbered in order of creation; 0 is the
null pointer and 1 the main thread. `phase` says what the process does, or how it
ended: `exit`, `yyerror`, `fail` (abort), `crash` (null pointer), `overflow` (the
C stack), `dangling` (the next step would read an exception object that has been
freed).

The evaluator's C stack is `frames`, one record for each active call or construct
(eval_stack, a T_BRANCH, a T_EXCEPTION, throw_exc, eval_thread), each with the
locals it will need when control returns to it (`save_thr`, `sav_thr`, `thr`). One
step evaluates one cell or returns from one frame. `rv` is the returned value,
reduced to whether it is `Qbreak`. Two cases where the C code leaves the outcome
open are nondeterministic: the condition of a branch, and `val` in `eval_stack`
when the stack is empty and nothing was ever assigned to it (`eval.c:233`, 246).
`yyparse` is left by `return;` without a value after each keyword; `main` calls it
again as long as the value is not 0, which the builds we tried always do, and the
model assumes it.

Methods are known by one name each and the last definition counts; classes are
left out. A `call` stands for `name()`, which fails if there is no such method.

The collector also frees what the parser made. The cell of a begin block is the only such
object that it does not spare: `begin_new` lists it in the block around it (`parse.y:114`),
nothing counts it, and the list of types in `memdealloc` that are never freed does not have
`T_EXCEPTION` (`gc.c:87-104`). `freed` is the set of exception objects that are gone.
`SweepOf` is the sweep at the end of `eval_stack`, which frees those listed in `cur_thr`,
at the end of the stack and after a Qbreak alike (`eval.c:240-245`); the token `gc` is
`GC.run()`, which sweeps the lists of the running block and of those around it. Any step
that would read a freed one (`ReadsExc`) ends the evaluation as `dangling`.

### Local variables

`Scope` keeps what `Evaluator` leaves out: which table a block uses. `env` is
`env_tbl` of each block and `tables` the tables there are; that several blocks
hold the same pointer is several values of `env` being equal. A table is the map
from names to latest values (`VarTable` says when `st.c` keeps to that). There is no
script: at each step the running block may assign, call any method, assign what a
call returns, enter a block inside it or leave, so that every program over these
blocks and names is covered up to the depth of the C stack `MaxDepth`. `stack`
holds `sav_thr` and `sav_env` of each `eval_thread` and the table that each `assign0`
picked; `envs`, `before` and `shared` in its records are history variables. `argv` is
the argument cell of the `T_MCALL` that `define_soft_method` makes and `mcall_call`
overwrites. Left out: `self`, classes (all methods are in reach), and the builtin
methods that `sym2ref` falls back to.

### Vectors

`Vector` models the memory: `data` is a function from offsets, `Junk` what malloc and
realloc leave in places nobody wrote. Calls are one step, except those that loop:
`vector_foreach` and `vector_delete`, whose walk changes the vector under way, and the
search for a capacity in `vector_shrink` and `vector_optimize` (`pc`, `i`). A call that
touches memory outside the vector sets `stray`; a write there makes everything
after it undefined and the model stops in `pc = "undefined"`, which is why its
configurations do not check for deadlock. `vector_shift` reads and changes `i` in one
expression (`vector.c:212`), which C leaves open: `Shift` allows either outcome. Gcc, the
compiler of the Makefile, takes the new `i` on both sides at every level of optimisation.

`List` is the abstract list. `ImplementsList` says that each call has the effect its
comment states; `Kept` names the calls for which this is not so: `vector_shift` (below),
`vector_reverse`, which does not reverse but shrinks (`vector.c:358`), and
`vector_range` with a bound outside the vector. `vector_delete` (`vector.c:312`) misses
the neighbour of an element it removed; `DeleteRemoves` says what it does.

### Classes and calls

`Classes` has two phases. While a script is parsed, `class`, `def` and `end` come in any
order; `names` is one table of class names for each open `def` (the tables of other
blocks are those around them), `end_vector` the closing functions, `nest` (history) the
class each block stands in. `current_class` is one variable, as in the code: nothing
saves it, `end_class` sets it to the super. Then calls come in any order, for
any class and method; `mcall_call` and `toi_funcall` search as the code does and keep the
cache. The interpreter's classes and their methods are constants, so that any class may
have any method, a `method_missing` or none.

The cache of `mcall_call` has three entries, of which only the first is written (`curi`
is not static), and its loop looks at a fourth behind the array; in the builds we
looked at the linker puts `sigint_flag` there, which is no match, and the model
leaves it out. A method of the script is a `T_MCALL` whose call is a call of `call` of
its thread, which enters the cache in turn (`ThreadCall`): so such methods are never in the
cache when the next call comes.

What the properties name as exceptions, and the interpreter shows: the first class of a
script has no super, the later ones at the top level have `Kernel`; a class that is opened
again at a place other than its super's leaves `current_class` at its super, and the
methods that follow land there (`astray`); a `method_missing` in a class hides the
methods of its supers and its singleton methods; `Kernel`'s methods hide singleton
methods; a method that was found through `cself` stays in the cache for other `cself`s.

### The garbage collector

`Gc!mem` is the heap: which objects are live, their counts, the elements of arrays,
and `obj_stk` and `last` of each block. There are three blocks: the program, a block in it
(with `Shares`, an if that uses the program's table, else a begin body with its own) and a
method with a parameter. The script is not given: the running block may do
anything that counts (`Assign`, `Statement`, `GcRun`, `Enter`, `Call`, `Return`), with new objects,
literals, variables and what arrays give away as right sides. Array and block sweep are
the loops of the code: `Sweep` deletes at the index of the walk while `ary_reap`
takes elements out of the same list. What the parser makes is not in `Gc`; of that only
the cells of begin blocks are ever freed, and `Evaluator` has those.

A table of variables is written as the code does it (`eval.c:143-148`): `Store` looks the
name up, counts down what it finds, and adds another entry with `st_add_direct`. Of the
entries of a name two can ever be found, the last one added and the first: `env` has the one
that a lookup finds now, `oldest` the one at the other end of the chain. Each addition
may make the table grow (`AddDirect`), which turns all its chains around (`Turned`; compare
`var_table_latest`): when exactly it does depends on how many entries the table has, and the
model lets it happen at any addition.

This collector does leave freed objects in use. The history variable `causes` names
what the script did; the invariants speak of the states before the first cause, so
that they say that nothing else of what `Gc` models goes wrong. Each cause is reachable,
and was seen to read freed memory in the interpreter built with an address sanitizer:

* `itself`: a variable is assigned its own, only reference (`eval.c:144`);
* `parameter`: a method assigns to its parameter, which was bound uncounted
  (`eval.c:208`) and is now counted down;
* `returned`: a block ends with an object that nothing refers to: the sweep frees it,
  and then it is the block's value (`eval.c:245`);
* `foreign`: an object goes in another block than the one whose list has it
  (`gc.c:28`);
* `inside out`: the sweep frees an array after an element that is listed before it: the
  element is taken out of the list at an index the walk has passed, and the walk
  deletes the wrong entry;
* `unpinned`: a literal is pushed on an array: `ary_push` counts -32767 up
  (`array.c:56`), and the next sweep finds a count below 1. `toi.h:248` says of
  `gc_never_free` that it "MUST be called for any object that the garbage collector
  shouldn't free()";
* `shifted`: `ary_shift` counts the first element down while `vector_shift` drops
  the last;
* `grown`: a table grows in which some name has had different values: a lookup finds the
  first entry again, whose object may have been freed, and the next assignment counts that
  one down and leaves the latest value counted with nothing that refers to it
  (`eval.c:143`, `st.c:319`).

An object whose count was not lowered because it was `last` (`gc.c:22`) is never freed;
`kept` has these, and `CountsMatch` and `SweepsLeaveNothing` say that there are no others.
`last` itself may dangle in a block that does not run, and is compared only, never
followed.

### Strings and streams

`Strings` has pure operators: a text is a sequence of characters, a buffer a text with a
NUL and the rest of the memory. `dstrcat` is modelled with its three steps, growth (which
raises `len` before there is any text), `strncat` at the first NUL, and `strlen`. The
methods of `string.c` are functions on texts; `string_upcase`, `string_downcase` and
`string_capitalize` return more than one text, because they do not terminate theirs
(`string.c:315-322`). `string_chomp` of an empty text looks at the byte before it
(`string.c:186`): that is the high byte of the size malloc keeps there, which is 0 for any
text that fits in memory, so that the loop stops at it. `Streams` is the program around them: one string, files, stream
objects, and `file_read` step by step (`rd`), with other FILEs' buffers written
out at any time. The FILEs are those of glibc and external: what is read ahead, what is not
yet written, the position, the end-of-file mark.

`ReadGivesFile` says what `file_read` does: the text begins with the file's; exactly that, if
the file is shorter than the 1023 characters of a round. Otherwise the last round
leaves the end of the round before it in `buf` and appends it too (`iostream.c:205`). A file
opened with mode "a" is noted neither as readable nor as writable (`iostream.c:99-111`), so
it is never closed (`FilesOwned`). Also in the model: `gets` without a FILE to read is a
null pointer; subtracting the empty string never ends (`string.c:210`); a negative
factor asks for more memory than there is and writes to the null pointer
(`string.c:233`), but for the shortest texts.

## 3. Runs

| run | what it shows |
|---|---|
| `st_table` (MCStTable.cfg): `TypeOK`, `Placement`, `UniqueKeys`, `CountMatches`, `ImplementsDictionary`, `LoopsEnd` | The hash table of st.c is a dictionary between any two iterations of its growth and clean-up loops, over four colliding keys and one growth of each table, and its loops end. |
| `var_table` (MCVarTable.cfg): `DefinedStaysDefined`, `ReadYourWrite` | What variables and methods keep although every assignment is an st_add_direct of a name that may be there already: over two growths a name stays defined, and the assignment just made is seen. |
| `var_table_latest` (VarTableLatest.cfg, violation): `LatestWins` | After a growth a name that was assigned more than once has its oldest value again. |
| `parser` (MCParser.cfg): `EndReturnsToOpener`, `BuildsTheScript`, `HandlersInPlace`, `AcceptsWellFormed` | The grammar actions on every sequence of up to six tokens: what threads, branches and exception objects they build, and which scripts they refuse. |
| `interp` (MCInterp.cfg): `RunsOwnThread`, `RetryReachesItsLoop`, `EndsWell`, `ProgramBeginsStay`, `BreakEndsOneLoop`, `NothingAfterRetry`, `EndsOrRepeats` | Parser and evaluator together on every well-formed script of up to five tokens, on every small nest of begin blocks and loops, and on scripts with methods, with GC.run() or with unclosed blocks: where control goes, and which begin blocks the sweeps free. |
| `interp_begin_again` (InterpBeginAgain.cfg, violation): `BeginsStay` | A begin block inside another block is freed when that block ends for the first time, and read again when it runs for the second. |
| `vector` (MCVector.cfg): `TypeOK`, `WalkVisitsEach`, `DeleteRemoves`, `StaysInside`, `ImplementsList`, `LoopsEnd` | The calls of vector.c on a vector of up to four elements, with its memory: it is a list, never reads what nobody stored, and its walks visit what they should while elements are removed. |
| `scope` (MCScope.cfg): `TypeOK`, `CallsRestoreEnv`, `CallerKeepsLocals`, `MethodsLeaveMainAlone` | Any program of a method with an if and a begin block and a second method, calling themselves, each other and from inside a block up to three deep: which variables a block, a caller and the program share, and that calls and recursions put every table back. |
| `scope_recursion` (ScopeRecursion.cfg, violation): `RecursionKeepsLocals` | A method that calls itself from an if shares its variables with the inner call. |
| `gc` (MCGc.cfg): `NothingDangles`, `CountsMatch`, `ListedOnce`, `SweepsLeaveNothing` | Any script of assignments, array calls, collections, a block and a method, over tables that may grow at any addition: counts, lists and sweeps agree, and nothing in use is freed, until the script does one of the named things after which this code leaves a freed object in use. |
| `classes` (MCClasses.cfg): `DefinedWhereWritten`, `NearestAnswers`, `CacheTransparent` | Every script of up to six class, def and end tokens, then calls in any order: where methods are entered, what a call finds, and that the method cache does not show. |
| `streams` (MCStreams.cfg): `BuffersTerminated`, `FilesOwned`, `NothingLost`, `ReadGivesFile` | String methods and two stream objects on one file, file_read chunk by chunk with flushes and full buffers between the calls: buffers stay terminated, FILEs are closed once, what is read is what is in the file. |

Bounds and why they are enough:

* `st_table`: four keys, three of which share a bin in the first table and two in
  the second; the density is 0, so that a table grows at its third entry, and not again
  with four keys: all collisions, both kinds of deletion and a growth in any order, and
  again in the table that follows one that was freed. Further growths of one table are
  left to the proofs and to `var_table`, which has two. `MaxChain = 2` limits the chains; deleted marks count.
* `var_table`: three names, seven assignments: chains hold several entries of one
  name, before and after two growths.
* `parser`: every sequence of up to six tokens of the seven that matter to the
  parser, and of up to four of all; six tokens hold a begin block with a rescue
  inside a branch, or two nested begin blocks with a rescue.
* `interp`: every well-formed script of up to five tokens over the four simple
  statements, `if`, `while` and `begin` with and without `else`/`rescue`; any of
  four tokens inside one more block; every begin block with body and rescue of up
  to two tokens inside a loop, or around one; hand-picked longer nests, methods,
  scripts with `GC.run()` and unclosed scripts. `MaxFrames = 14` is beyond the depth of any
  script that does not recurse, so that `overflow` means endless recursion.
* `scope`: the program, a method with a parameter, an if and a begin block, and a
  method without; two names, one value and nil; a call passes nothing, a name or a
  value. `MaxDepth = 3` frames on the C stack hold a recursion of three calls, a recursion
  by way of another method (f, g, f), a recursion from a block (f, its if, f), and calls on
  the right of an assignment, which take two frames; `NumTables = 6` is one for each of the
  four blocks with a table and two for recursions, so that no call lacks one. The view
  leaves out the argument that g was given, which has no parameter, and, in `scope`, what a
  call remembers of its caller's variables once it makes no claim of them.
* `vector`: two elements, so that neighbours may be equal or different; a default
  capacity of 2 and up to 4 elements: two doublings, halving down to 0, full and
  empty vectors; indices from -2 to 2 on both sides of both ends. `Many` and `ManySize`
  stand for 1024 and 2048 of `vector_optimize`.
* `gc`: two strings, a literal and the parameter, with an array of up to two elements and
  one variable, or with two variables (`OneOfBoth`): a table that grows when a name is
  added to it brings back older values of the others, so that this takes two. With an
  array, at most one object has a count that may stay too high. Counts go up to 2; one
  block or call at a time in the program (`MaxDepth = 1`). Every cause above is reached,
  and removing any of them from `causes` makes an invariant fail. The view merges states
  that differ only in what is never read again (`MCGc`). The block of the run is an if
  (`Shares = TRUE`); the begin body (`Shares = FALSE`) was checked too, with the same result.
* `classes`: two classes of the script beside `Object`, `Kernel`, `Thread` and `String`, with four
  names so that builtin classes can be opened too, four methods of which one is
  `method_missing`; six tokens hold two nested classes with a method, or a
  class that is opened twice with a method.
* `streams`: three literals, texts of up to four characters and arrays of five
  (`BufSize`), a file of up to three characters read two at a time: empty files, files
  shorter than, as long as and longer than a round; two streams on two FILEs, in every mode but
  "w+", whose steps are those of "w" and "r+". The string methods come before the first
  file is opened, and only literals are written; a file is not cut short while another FILE is
  open on it.

The runs that expect a violation state what a comment, a test or the
documentation says, and TLC finds the script or the calls that show otherwise.
Each was reproduced with the interpreter itself:

* `var_table_latest` (`st.c:319`): rehash() walks each chain from its head and pushes every entry on the head of its new chain, which reverses it; assign0 (eval.c:148) and the define_ functions of class.c store with st_add_direct, which leaves the older entry of the name in the chain. After the growth a reference finds the oldest value. symbol.c:8-9 calls the tables "dictionaries/associative-arrays", where a name has the value it was last given.
* `interp_begin_again` (`eval.c:245`): begin_new() lists the cell of a begin block in the obj_stk of the block around it, with a refcount of 0 (parse.y:114, OBJ_SETUP in toi.h), and nothing counts it. The list of types that memdealloc() never frees has T_BEGIN, T_TRY and T_RESCUE, of which gc.c:103 says that they "should never be garbage collected", but not T_EXCEPTION, the type such a cell has (gc.c:87-104). So the sweep at the end of eval_stack frees it when the block around it ends for the first time, and the next round of a loop, or the next call of a method, evaluates freed memory: the interpreter stops with "type flag unrecognized during eval of cell" on a `while' with a `begin .. rescue .. end' in it.
* `scope_recursion` (`eval.c:200`): eval_thread makes a new table only if cur_thr is the method itself. In an if or else of the method cur_thr is that block, so that a recursion from there runs on the caller's own table and overwrites its variables. recurse.toi:2 says of a recursion in an else "Note also proper scope handling"; after `def f(n) if (n == 1) f(2); puts n end end', f(1) prints 2.

Some more behaviour of that kind is in the models and is excluded by name in the
conditions of the properties that hold: a begin block nested in the body of another makes
the parser follow a null pointer at the rescue of the outer one, because `end_begin` clears
the note of the enclosing thread (`parse.y:131`, `AcceptsWellFormed`); an exception that is
thrown and rescued inside a loop ends the loop, its Qbreak being taken for that of a break
(`exception.c:101`, `BreakEndsOneLoop` speaks of breaks); a retry in a loop ends that loop
only, and what stands behind the loop is still evaluated (`eval.c:355`, `NothingAfterRetry`
speaks of scripts without a throw or a retry in a loop); a begin block in a loop or inside
another block, and any begin block once the script ran `GC.run()`, may be freed before it is evaluated again
(`eval.c:245`, `EndsWell`, `ProgramBeginsStay`); a method that calls another which calls
it, or that enters an if in a recursive call, shares variables among its calls
(`CallerKeepsLocals`); `vector_shift` hands out the first
element and removes the last, `v->data[i] = v->data[++i]` taking the new `i` on both sides
(`vector.c:212`, left out of `Kept`); a table that has grown finds older values of a name
first, so that only the assignment just made is sure to be seen (`ReadYourWrite`);
what a script must not do to keep the collector's promises (`causes`, above); a `throw` in a rescue runs the same rescue
again until the C stack is full (`EndsWell`); a begin block nested in a rescue makes
the rescue forget its own block, so that `retry` fails (`EndsWell`); a `throw` in a
begin block without rescue goes on with the next statement, in the scope of the
enclosing block (`RunsOwnThread`, `EndsWell`); a `throw` in a method is not rescued
by its caller (`EndsWell`); a `break` meets a pending `retry` (`BreakEndsOneLoop`); a script that ends inside a
block is accepted, and so is an else of a begin block inside an if (`BuildsTheScript`
speaks of well-formed scripts); a call without argument gets the argument cell of the
method's latest call (`Scope!Call`); `vector_shrink` of an empty vector leaves it with
capacity 0, which never grows (`StaysInside`).

Fairness. The program is one C thread that the operating system keeps running:
weak fairness of its next step (`Interp!FairSpec`), and of the loops of `st.c` once
entered (`StTable!FairSpec`, `Vector!FairSpec`); clients of tables and vectors owe
nothing, and `Scope`, `Gc`, `Classes` and `Streams` state no liveness. Nothing is assumed
of conditions: `EndsOrRepeats` allows loops that never end, and says that nothing
else can go on for ever.

## 4. Proofs

`StTableProofs` proves for every value of the constants (any keys, any hash
function, any positive primes, any density, any bound on chains):

* `TypeCorrect`: `Spec => []TypeOK`. The invariant is inductive as it stands; the
  work is in showing that the chains stay sequences of entries under `Push`,
  `RemoveAt`, `Reverse` and in-place writes (`PushType`, `ChainType`, `AddType`).
* `PlacementHolds`: `Spec => []Placement`: every entry is in the bin its hash
  selects, in both sets of bins. Steps are classified by what they do to the
  chains: *thinning* (each chain of the new state is made of entries of the same
  chain of the old one; lookups, deletions, clean-up, copying) and *adding* one
  entry; one lemma for each class then serves all actions.
* `KeysUnique`: `Spec => []UniqueKeys`. Not inductive without the parts about the
  second set of bins and the waiting entry, which are therefore conjuncts of
  `UniqueKeys` itself: while the table grows an entry is in exactly one of the three
  places, and `st_insert` starts a growth only when the key is nowhere.
* `SoundAlways`: `Spec => []Sound`: a live entry has a key and a record, and `rehash()`
  leaves its second set of bins empty behind it. It is what the next two rest on.
* `CountCorrect`: `Spec => []CountMatches`: between calls `num_entries` is the number of
  live entries. `CountInv` says so of the set `Live` in every state, with the number saved
  by the clean-up while that one runs; each step adds, removes or replaces one
  entry of `Live` or leaves them (`Effect`), and `PlacesCount` says that the places of the table
  are as many as the entries, as no entry is in two of them.
* `DictionaryImplemented`: `Spec => ImplementsDictionary`, the refinement of the abstract
  map. The map is read off the places where entries are; each step is shown to have one of
  a few effects on it (`Effect` again), and each is an operation of `Dictionary` or a stutter.
* `VariablesStay` and `WrittenIsRead`: `VSpec => []DefinedStaysDefined` and
  `VSpec => []ReadYourWrite`, about the client that stores with `st_add_direct` and so has
  several entries for a name. `VInv`: whatever name was assigned has an entry somewhere in
  the table, the bins of a growth and the entry that waits for it included (`Stored`), and
  the last assignment is at the head of its chain, or waits to get there (`AtHead`).

They assume `HashAssumption`, `NeverAssumption` and `SizeAssumption` of `StTable`,
which TLC evaluates in the runs `st_table` and `var_table`.

`VectorProofs` proves for every set of elements, every default size, every set of
indices and every bound on the length:

* `TypeCorrect`: `Spec => []TypeOK`: a vector never counts more elements than it has
  places, and the search for a smaller capacity stops above what is in use. This is not
  inductive alone: the contents must be known to be elements to know what a removal
  moves. `IInv` is `TypeOK` with `ContentsStored`; one lemma for each operation on the
  record (`PushSound`, `UnshiftSound`, `DeleteSound`, `PopSound`, `AsetSound`, `ResizedSound`)
  says that it keeps a sound vector sound, and `StepInvariant` has one step per action.
* `OnlyStored`: `Spec => []ContentsStored`, from the same invariant: growing, shrinking
  and moving elements never brings up memory that nobody wrote.
* `OnlyOwnMemory`: `Spec => StaysInside`, from `IInv` and `Clean` (what is said of `stray`
  between calls).
* `WalkComplete`: `Spec => []WalkVisitsEach`. `WalkInv` says where the walk is: it has asked
  about the first `Len(seen)` places there were, those of them that are not removed and all
  places after them are left, and `i` stands behind the former. The place an element moved to
  is the number of those before it that are left (`Rank`); a few lemmas say how `Rank` changes
  when one place goes, and `WalkBegins`, `WalkGoesOn`, `WalkEnds` follow the loop.
* `MatchesRemoved`: `Spec => []DeleteRemoves`. `DeleteInv` is the same for the index of
  `vector_delete`, which passes two places where it removes (`Passed`), so that
  the neighbour of a match is not looked at: what is left is `Unmatched`, as long as no
  matches are neighbours, and `Finding` is about the value returned.
* `VectorIsList`: `Spec => ImplementsList`, the refinement of the abstract list. Each call is
  shown to be its operation of `List` on the contents; a step of a loop is a `Drop` of one
  element or changes nothing, which needs that nothing is returned while a capacity is looked
  for (`Quiet`).

They assume `DistinctAssumption` and `SizesAssumption`, which TLC evaluates in the run
`vector`.

`ClassesProofs` proves for all classes, names, methods and tables of builtin methods, and
for scripts and runs of any length:

* `TypeCorrect`: `Spec => []TypeOK`: what is open, in scope, or a super is a class that is
  there.
* `SupersOlder`: `Spec => []SupersAreOlder`. The invariant `IInv` adds that each `end_class`
  waiting in `end_vector` belongs to an open class (`Opened`), without which `current_class`
  could be none when a class ends.
* `MethodsAtHome`: `Spec => []DefinedWhereWritten`. The invariant `AtHome` is about the
  whole nest: as long as the script has not gone astray, each open class is inside its
  super and `current_class` is the innermost (`Nested`); one lemma for each of `parse_class`,
  `parse_define`, `end_class` and `end_define` says how the nest changes.
* `CacheHonest`: `Spec => []CacheTransparent`. `CacheInv` says that the entry is what the
  search for its class and method finds now, which stays true because the tables no longer
  change once calls begin (`SearchUnchanged`).
* `NearestMethod`: `Spec => []NearestAnswers`. The search is a recursive function along
  `super`; `SupersEnd` shows that it ends at a class without super, as a class of the script is younger
  than its super and a class that is not made has none (`Unmade`). `LineIsThere` and
  `FirstIsNearest` unfold the line of supers and the search together, and `CacheInv` carries
  the result over to calls that the cache answers.

They assume `ClassesAssumption`, `MethodsAssumption` and `RootsAssumption` (the supers of the
builtin classes do not go round), which TLC evaluates in the run `classes`.

`ScopeProofs` proves for all programs over any blocks, names and values, nested and
recursive to any depth `MaxDepth`:

* `StackSound`: `Spec => []SInv`. There are links and running blocks for each depth of the
  C stack that lead, frame by frame, from those the parser made to the present ones
  (`Path`), so that returning undoes them. The table a method gets for a call of itself was
  nobody's before (`Fresh`), two methods never have the same table (`Apart`), a block that runs
  on its caller's table is noted in the call (`Noted`, `Kept`), nothing inside a call uses the
  table of the program (`OffMain`), and no link is to a table that was freed (`AllThere`).
* `TablesThere`: `Spec => []TypeOK`: no block is linked to a table that was freed, nor will
  it be when the calls return.
* `CallsRestore`: `Spec => CallsRestoreEnv`, `CallerKeeps`: `Spec => CallerKeepsLocals`,
  `MainLeftAlone`: `Spec => MethodsLeaveMainAlone`: the three action properties of the run,
  each from `SInv`.

They assume `Blocks`, `Names`, `Bounds` and `Tables` of `Scope`, which TLC evaluates in the
run `scope`.

`InterpProofs` proves of the parser, for every set of scripts, of any length and nesting:

* `PointersGood`: `ParseSpec => []Typed`: the parser's pointers are to objects that there
  are, for any script, well-formed or not.
* `EndReturns`: `ParseSpec => []EndReturnsToOpener`, likewise for any script. The blocks
  being written are a chain, each younger than the one before and linked to it by `up`
  (`Chain`); `Notes` adds that the exception object noted in one of them is of a begin that
  is open in it or, in the innermost, of the begin it is the body or rescue of, so that the
  "hack" of `parse.y:147` goes back to the right block.
* `HandlersHold`: `ParseSpec => []HandlersInPlace` and `Accepts`:
  `ParseSpec => []AcceptsWellFormed`. The state in the middle of a script is compared with
  what `BlocksAt` says is open there. `Place`: what is left to read is the rest of the
  script. `Levels`: each open block has the closing function of its keyword, a begin before
  its rescue has its body in place with the exception object noted, unless another begin has
  taken that note away (in which case the script nests one before a rescue), a side knows
  its branch and a method its name. `Handlers`: an exception object is noted in its body, and
  elsewhere only in its rescue and where its begin is still open. `Wrong`: the parser
  stopped early only if the script is not well-formed or nests a begin before a rescue.

They assume `ScriptsAssumption` of `Parser` (scripts are sequences of tokens; the lexer
gives `def` and calls a name), which TLC evaluates in the run `parser`.

`InterpProofs` proves of the evaluator, for every set of scripts, of any length and nesting,
and any `MaxFrames`:

* `EvaluatorRuns`: `Spec => [](phase = "eval" => Running)`: whatever the script, the C stack,
  `cur_thr` and the cells that are next are of objects the parser made, and no branch runs a
  side it does not have. It does not say that an exception object is still there: a step that
  would read a freed one ends the evaluation (`dangling`), and the theorem is about
  evaluations that go on. What the parser leaves behind is `Linked`
  (cells, branches and exception objects are of threads there are, the two sides of a
  branch are its own: `ParseLinked`), `Handover` carries it over `parse_eof`, and nothing
  but marks and notes changes from then on (`World`, `Kept`). A step of the evaluator has one of five
  shapes (`EvalSteps`): it `Deepens` the C stack by the frames of a cell and its block, `Gives` a value to the
  frame below, `Leaves` the top frame, `Repeats` a body, or `GoesOn`; the other proofs go by shape.
* `BreaksEndOneLoop`: `Spec => BreakEndsOneLoop`, for any script. `BInv` adds that, while a
  Qbreak travels up, `brk` is the innermost loop on the C stack, the frames between being of
  conditionals, begin bodies and calls.
* `RetriesReachTheirLoop`: `Spec => []RetryReachesItsLoop`. `retry` looks for an exception
  object from `cur_thr` outwards, so `RInv` says of the thread of each frame, and of `cur_thr`,
  that the objects noted on the way outwards are of begin bodies being evaluated at or
  below that frame (`AllCovered`); it rests on `HandlersInPlace`, a theorem about the parser.
* `RunsItsOwnThread`: `Spec => []RunsOwnThread`. `WInv`: every other frame is of
  `eval_stack`, and what `eval_branch`, `eval_thread` and `eval_cell` saved in the frames between is the thread of the
  `eval_stack` below (`Ordered`), so that returning restores it.

* `ProgramBeginsStayAlways`: `Spec => []ProgramBeginsStay`: sweeps go by `cur_thr`, and yet
  none takes a begin block of the program itself, as long as no begin lacks a rescue and the
  script does not run the collector. `RunsItsOwnThread` is half of it: the thread that
  `eval_stack` sweeps is its own. The other half is that no `eval_stack` runs the program's
  block, which `main()` does: the sides of branches and the bodies and rescues of begins lie
  in other blocks, and the program is no method (`MInv`, `Inner`). `FInv` puts them together
  with `freed`, and `StepFrees` says what a step frees.

`RInv` and `WInv` were found by checking them with TLC on the instance of the run `interp`
first. The proofs assume `ScriptsAssumption` and `MaxFramesAssumption` (a natural number),
which TLC evaluates in the run `interp`.

`Induction` has the induction these proofs need. The library's induction theorems take an
operator as a parameter, which the provers at hand do not instantiate; stated with a set
(`InductiveSet`: a set of numbers that holds each number of which it holds all smaller ones
has them all) the same facts can be cited. `NumberRecursion` gives the equation of a
function defined by recursion, which is how `Scope!Home`, `Scope!var_in_scope` and
`Parser!BlocksAt` are reasoned about, and `LinkRecursion` that of one along links that never
lead back (`Classes!Line`); `WalkExists` and `WalkStays` are about following links.

`GcProofs` proves for any strings, arrays, literals and variables, arrays of any length, and
scripts that run for any time and nest to any depth `MaxDepth`:

* `Invariant`: `Spec => []IInv`. None of the properties is inductive. `IInv` says, as long as
  nothing in `causes` was done, the growth that brings back an older entry of a name
  included, that the heap and the tables are `Sound`: the lists of the
  blocks have each live object once and nothing else (`Listed`), literals are pinned
  (`Pinned`), what is not made yet is not counted and empty (`Fresh`), live arrays have live
  strings (`Filled`), counts are the references or higher for a reason (`Counted`), and variables
  have live objects (`Tables`); that the blocks wait in order (`Waits`); and, while a method
  runs, that its uncounted parameter is `Safe`: a literal, or in a variable of another table, or
  counted for more than its references, or in no list that the method's sweep walks. That a variable
  of the method's own has it is not enough, though TLC finds no state where only that is the
  case: an assignment to that variable would take the object.
* The reaping of an array (`ReapWalk`) and the sweep (`SweepWalk`) are recursive functions over
  lists that shrink while they are walked. While an array goes, its first `j` elements are
  no longer owed a reference (`Owed`, `Reaping`). The sweep is right up to its index as long as each
  array goes before its elements (`Good`); once it is not, the heap stays visibly wrong
  (`Bad`) until the end, where the step is one of `causes` (`SweepLeaves`). `DownFalls`, `UpSound` and `RhsGood`
  are about what an assignment counts down and up, and the right sides; `StoreSane` puts
  `assign0` together, for an assignment and for the end of a call alike. `AddDirectGives` and
  `CallGives` say what adding an entry does to what lookups find: the new value under its name
  and, as long as `grown` is not among the causes, nothing else, whether the chains were
  turned around or not.
* `NothingDanglesAlways`, `CountsMatchAlways`, `ListedOnceAlways`: the three invariants of the
  run, each a few lines from `IInv`.
* `SweepsLeaveNothingAlways`: `Spec => SweepsLeaveNothing`. What a sweep leaves is `Neat`,
  and the rest of the step (the value noted, the assignment of a call's value) keeps it so
  (`NeatStill`); only a return takes a block off (`ShorterReturns`).

They assume `NamesAssumption`, `KindsAssumption`, `SizesAssumption` (finitely many objects and
names), `BoundsAssumption` and `SharesAssumption`, which TLC evaluates in the run `gc`; that
the bounds are numbers is all that is used of them. `IInv` was checked with TLC first, on the
instance of the run with either value of `Shares`. Two definitions of `Gc` were corrected by
the attempt: `Held` had the value of every waiting block, where only the running block's is ever read
(a block that waits replaces its own), which fails from `MaxDepth = 2` on; and `Lowered` was a
CASE whose guards overlap, so that the count of a literal that is `last` was left open.

`StreamsProofs` proves for any characters, literals and modes, buffers and chunks of any
size, files of any length, and finitely many FILEs:

* `WordsAreKept`: `WordsKept(t, u)` for all texts `t` and `u`: what `string_minus` and
  `string_split` do, without a bound on the length. `MoveDownRemoves` is the loop of
  `string.c:212-213`, `RemovedCounts` counts what one round takes out, `MinusIs` adds the rounds up;
  `SplitAtIs` and `JoinAppend` carry "the pieces so far, joined, are the text so far" along the
  text.
* `Invariant`: `Spec => []IInv`. `FilesOwned` is not inductive, nor is `ReadGivesFile`, which
  speaks of the last step of a read only. `IInv` says that the string is `Sound` (its buffer
  ends where its length says); that each FILE is `InPlace`: what it has read ahead ends at its position,
  which is in the file, and only what an object may use has anything; that an object
  has one FILE at most, whichever way it notes it, and no two have the same (`Owners`); and, while a
  file_read runs (`Reading`), that what it has read and what is left make what there was to be
  read, and that the chunk buffer is empty or a whole chunk was read before. The last is why a
  short file is read exactly: only a whole chunk can leave something in the buffer
  (`BufferIs`).
* `AppendedTo`: `dstrcat` of a sound buffer is a sound buffer with the text behind what
  was there, although `len` is wrong while it grows (`dstr_grow_by`).
* `BuffersTerminatedAlways`, `FilesOwnedAlways`, `NothingLostAlways`: the three invariants of the
  run, from `IInv`; `ReadGivesFileAlways`: `Spec => ReadGivesFile`.

They assume `CharsAssumption` and `SizesAssumption` of `Strings`, and of `Streams`
`LiteralsAssumption` (literals are texts), `FilesAssumption` (finitely many FILEs, so that those that are
open have an order), `ModesAssumption`, `BoundsAssumption` and `NoneAssumption`, which TLC
evaluates in the run `streams`. `IInv` was checked with TLC on that instance first.
`fflush(NULL)` and `exit` take the open FILEs in some order that the model leaves open.

Model-checked only: `BuildsTheScript` (it folds the whole script back from the threads, over
two recursive functions at once), `EndsWell` (it holds only where `MaxFrames` is larger than
the nesting of the script, and a proof would still need two invariants that are not written:
one over the parse, that says which block rescues each `throw` and `retry` token, and one
that bounds the frame stack by the nesting of the block it runs); `NothingAfterRetry` (a
proof would follow the Qbreak of a retry to its begin block, frame by frame, as `BInv` does
with that of a break); all liveness (`LoopsEnd`, `EndsOrRepeats`), which is out of the
prover's reach under fairness, as is ENABLED.

## 5. Plan

In the order in which they are to be built:

1. `Structured`: an abstract machine that jumps between tokens of the script;
   `Interp` refines it for scripts without exceptions.
2. `st_foreach` with callbacks that return `ST_CHECK` and change the table (`methods`).

## 6. Not modelled

The lexer and expressions (text to tokens, operators to calls), and the tables and loop
of Bison's automaton in `parse.tab.c`; numbers (arithmetic on C ints and floats, without
state: results wrap, a division by zero is not caught) and the conversion of strings to
them; hashes, whose class has no methods, so that no script can store in one; `sleep`, `unlink`, the standard streams, and errors of the operating system
(`file_read` goes on for ever on a directory, where `feof` never comes); the functions of
`dynstring.c` that nothing calls (`dstr_aset`, `dstrcpy`, `dstr_shrink`, `dstr_new_with_size`);
`dstr_new` allocates the size of a pointer for its record (`dynstring.c:63`), which the
smallest block of malloc happens to hold; `thread_schedule`, `pop_scope`, `thread_reap` (never
called) and instance variables (never reached); `st_foreach` with callbacks that return
`ST_CHECK` or `ST_STOP`; allocation failure; `time.c` (empty) and `rubycompat.rb`.
