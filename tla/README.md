# Yukka OS in TLA+

Yukka OS is a small x86-64 kernel: it boots through GRUB, keeps files in a RAM
disk, reads a PS/2 keyboard, and offers a shell whose unknown words are fed to
Yakka, a line-oriented language. This directory holds TLA+ models of the parts
that keep state, the TLC runs that check them on small instances, and TLAPS
proofs of the properties that matter most for every size.

## Inventory

| Part | Source | State | Operations | Interacts with |
|---|---|---|---|---|
| RAM disk | `drivers/storage/ramdisk.c` | 64 slots (used, dir, name, parent, data, size), current directory | `fs_make_*`, `fs_write_file`, `fs_copy`, `fs_move`, `fs_rename`, `fs_delete`, `fs_chdir`, `fs_cwd`, reads and listings | called by commands, Yakka's library, self tests |
| Keyboard path | `drivers/keyboard/*`, `kernel/arch/x86_64/{idt.c,isr_stub.S,pic.c,pit.c}`, the loop of `terminal/shell/shell.cpp` | shift and prefix flags, ring of 256 keys, interrupt flag | interrupt 1 handler, timer handler, `keyboard_poll`, `hlt` | interrupts preempt the reader; shared ring |
| Kernel heap | `kernel/memory/heap.c` | chain of blocks in 256 KB | `kmalloc`, `kfree` | self tests, C++ operator new |
| Physical pages | `kernel/memory/pmm.c`, `kernel/core/multiboot.c` | bitmap, counter | `pmm_init`, `pmm_alloc_page`, `pmm_free_page` | boot loader's memory map; `memory` command; panic |
| Kernel start, interrupts | `kernel/core/main.c`, `idt.c`, `isr_stub.S`, `pic.c`, `panic.c`, `kprintf.c`, `serial.c` | gates, controllers' masks, requests and lines in service, log | `kernel_main`, interrupts, exceptions, panic, printing | all parts; the transmitter |
| Console | `drivers/display/vga.c` | cells, cursor | `terminal_putchar`, `terminal_clear` | everything that prints; the line editor erases through it |
| Shell, line editor | `terminal/shell/shell.cpp` | line, history of 16, browsing index | `terminal_getline`, `history_add`, completion | keyboard, console, commands, Yakka's `input` |
| Commands | `terminal/commands/commands.cpp` | none | `command_execute` | RAM disk, pages, Yakka |
| Yakka | `yakka/*` | variables, functions, capture buffer, the parser's activations | `yakka_feed_line`, `yakka_run_text`, expressions, builtins | shell, RAM disk, console |
| Others | boot, process, scheduler, time, power, strings, C++ support, banner, empty stubs | names, none | | no callers, or no state |

What is hard in this code: the keyboard interrupt that shares a ring with the
reader and may fall between the reader's last look and its `hlt`; directory
trees kept as parent indices that moves can bend into loops; table slots that
are reused with old bytes in them; a heap whose headers lie among the callers'
bytes; a counter kept apart from the bitmap it counts; a line that wraps and
scrolls while it is erased and redrawn by cursor movements; the order in which
the kernel makes interrupts possible; two ways to find the end of a Yakka block;
and expressions that are computed, with calls that write and ask, while they are
read. Nothing is persisted and there is one thread and no scheduler, so crash
recovery and message loss do not arise. `PROJECT.json` lists every such hazard
at its line, with the properties that cover it.

What makes each part correct:

* RAM disk: parents never dangle; the current directory is always a directory;
  what is written is read back; a failing call changes nothing; endless
  recursions are out of reach.
* Commands: what is typed is what the call gets; what is printed of its result
  is true.
* Keyboard path: the ring is a first-in first-out queue under every
  interleaving; what is typed is read; the reader is always woken.
* Heap: blocks tile the heap; a caller's block is its own and large enough.
* Pages: one owner per page; the counter is the number of bits set; the
  kernel's own pages are never given away.
* Kernel start: devices alone never stop the kernel; the log tells how far it
  came; an announced key or tick is served.
* Console: the screen is the end of a text that grows line by line.
* Line editor: the line shown is the line handed on; the history is the last
  lines entered.
* Yakka: a block means the same typed and run from a file; an expression has the
  value, and makes the calls, its grammar gives it.

## Modules

### `RamDisk` (`MCRamDisk`, `RamDiskProofs`)

`nodes` is a partial function from slots to `[dir, name, parent]`; its domain
is the set of slots whose `used` flag is set. `data` and `size` live on when a
slot is freed, as in the code. Each `fs_*` call that changes state is one
action, with every error return as a disjunct or a condition; `ok` is whether
the call returned a value of at least 0. A path is a record: leading slash,
components, trailing slash. A component of `MAX_NAME` characters or more is
`TooLong`. `Resolve` follows `resolve`, `Creates`/`AfterCreate` follow
`create_node`, `Subtree` is what `delete_node` visits.

`hung` records that `delete_node` or `build_path` has entered a recursion that
does not end: it does on a loop, which `fs_move` can build. `fs_copy` with an
empty destination reads the byte before an array; both outcomes are allowed.
Callers do not pass a last component of 32 characters or more to a call that
splits the path, since the copy into `base[32]` would have no defined outcome
(`BaseFits`).

### `Commands` (`MCCommands`, `RamDiskProofs`), with `Characters`

`Commands` extends `RamDisk` with the shell's commands. A line is a sequence of
characters (`Characters`); `Args` is `split_args`, `Joined` is `join_args`, and
`PathOf` makes of an argument the path record that `resolve` and `split_path`
make of its characters. `Dispatch` has one disjunct per command; each makes its
call of the disk and sets `said` to the message the call's result picks.
Commands that only print are one action. `Called` leaves the direct calls of
Yakka's library and the self tests possible, so both ways to the disk interleave.
`entered` and `said` are read by properties only; the view `TheDisk` keeps them
out of the state space, and the properties over them are action properties,
which TLC evaluates on every step, also into a state it has seen. `delete` of a
loop and `pwd` in one print nothing, since their calls do not return.

`WordAssumption` ties the two ways to write a path: `Names` and `Bytes` hold what
the lines in `Typed` spell. A meaning (`Meanings`) is a sequence of words, each plain
or in quotes and behind blanks, and the blanks at the end; `LineOf` is how it is
typed, and `MeaningAssumption` what can be said that way: no blank in a plain word
and no quote at its start, no quote within quotes, no text beyond the limit.

### `Keyboard` and `KeyQueue` (`MCKeyboard`, `KeyboardProofs`)

`KeyQueue` says what the driver promises: a queue that loses keys only all at
once, when one more than its capacity arrives. `Keyboard` is the code:
`Press` and `Release` are the keyboard's bytes, `KeyboardIRQ` is one run of
`irq_keyboard_handler` (read port, decode, store, acknowledge), `TimerIRQ` is
the timer's. The gates are interrupt gates, so a handler is one action; the
reader is cut at `cli`, the ring access, `sti`, the test and `hlt`, the places
between which an interrupt can fall. `Q` instantiates `KeyQueue` with the
unread part of the ring, which is the refinement.

The modelled session is `shell_run` with the keyboard's and the timer's lines
open. In this commit `kernel_main` ends in a loop of `cli; hlt`, and neither
`shell_run` nor `pic_enable` has a caller; the model describes the code that
is written for the session, from the point where both have been called.

Fairness: weak fairness of `Reader` and `TimerIRQ`, because the processor
executes its next instruction and the timer never stops; strong fairness of
`KeyboardIRQ`, because the controller keeps its request up while the reader
turns interrupts off and on again. Liveness needs the timer: a key that comes
between the poll and `hlt` does not end that `hlt` by itself.

`Sends` says what the keyboard is: a key sends one code of scan code set 1, bare
or behind the prefix 224, some with a fake shift in front, and the code plus 128
when it goes up. `LayoutAssumption` asks this of every key, and no more: any
codes, any number of keys. `TableAssumption` holds of the two tables of
`scancode.c`: where one has a character the other has one. The pause key, whose six
bytes have another form, is not among the keys.

### `Heap` (`MCHeap`, `MemoryProofs`)

Addresses and sizes in granules of 16 bytes, the size of a header. `blocks`
maps header addresses to `[size, free]`; the order of the chain is the order of
the addresses, because a split puts the new header behind the old one and
`Tiled` holds. `Alloc` is `kmalloc` with first fit, split and the rounding of
the request in a word of `Word` values; `Free` is `kfree` with its loop over
the free blocks behind. `live` is what callers hold and asked for.

### `Pmm` (`MCPmm`, `MemoryProofs`)

`pmm_init` from the loader's report: `MultibootMemory` takes the highest end of
a usable region, in 64 bits, `Clamped` applies the two limits, `Reserved` are
the pages up to the end of the bitmap. `AllocPage` takes the lowest clear bit or
panics; `FreePage` clears a bit that is set and inside the memory. Callers free
their own pages, free pages again, and free beyond the memory; they do not free
the kernel's pages or those of another caller, which nothing in the code stops.
The tags of the loader's information block are abstracted to the set of its
regions.

### `Startup` (`MCStartup`, `StartupProofs`)

`kernel_main` step by step: a step initialises one component (`Initialise`) and
prints its message, character by character: `Show` is `terminal_putchar`, `Send`
the wait for the transmitter (`MayWrite`) and the write to the port, and an
exception may come before, between and behind them. So the screen may be one
character ahead of the log, and panic leaves that character on the screen for good
(`LogTellsHowFar`). `Ends` and `PanicSize` say how many characters each message
has; the log begins with the bare `M` of `main.c:4` (`Hello`), and the number that
an exception's stub prints goes to the port only (`Number`). What the shell prints
is not part of this log. `idt`, `base` and `mask` are what the steps set up for
interrupts; `irr` and `isr` are the controllers' requests and lines in service.
`Serve` is a whole interrupt, from the vector through its gate and stub to the
end of interrupt and `iretq`; `Exception` and `Spurious` enter through the same
table, where nearly all gates lead to panic. `Sessions` chooses what follows the
steps: the loop of `cli` and `hlt` the code has, or `pic_enable`, `sti` and the
shell, which are written and not called.

Fairness: weak fairness of the processor and the transmitter, strong fairness of
serving a line, because handlers are short against the timer's period and the
controller keeps a request while another line is served.

### `Screen`, `Console`, `Paper` (`MCConsole`, `ConsoleProofs`)

`Screen` has `terminal_putchar` and its parts as functions from a screen (cells,
row, column) to a screen. `Console` applies them one character at a time and
keeps, in a history variable the code does not have, the rows that scroll away.
`Paper` is the promise: a sheet that grows at its lower end, whose pen stays on
the last rows and which only a backspace or a clearing takes from. `P` maps the
rows gone and the rows on screen to the sheet.

### `LineEditor` (`MCLineEditor`, `ConsoleProofs`)

One key per step of `terminal_getline`: typing, rubbing out, recall with the
arrows, completion, Enter. The keys are those `Keyboard` delivers; everything
drawn goes through `Screen`, so a line may wrap and scroll under the editor.
Enter hands the line to a command, which may clear the screen, or print, change the
directory's entries and ask for a line of its own (`asking`, Yakka's `input`), for
which the same function runs again. Both prompts, `> ` and `? `, are the constant
`Prompt`. `EditorAssumption` says that a line never fills the screen above its last
row (128 of 1920 cells in the code). `undefined` records that the code has left an array:
a completed name longer than the buffer's rest, or a directory with more entries
than the completion's array. `Complete` writes and shows the whole name, as the
code does, and `LineFits` says by how much the line is then out of its array
(`Overrun`): what the bytes behind the array do is beyond C, so the model stops
there, as it does when an entry behind the listing's array would be read.

### `YakkaRuntime` and `Yakka` (`MCYakka`, `YakkaProofs`)

`YakkaRuntime` holds what a program works on: the two tables as sequences of
their used slots (slots are never given back), and what was printed. A line is
a record: its first word, a name, an expression. Expressions are the constants,
variables, sums and comparisons of the sessions; a call is a line of its own.

`Yakka` extends it with the interpreter. `execute_program` is recursive in the
code; here its activations are the stack `frames`, and `ExecuteLine`,
`ExecuteCall` and `Return` run one line, enter a function, and end a round or an
activation. A frame points into the program or into a function's array, as the
code's pointers do, so a definition that overwrites a running function changes
the lines its frames have yet to read. `RunText` is `yakka_run_text`; `FeedLine`
is `feed_one_line` with `CaptureLine`, `CaptureEnd` and `FinishCapture`.
`TypeLine` composes it with the shell, which tries a line as a command first,
also in the middle of a captured block: the command modelled is `run`.

`MCYakka` defines what a program means by recursion over its blocks, with maps
for the tables and the body a function had when it was called. `RunsAsMeant`
compares what the machine has printed and stored with that meaning. It excludes
sessions in which a function is defined again while it runs (`clash`), blocks
too long for their arrays, and, for typed lines, blocks within blocks, which
`TypedRunsAsFile` adds and the code violates.

Fairness: weak fairness of `Execute`; the interpreter runs in the shell's call
and only interrupts preempt it. Nobody has to type. `MaxCalls` stands for the
kernel's stack; a behaviour that needs more calls ends there (`StackLimit`).

### `Lexer` and `Expression` (`MCExpression`, `ExpressionProofs`)

`Lexer` reads a line of characters as tokens, with the limits of the code's
arrays and the `int` of `katoi`. `Expression` is the parser, which computes
values as it reads, with the library it calls. The activations of `parse_or`
down to `parse_primary` are a stack of what each waits for: the right side of an
operator (with the operator's level), the operand of a minus, a closing bracket,
the next argument. `Shift` and `Combine` are the loops of the five levels;
`Calls` gives the outcomes of a builtin, with files as a map from paths to
contents, random numbers and the clock as any value of their range, and a user's
function as one that counts a variable up (running its lines is `Yakka`'s). `mode`
becomes `"undefined"`, and the machine stops, where the code has no outcome: a
joined text longer than its array, and the least long divided by -1.

`TokensMakeUpLine` says that the tokens and the blanks between them are the line, and
`Complete` that a token stops only where its characters do or at its limit.
`InputAssumption`: lines and files are texts over `Char`.

`MCExpression` knows no stack: `Denotes` reads an expression from the last of its
loosest operators outside all brackets. It threads the calls and what they left
through the line, so a call made twice, not at all or in another order than
written makes the value differ, or the log.

### `BasicFacts`

Lemmas shared by the proofs: naturals (least and greatest elements, induction over
sets of naturals, division), the community modules' `Min` and `Max`, and sequences
put together or cut.

## Runs

| Run | Instance | What it shows |
|---|---|---|
| `ramdisk_tree` | 4 slots, two names, relative and absolute paths with `.` and `..`, arrays of one byte | shape of the tree, loops and namesakes only by the moves that make them, `pwd` leads back |
| `ramdisk_data` | 3 slots, arrays of 3 bytes, 32 command lines and 35 lines of words and quoted texts, direct calls with 4 paths and 3 texts | arguments arrive; content of files over writes, copies, reuse and failures; messages are true |
| `ramdisk_rename` | 3 slots, two files | renaming a file to itself deletes it: expected violation |
| `keyboard` | ring of 3, letter, two shifts, enter and print screen, 3 strokes | characters and flags over every interleaving, refinement of `KeyQueue`, wake-up; the ring fills and loses its keys |
| `heap` | 11 granules of 4 bytes, word of 64, seven request sizes, two of them next to the word's end | tiling, ownership, room, forward joins |
| `pmm` | 6 to 10 pages of 4 bytes, nine boot reports | ownership, counter, kernel pages, existing memory, panic |
| `startup` | timer, keyboard and a device of the second controller, one exception of two kinds, one spurious interrupt, messages of two characters, loop or session | no stop by devices, log and screen to the character, end of the start, requests served |
| `console` | 3 rows of 4, two tab stops, a letter and a blank, one row scrolled away | cursor, backspace, refinement of `Paper` |
| `editor` | buffer of 6, history of 2, listing of 2, two letters, a prompt of two, screen 3 by 4, seven keys | the screen shows the line, history, recall, completion |
| `yakka` | all sessions of up to 4 lines from 7, the closed ones of 5, and 15 longer ones, each from a file and typed; 2 variables, 2 functions of 4 lines, captures of 5 lines, 3 rounds, 2 nested calls | meaning of blocks, capture against nesting, return to the shell |
| `yakka_typed` | as above | a typed block inside a block loses its end: expected violation |
| `expression` | all lines of up to 4 tokens of 10 and up to 6 of 6, chains of every pair and triple of operators, 31 chosen lines; longs of 6 bits, ints of 5, texts of 4 | value, order and number of calls, errors, tokens |

Bounds. Four slots hold a loop of two directories, a directory beside it and
one slot that is freed and reused, which every hazard of the table needs. Three
bytes per file are a text, its NUL and one stale byte. A ring of three slots is
filled by two keys and emptied by the third. Eleven granules hold three blocks
and the header of a fourth. `MaxStrokes` and `MaxKeys` bound key presses: seven
keys fill the buffer, wrap and scroll the screen, enter two lines and recall
one. Three rows of four wrap and scroll with a line shorter than the buffer;
`MaxAbove` bounds the rows that scroll away, which nothing looks at but `Paper`.
Five lines hold two nested blocks; the longer sessions hold calls in calls,
redefinitions, full tables, a full capture and counts out of range. `MaxOut`
bounds what is printed and no session reaches it. `MaxFaults` and `MaxSpurious`
are one: both end in panic. Messages of two characters (`Ends`, `PanicSize`) have
a first one, a last one and a place between them, on the screen and on the port.
Six tokens hold a call with an argument, a nested
call, and every way to leave a bracket open.

`CHECK_DEADLOCK FALSE` is used where the machine really may stop: a panic in
`pmm` and `startup`, a recursion that does not end in the RAM disk's runs, a
bound in `console`, the last key in `editor`, the last line in `yakka`, the end
of the line in `expression`.

An invariant named for a whole component (`TreeSound`, `HeapSound`, `PagesSound`,
`StartSound`, `ScreenSound`, `LineSound`, `YakkaSound`, `ParserSound`) is the
conjunction of its type invariant and the invariants stated beside it.

### Findings

* `fs_move` frees the node at the destination (line 279) before it rewrites the
  source, and does not ask whether they are the same, so `rename f f` prints
  `Renamed` and the file is gone (`ramdisk_rename`).
* `feed_one_line` stores the head of a block typed inside a block but not its end
  (line 237 returns before line 244), so when the block runs, its inner block
  takes in all lines behind it (`yakka_typed`).

Disagreements seen while modelling that have no run of their own:

* `yakka_self_test` looks for the words `ok` and `fn` in the output of `print ok`
  and `print fn`, which print two unset variables as 0
  (`interpreter.cpp:358-373`). The program is among the sessions of `yakka`.
* Vector 47 has the handler for spurious interrupts (`idt.c:85`); those of the
  first controller come on vector 39, whose gate panics. `DevicesNeverPanic`
  excepts them for that reason.
* `isr_stub.S:48` says the exception's number is printed; all vectors but five
  push 255, which the test behind it skips. In `Exception` only vectors 0 and 8
  are printed.
* `tests/run_tests.sh:21-26` looks for lines that no boot prints: nothing calls
  `kernel_self_tests`, and `kernel_main` prints its steps, which `StartSound`
  describes.
* `write d` without a text prints `Written` whatever `fs_write_file` returned
  (`commands.cpp:221`), and `rename f f` prints `Renamed` of a file that is gone
  (`commands.cpp:271`, the finding above). `MessagesAreTrue` claims nothing of these
  two. Of a copy it claims the content at the destination; of a move (`MoveArrives`)
  that the node is kept with its content and found at the destination, unless the
  destination's path goes through the node itself or names two entries.
* Without a space in the line the start of the last word stays at the line's end
  (`shell.cpp:39-49`), so the branch of the completion that looks at commands is
  never taken, and a tab behind `li` appends a file's name to it.
* A text of exactly 63 characters in quotes is followed by an empty argument,
  its closing quote being read as the opening of the next (`commands.cpp:35`).
* `had_error` is set by the parser and read by nobody: a broken line still gives
  a value and makes its calls.

## Proofs

TLAPS checks, for every value of the constants under the modules' assumptions:

* `RamDiskProofs`. `TreeCorrect` (types and shape of the tree): resolving a path
  needs the used slots closed under parents, and freeing a subtree keeps them
  closed because a subtree is the least set closed under children and is entered
  only at its top. `LoopsStayOutOfReach`: the tree's connected part is closed under
  `child_of` and `..`, so a path from a connected current directory ends in it, and
  no node of it is on a loop. `LoopsBySelfMove`: a node stays connected through its
  chain of parents, which a step can cut only at the slot it moves; if the new parent
  is not below that slot the chain is mended there. `NamesDistinct`: a creation is
  made only where the name is free, and a move is the only other step that names.
  `FailuresHarmless`, `OnlyWriters` and `WritesReadBack`, each by cases on the calls:
  what `fs_write_file` leaves in the array is the text, a NUL and old bytes behind
  it, and the read stops before them. `PwdIsRight`: along the parents of a connected
  directory `build_path` lists the names, and resolving them from the root goes the
  same way back, because `child_of` finds the only entry of that name; the induction
  runs over a set of naturals (`SetInduction`).
  The commands, in the same module: `WordsArrive`. A meaning's line grows by one
  typing at a time (`LineEquation`), so each word stands in it behind those before
  (`WordsStand`); there `split_args` takes the word whole and goes on behind it
  (`WordIsTaken`), so what it makes of the rest of the line is, from the end back to
  the start, the texts of the words from there on (`AllTexts`). `MessagesTrue`: the
  tree's invariant is kept by commands and direct calls, and each message makes only
  claims (`ClaimsTold`) that the call before it has left true: a copy's text is the
  source's, at the destination's path; and the walk to a moved node's destination
  takes the same steps as before the move, unless it went through the node
  (`RehungIsFound`).
* `KeyboardProofs`. `KeyboardTyped`, `SleepIsInterruptible` (interrupts are off
  exactly between `cli` and `sti`), and `RingImplementsQueue`: storing is `Put` and
  polling is `Take` on the unread keys, by cases on where the ring wraps.
  `TypingIsRead`: the property speaks of an empty wire, so the invariant says where
  the bytes on the wire will lead (`Leads`, a trace of decoder states): to no
  prefix pending, to what was meant behind what is seen, and to the shift flag the
  held keys ask for. A press and a release extend the trace at its end
  (`PressLeads`, `ReleaseLeads`, by the forms of `Sends`), an interrupt takes its
  first byte off, and the reader moves keys within what is seen.
* `MemoryProofs`. The heap: `HeapCorrect` (types, tiling, ownership; inductive together, since a
  split needs that no header lies inside a free block and a join needs that all
  headers it swallows are free), `LiveStay`, `HeapEnough`, from which the requests
  that wrap are excepted, and `FreeJoins`: the loop of `kfree` ends at a block in use
  or at the end of the heap.
  The pages: `PagesOwned`, `PanicWhenFull`, `KernelStaysKept` and `PagesAreThere`.
  The invariant is types, counter, ownership and panic together: the counter stays
  natural because the page that is freed is in the counted set, and a page is a
  caller's because callers free only their own.
* `StartupProofs`. `DevicesHarmless`: the invariant ties the interrupt flag to the
  shell, the shell to the last step, and the steps to the gates and controllers; a
  quiet state follows quiet ones only. `StartTold`: the invariant (`LogSound`) counts
  the characters of the start and of a panic that have gone to the port, and the one
  that may have gone to the screen alone; log, screen and what is still to be printed
  are functions of these numbers (`LogOf`, `ScreenOf`, `Letters`), and each step
  moves one of them by one. An exception fixes the first and starts the second at 0.
* `ConsoleProofs`. `ConsoleSafe` and `ConsoleIsPaper`, the refinement of `Paper` by
  `P`, for every screen and set of characters. With the rows gone and the rows on
  screen as one sheet, a character, a tab, a line end with or without a scroll, a
  backspace and a clearing are each shown to be one move of the pen; row and column
  of a cell come from division (`DivFacts`).
  The line editor, in the same module: `EditorFits` (the line leaves its array by a
  completion only, and by no more than the name), `CompletionAdds` and `RecallShows`,
  by cases on the keys. `HistoryKept`: the lines that count
  (`Distinct`) are numbered from the newest (`Recalls`), and one more line shifts the
  numbers by one while `history_add` appends it and drops the first. `LineIsShown`: a
  character put stands behind the line wherever the row wraps and unless the screen
  moves up, in which case all of the line moves with it (`ShownShot`); text is carried
  through by induction over a set of pairs of a count, or a prefix, and a screen
  (`WriteInduct`, `WriteGrows`). `LineIsSound` bounds what stays behind the cursor;
  the invariant `Trails` relates it to the column where the line starts: blanking
  starts in the first column and so misses as many cells of the old line as it had
  been indented in the cursor's row, and these and the older ones are in that row and
  together no more than the prompt. Its hypothesis `Tidy` says that the prompt has no
  control characters and that commands end their lines, which all of them do: only
  `kprintf`'s own buffer, which cuts a longer text, can take the end of a line away.
* `YakkaProofs`. `YakkaSafe`: tables, output, capture, program and frames stay in
  range, and the number of open blocks of the lines typed is the depth the capture
  counts. A frame points into a program or a function that is there, also after the
  function has been defined again; the blocks open are the largest balance of heads
  and ends over the suffixes of the lines, which one more line moves by one or not.
* `ExpressionProofs`. `TokensAreLine`: the scanner's recursion satisfies its equation
  (`ScansEquation`), every token takes at least one character, and from the end of the
  line back to its start the tokens from a place on make up the rest of the line.
  `ParserSafe`: types alone are not inductive, since a call's arguments are used only
  when its bracket closes. `ParserInv` therefore says of each frame what it holds and
  that levels grow towards the top, of a bracket about to close a call that the call
  is on top, and of the log that the files are what its entries leave (`LeftIn`). What
  a builtin may return, store and write is described for all typed arguments
  (`Lawful`, `CallsLawful`).

The assumptions are those of the modules. `ScriptAssumption` says that the lines
typed and the programs run are sequences of `Lines`, and `MaxRepeat > 0` is true of
the code's 10000. Each assumption is evaluated by TLC in the runs of its module.

What a recursive function computes is used through its defining equation, which is
proved first (`WalkEquation`, `WriteEquation`, `ScansEquation`, `ArgsEquation`, ...).
That there is a function with such an equation is shown once for numbers that fall
and once for places that grow (`CourseOfValues`, `CourseFromTheEnd` in `BasicFacts`),
for any values, given steps and base as functions; induction is over sets of
naturals (`SetInduction`, `FromTheEnd`).

Only model-checked: liveness (`Drains`, `StartEnds`, `RequestsServed`, `Halts`),
which is out of the prover's reach, and `RunsAsMeant`, `ValueIsMeaning` and
`ExpressionsAreRead`, whose meanings are RECURSIVE operators over programs and
expressions. Every other property of a passing run is a theorem.

## What is left

A map from paths to contents as an abstract specification of the RAM disk,
implemented by sessions that move nothing into itself; its parts that need no such
map are proved (`OnlyWriters`, `WritesReadBack`, `FailuresHarmless`, `PwdIsRight`).

## Not modelled

Boot code (one mode switch; the file in this commit stops in the middle of an
instruction); formatting and colours; power, which ends the run or waits for the
keyboard controller and has no caller; the process table and the scheduler, which
nothing calls; files whose functions have no body. The clock is not modelled
either: its fields are read one after the other, so a reading across the turn of
a second mixes two times, but nothing decides by it. Directories deep enough to
fill the buffers of `pwd` and `tree` are beyond the instances, and what a listing
of more than 32 entries prints is left open (`Listed`). `PROJECT.json` gives the
reason for each part.
