# A verification project for MPX ("Macaroni OS")

This directory models the operating system in `src/`: the boot with its tables,
interrupts and memory; process control blocks and queues, the dispatcher, the
command handler and the processes it runs; what the commands read from a line;
the real-time clock with the programs that read and set it; and the line editor
of the serial port. TLC checks the models on small instances; TLAPS proves the
main safety properties for every value of the constants.

Commands, from this directory: `tlc -config MpxSafety.cfg MCMpx` checks a run,
`tlapm MpxProofs.tla` a proof. `PROJECT.json` lists the runs, the seeded faults
each property was tried against, and the source lines of every definition.

## 1. Inventory

| component | source | state | operations | module |
|---|---|---|---|---|
| process control blocks, four queues | `kernel/pcb.c`, `include/pcb.h` | the blocks; ready, blocked, suspended-ready, suspended-blocked lists | `pcb_setup`, `pcb_find`, `pcb_insert`, `pcb_remove`, `pcb_free` | `Pcb`, `Queues`, `PcbLinks` |
| dispatcher | `kernel/sys_call.c`, `sys_call_isr.s` | `curProc`, `sysStackPtr` | `IDLE`, `EXIT` (`READ`, `WRITE` return to the caller) | `SysCall` |
| boot, power-off, halt | `kernel/kmain.c`, `core-asm.s` | none of its own | set up the machine, create command handler and idle process, dispatch, power off | `Boot` (up to the first process), `Mpx` (from there) |
| tables and interrupts | `kernel/core-c.c`, `include/mpx/*.h` | GDT, IDT, the masks of the controllers, the interrupt flag | `gdt_init`, `idt_init`, `irq_init`, `pic_init`, `sti`, `kpanic` | `Boot` |
| kernel memory | `kernel/core-c.c`, `lib/core.c` | two addresses that grow, the frame bitmap, the page tables | `kmalloc`, `get_page`, `new_frame`, `vm_init`, `sys_alloc_mem` | `KernelMemory`; the heap also in `Mpx` |
| command handler | `kernel/comhand.c`, `user/exit.c` | the line | read, yield, execute | `Mpx`; the choice of the command `Arguments` |
| process commands | `user/pcb/*.c`, `user/loadR3.c` | none of their own | block, unblock, suspend, resume, priority set, delete, load | `Mpx` |
| show | `user/pcb/showPCB.c` | none | list the processes of a queue, of all, or one | `Show` |
| test and idle processes | `user/core.c` | a loop counter | print, yield, exit | `Mpx` |
| alarms | `user/alarm.c` | time and message of each | yield until due, display, exit | `Mpx` (process), `Clock` (decision), `Arguments` (its line) |
| clock | `user/clock.c` | the RTC's registers | show, set, the time-zone correction at boot | `Clock`; the texts `Arguments` |
| arguments of commands | `user/clock.c`, `user/alarm.c`, `user/pcb/setPriority.c` | none | read a time, a date, a priority | `Arguments` |
| strings and numbers | `lib/string.c`, `lib/stdlib.c`, `lib/ctype.c`, `kernel/itoa.c`, `itoBCD.c` | the pointer of `strtok` | `strcmp`, `strncmp`, `strtok`, `atoi`, `itoa`, `itoBCD` | `Text` |
| serial line editor | `kernel/serial.c` | the line buffer, two indices | `serial_poll` | `LineEditor` |
| help, version | `user/help.c`, `user/version.c` | none | print | none |

**How they interact.** The command handler calls the process commands, which
call `pcb_find`, `pcb_remove`, change a field of the block and call
`pcb_insert`: the queues are shared state between the commands and the
dispatcher. Processes reach the dispatcher by `sys_req` (interrupt 0x60) and
nothing else; the dispatcher saves the caller's stack pointer in its block, and
returns another process's. `kmain` waits below all of them in `sysStackPtr`.
The clock runs by itself; programs poll its registers. The terminal at the
serial port is a second copy of the line that is edited. `kmain` sets all this
up, in an order that matters: the dispatcher and the queues have no protection
but that no device is ever heard, and everything allocated relies on the pages
`vm_init` has mapped.

**What is hard.**

* *Interleaving.* Every device interrupt stays masked and 0x60 is an interrupt
  gate, so there is no preemption: a program gives the processor away only in a
  system call, and a system call is one atomic step. But the command handler
  yields between reading a line and executing it (`comhand.c:67`), so the
  processes the line names may have run, exited or been created in between;
  and every command may find a process at any place where it yielded.
* *Protocol of calls.* `pcb_insert` and `pcb_remove` pick the list from the
  states of the block. Every caller has to remove before it changes a state and
  insert after, and the links that remain in a removed block must be clean.
* *Lists taken apart while they are walked*: `resume all`. *Loops that move
  their own bound*: mapping the memory in use takes page tables from that memory.
* *Two records of one thing*: the frame bitmap and the page entries; a list
  walked by its links and printed by its names (`show`).
* *Processes identified by name*, with a test for uniqueness that does not see
  the running process.
* *A clock that ticks between two register reads.*
* *Three copies of a line* (buffer, length, terminal) under arbitrary keys.
* *Numbers in texts*: fields that need not be digits, widths, tests that leave
  a digit out.
* *Ends*: exit, shutdown, panic, a full heap, nobody ready.

There is no persistence, so a restart begins in `Init`; there are no messages
and no timeouts other than the alarms.

**What makes each component correct.** Memory: tables, frames and blocks do not
overlap, what the kernel uses stays where it is when paging goes on, what is
given out is mapped. Boot: no device interrupts, every fault has a handler and
is heard. Queues: the lists implement sequences; a
block is in one list, the one its states name; the ready list is sorted, first
in first out among equals. Dispatcher: it takes the best ready process, the
context it restores is the one that process saved, nobody is lost, it returns
to `kmain` only when nobody is ready. Commands: each moves one process along
the state diagram (`Lifecycle`); the walking ones leave nobody out. System:
exit ends in power-off; no process starves. Clock: registers always valid; a
read is never behind the clock; an alarm that was due does not sleep on; the
zone correction is four hours. Arguments: what is printed can be typed and means
the same. Editor: terminal, buffer and what the caller
gets agree; nothing but the buffer is written.

## 2. The modules

    Pcb            queues as sequences; operators, no state
      SysCall      the variables of the kernel; IDLE and EXIT
        Mpx        kmain, the command handler, commands, processes: Next, Spec
          Show     what the show command prints
          MpxProperties    invariants, action and liveness properties
            MpxClaims      what comments promise and the code does not do
              MCMpx        instances
      PcbLinks     the linked lists of pcb.c;  implements  Queues
    Lifecycle      the state diagram of a process;  implemented by  Mpx
    Clock          clock.c, alarm.c against a ticking clock;  MCClock
    LineEditor     serial_poll and the terminal;  MCLineEditor
    KernelMemory   kmalloc, the frames, vm_init, sys_alloc_mem
      Boot         kmain to the first process, interrupts, over KernelMemory;  MCBoot
    Text           lib and the conversions, operators, no state
      Arguments    what comhand and the commands read from a line;  MCArguments
    PcbProofs      facts about Pcb
      MpxProofs    the inductive invariant of Mpx; Mpx implements Lifecycle
        StepProofs         what a step may do: losses, order, loads, resumption
      PcbLinksProofs       the pointers implement the sequences
    BootProofs     the inductive invariant of Boot
    ClockProofs    the inductive invariant of Clock, the correction of the zone
    LineEditorProofs       the inductive invariant of LineEditor
    ArgumentsProofs        facts about Text, the inductive invariant of Arguments

**Pcb, SysCall, Mpx.** A control block is named by its number in order of
allocation (the heap only grows, so this is its address order); `pcb` is the
table of blocks, `queue` the four queues as sequences, `curProc` the C variable
of that name. `cpu` is the context on the processor, a label for the place in
the program with the one local that lives across a switch; `pcb[p].ctx` is the
one saved on the stack of `p`; `sysStack` is `sysStackPtr`. An action is the
stretch of a program from its label to its next system call that may switch:
`ComRead` reads a line and yields, `ComBlock`, `ComPriority`, ... execute it,
`ProcIterate` prints and yields. A command line is a record of the operation
and the name or number it carries: parsing is left out, and a line a command
refuses for its form is `none`. Loops over several processes (`load`, `load
suspended`, `resume all`) are one action per iteration: nothing can come
between two of them, but properties may look there. `status` says what stopped
the machine, `output` counts the lines a test process has printed (it exists
for `ResumesWhereItYielded`), `heap` counts bytes in units the configuration
chooses.

**Lifecycle** has one variable, the class and state of every process, and says
which command may take a process from which state to which. `Mpx` implements
it: `FollowsLifecycle` maps a process to "running" if it is `curProc`, to the
queue it is in, or to "gone".

**Queues, PcbLinks.** `Queues` has the queues as sequences with `Pcb`'s
operators; `PcbLinks` has `head`, `tail`, `next` and `prev` and the branches of
`pcb_insert` and `pcb_remove` as they are written. `ImplementsQueues` maps each
list to the sequence its links spell. Any legal sequence of calls is allowed:
insert a block that is in no list, remove one that is in its own, change a
block that is in none.

**Clock.** `rtc` holds the registers as the device does; a step reads or writes
one of them, and `Tick` may come between any two. `began` and `shown` (the
clock at the start of a task, and all it has shown since) exist for the
properties. The device and its calendar are external.

**LineEditor.** One action per byte that arrives and per branch of
`serial_poll`; `term` is the terminal, which is external. `buffer` is the
caller's buffer with `Around` bytes of memory on either side of it: the loop holds
only `index` inside, so `endOfLine`, and a write there, can be outside. `TakeLine`
is the zero that `comhand` and `exit` add where the result says.

**KernelMemory, Boot.** An address counts page entries of four bytes, so that a
page and a page table have the same length, `Entries`; the loops over addresses
in `vm_init` become loops over pages. `stage` and `i` say which loop is at which
page; `phys` is `phys_alloc_addr`, `tables` the directory, `page` all page
entries, `frames` the bits set. `leftover` is what the memory of a new page
table holds, since `get_page` does not clear it. `Boot` adds the steps of
`kmain` in their order, the gates, masks and vectors, and devices that may ask
for an interrupt (`Raise`) between any two steps; afterwards blocks are taken
from the heap until it is full.

**Show** has no variables: its operators say which blocks each form of the
command prints. `Mpx` sees such a line as `none`.

**Text, Arguments.** A text is the sequence of its characters; `Text` has the
library's functions as operators, `strtok` with its static pointer as an
argument and a result. `Arguments` goes from the prompt to the prompt with one
line, or one conversion, at a time: `comhand` chooses the command, the commands
read their numbers, and `done` is the call they end in, which `Mpx` or `Clock`
takes over.

Definitions marked "Seeded fault" are never used by the specifications: each is
a plausible mistake in the definition after it, under which TLC must find the
property named in `PROJECT.json` violated.

## 3. The runs

| run | bounds | states | shows |
|---|---|---|---|
| `mpx_safety` | 2 test processes or alarms, or one of each, at a time (a heap of 44, 10 to a block); priorities 0..2; every command, on a user process and, where it is refused, on idle | 0.15 M | all safety properties of the system, first in, first out among equals, what `show` lists, and `FollowsLifecycle` |
| `mpx_liveness` | 3 test processes or alarms at once (a heap of 56); load, load suspended, block, unblock, suspend, resume all, alarm, exit | 23 k | exit powers off; nobody starves; `resume all` and `load suspended` leave nobody out |
| `pcb_links` | 3 blocks, 3 priorities, all states | 16 k | the lists implement the sequences |
| `clock_ticks` | 3 ticks, starts before each kind of carry; and no ticks at the ends of the months of a leap cycle; BCD | 1.4 M | races of the programs with the clock; the correction of the time zone |
| `line_edit` | a buffer of 5 and a byte on either side, every key the code distinguishes; as long as the cursors of editor and terminal agree | 0.2 M | editor, buffer and terminal agree; nothing but the buffer is written |
| `boot` | tables of 4 entries, 34 frames, a heap of 3 pages, images of ten lengths, clean and stale memory, lines 0 and 8 | 0.2 M | memory and interrupts, from reset to a full heap; the boot ends |
| `arguments` | integers of 11 bits; all short numbers, fields of digits, signs, spaces and letters; all texts of up to 6 characters for `strtok` | 45 k | the commands read what the user and the clock write |
| `claim_*` | | | the findings of section 6, each violated |

**Why the bounds are enough.** Three blocks are the fewest with a head, a
middle and a tail; three priorities the fewest in which a block goes before,
among and behind others. Two user processes and idle give every pair of
"running", "waiting" and "the command handler" the properties speak of, and the
heap bound lets a third load fail. `proc1` runs for one iteration and `proc2`
for two, so one exits while the other lives. Three ticks are as many as a read
of three registers can meet at its two gaps and one more; the start values are
one or two seconds before every carry (minute, hour, midnight, leap day, end of
year). Ten ends of the image make the loop of `vm_init` need one, two and three
tables, make its last table move the bound of the loop, and exhaust the frames;
allocations of a part of a page and of more than one cross its end; two lines,
one on each controller, are all the masks can tell apart. Integers of eleven
bits hold every byte and every number of three digits, and wrap at four. A buffer of five holds three
characters and the zero: one left of the cursor, one under it and one behind it that
the delete key moves; longer lines repeat these. The zero at the end, the only byte
that a bug can put outside while the line is edited at its end, misses it by one.

**Bounds, by name.** `HeapSize`, `PcbSize`, `AlarmSize` bound the processes
that are created (the code has this bound); `MaxTicks` bounds the clock;
`Size` is the length of the buffer (in the code too: 100, or 2 in `exit`);
`Around` is how far outside the buffer the end of the line is followed, `Leftover`
what the bytes there may hold.
`Commands`, `Settings`, `AlarmTimes`, `Printable` are what the user may type.
In `Boot`, `Entries`, `Tables`, `Frames`, `HeapPage`, `HeapPages`, `SlackPages`
are the code's 1024, 1024, `NFRAMES`, `KHEAP_BASE`, `KHEAP_SIZE` and 0x10000
made small; `KernelEnds` are the ends of the image, `Leftovers` what unused
memory may hold, `Requests` the sizes of allocations, `Lines` of the module
`Boot` the interrupt lines of the devices. In `Arguments`, `IntSize` is 2^32
made small, `Lines`, `Times`, `Dates`, `Numbers`, `Phrases` and `Delimiters` are
the inputs. `Starts` is where the clock begins, with the ticks used up.
`CursorsAgree`, the constraint of `line_edit`: where the line was edited inside and
the terminal's cursor has left the editor's, TLC checks the state and goes no
further; the theorems of `LineEditorProofs` know no such constraint.
`CHECK_DEADLOCK FALSE` in `LineEdit.cfg`, `ClaimArrows.cfg` and
`ClaimLineBounds.cfg`: a line whose end is farther out than `Around` is not
followed. `Mpx` stutters explicitly when the machine
has stopped (`Stopped`, the loops around `hlt`).

**What is excluded from a property, and why.** `ResumesWhereItYielded` does not
speak of the moment when `kmain` has taken the processor back from a yield with
nobody ready: the context of that caller is dropped by the code.
`FifoAmongEquals` does not speak of `priority set`, which links the block again
behind its equals even if the priority is what it was. `NoneStarved` is of
processes of the priority `load` gives; the user can starve others with
`priority set`. `ZoneIsFourHoursBack` leaves the year 0 out (section 6);
`NeverBehind` and `AlarmSleepsOnlyBeforeItsTime` a midnight between two reads.
`UsedMemoryStays` speaks of memory that was zero, `FramesApart` of memory without
a present entry (section 6); `ShownSetsItself` of years of two digits.
`ScreenShowsLine`, `CallerGetsScreen` and `OnlyBufferIsWritten` speak of lines that
were typed and erased at their end only (`~inside`; arrows and the delete key are
allowed), the last of these of the caller's zero only when the buffer was not full:
the code keeps none of them without (section 6).
`FaultsAreReported` leaves out the double fault (section 6).
`CommandByName` says no more than the names of the commands allow: a word that
begins with one is taken for it.

**Fairness** (`mpx_liveness` and `boot`). `kmain` is straight-line code on the
only processor: `WF(Kmain)`, whatever the devices do. Afterwards, the processor
executes the program it is in, so the steps of programs other than the command handler at its prompt are
weakly fair as one action: the code has one thread. A user who sits at a prompt
answers (`UserTypes`, `ConfirmYes \/ ConfirmNo`); which line or answer is not
assumed. Nothing is assumed of the clock: an alarm may wait for ever, and
`ExitPowersOff` says so.

## 4. The proofs

The `...Proofs` modules are checked by TLAPS down to the last step. Those about
`Mpx` hold for every number of test processes, every range of priorities, every
set of commands and every heap (`PcbAssumption`, `MpxAssumption`: naturals, at
least one test process, at least two priorities, a control block has a size);
`BootProofs` for tables, memory, heap, image and allocations of every size and
whatever unused memory holds (`MemoryAssumption`: the heap's addresses are behind
the frames and in the directory, the image ends behind the first page);
`PcbLinksProofs` for any number of blocks, `LineEditorProofs` for a buffer of any
size and any memory around it (`EditorAssumption`: what the user types is not one of
the control bytes, and what is around the buffer is what a terminal can print, or
zero);
`ArgumentsProofs` for lines and texts of any length, every time of the day, every
date of a century, every number that is not negative and ints of every even
number of values that holds three digits (`IntAssumption`, `TextsAssumption`,
`ShownAssumption`, `NumbersAssumption`). Its `SpellingAssumption` is no parameter:
it says how the names in `comhand.c` and `clock.c` are spelled and that no name of a
command is the beginning of another. A prover does not see the characters of a
string; TLC does, and evaluates it in the run `arguments`.

* `PcbProofs`: `InsertAt` and `RemoveAt` element by element; the position
  `pcb_insert` finds (`ReadyPositionProperties`); `EnqueueKeepsGood` and
  `DequeueKeepsGood`: on well-formed queues, `pcb_insert` adds exactly its
  block, `pcb_remove` takes exactly its block out, and they stay well formed.
* `MpxProofs`: the inductive invariant `IInv`, the conjunction of `TypeOK`,
  `OnePlace`, `ReadySorted`, `OnlyReadyRuns`, `NamesUnique`, `CursorAtHead` and
  `ControlInv`; `Invariance` proves it and the theorems after it take the parts
  out. Two action properties follow from it: `DispatchIsBest`,
  `ResumeAllIsComplete`. Its last part is the refinement: the system implements
  the state diagram. `LifeProc` is
  rewritten in terms of the control blocks (`StateIsStage`: by `OnePlace` a
  waiting process is in the queue its states name), after which a step of the
  dispatcher or of a command changes one entry, two or none (`OneMoves`,
  `TwoMove`, `NoneMoves`), one lemma per command.
* `StepProofs`: every step of `Mpx` is a command that moves blocks (`Commanded`),
  a new process (`Created`), a yield, an exit or a stop (`StepKinds`). From this
  follow `NobodyIsLost` and a second invariant, `FullInv`: when `kmain` may have
  the processor (`ShutdownIsLast`), that the saved counter of a test process is
  the number of lines it has printed (`ResumesInPlace`), and that the processes
  the loop of `load suspended` has passed are suspended
  (`LoadSuspendedIsComplete`). `EqualsKeepOrder`: taking a block out keeps the
  order of the others, inserting one puts it behind its equals; one lemma per
  step of the system. `ShowIsComplete`: the search by name finds the block one
  stands on, by `NamesUnique` and `OnePlace`.
* `ClockProofs`: any number of ticks, wherever they fall; any settings. The
  coding and its inverse on the numbers that occur, the calendar, and
  `ClockInv`. `RegistersStayValid` assumes BCD: in binary a negative year is
  stored as it is. `ZoneCorrection` takes the calendar apart: four hours less on
  one day, the day before, the last day of each month (`MonthsFollow`), the last
  day of the year (`YearsFollow`). `ZoneInv` says that `val` and the registers
  agree as long as nothing but the start has been shown; a tick shows something
  else, since it changes the second (`TickIsSeen`), and ends the premise.
* `PcbLinksProofs`: `Represents(Q)`: the queues `Q` are well formed and each is
  spelled by its links, `head` and `tail` naming its ends. A legal call takes
  `Q` to what `Pcb`'s operators make of it (`InsertRepresents`,
  `RemoveRepresents`), so the pointers implement the sequences
  (`PointersImplementQueues`), `pcb_find`'s walk visits them in order
  (`ListIsQueue`) and the chains both ways agree (`ListsAreDoublyLinked`).
* `LineEditorProofs`: `EditorInv`: while the line is typed and erased at its end,
  the bytes before `endOfLine` hold no zero, are what the terminal shows, and the
  two cursors agree. The delete key moves the rest of the line up in both
  (`ClosingShows`, for a rest of any length). Of a line edited elsewhere only the
  types are kept. `BufferKept`: a step from the invariant to the invariant writes at
  `index`, one before it, or at the end of the line, which `InStep` puts in the
  buffer (`StepWritesInside`).
* `ArgumentsProofs`: the operators of `Text` first. `FirstOutsideIs`,
  `StrncmpIsPrefix`, `AtoiReads`; `MaxPowerIs` (the loop that looks for the number
  of digits finds the highest power of ten in the number); `Printed` (`itoa`
  writes digits, as many as that, and `atoi` gives the number back) and
  `GroupsRead` (of a number of two digits, `itoBCD` prints the byte `bin_to_bcd`
  makes). `StrtokNext`: a call of
  `strtok` whose pointer is behind place `n` returns the next word after `n` and
  leaves the pointer behind its end, or returns NULL when there is none. The
  inductive invariant `ArgumentsInv` adds to the properties where the text comes
  from: `LineInv` and `CommandInv` (a line typed after the clock is the name of a
  command and what was shown; after `comhand` it is the rest behind the name),
  `PrintedInv`, and `WordsInv` (the words so far are those up to a place that the
  pointer is behind). One lemma per action.
* `BootProofs`: `MemoryInv`, one conjunct for each stage of `vm_init`, and
  `BootInv` with the order of `kmain`.

**Why the parts need each other.** `OnePlace` must say *which* queue, or
`pcb_remove` is not known to cut the right list. The dispatcher takes the head
of the ready queue, which is the best one only because of `ReadySorted`.
`OnlyReadyRuns` and `OnePlace` together let a yield put the caller back.
`NamesUnique` is not inductive without `ControlInv`: `pcb_setup` does not see
the running process, so one has to know that only `kmain`, before there is a
process, and the command handler, under its own name, create any. `CursorAtHead`
is needed so that `resume all` is about a block that is still queued.

**Why a torn time is not behind.** `NotBehind` has one bound for each register
still to be read: the registers read so far, with the clock's present values for
the others, make a time that is not before the start. A tick only raises the part
that is still the clock's (`NextSecondStep`), because the registers that are left
are the slower ones; a read turns the clock's part into the program's. In the
order hour, minute, second no such bound holds.

**Why the memory is mapped right.** While the loop of the identity mapping is at
page `i`, the frames taken are exactly 0..i-1: so the first free frame is `i`,
and page `i` gets the frame of its own number although `new_frame` never looks
at the number. The tables of the heap are made before this loop, and the table
for page `i` before its frame, behind `phys`; so every table is below the bound
the loop ends at, and no later stage moves `phys`. The frames of the heap come
from what is left, which the bits say: `FramesApart` needs that the bits are
*exactly* the frames of the pages mapped. The rest is arithmetic of aligned
addresses that only grow.

**How a loop is proved about.** The walk along a list, the search for a place in
the ready queue and the bytes that reach the terminal are recursive functions over
an interval of numbers. The proofs give the function that solves the equation,
where it is known (the sequence itself; the screen after each byte), or show that
one exists, and that no other can: at the least place where two solutions differ
they are made from equal parts (`LeastExists`). No induction principle with an
operator as a parameter is needed.

The conversions are proved about in the same way, over all numbers: `LeastExists`
gives that a rule which takes a value from that of a lower number has exactly one
solution (`RecursionExists`, `SolutionsAgree`), which is what `atoi`'s digits, the
powers of ten and the words of a text are defined by. Where a claim needs
induction over `n`, the proof takes the least `n` for which it fails
(`PowerAboveNumber`; in `Printed`, the least place behind which the digits so far
are not the front of the number).

**Why one mistake hides the other.** `priority set` tests digits wrongly twice
(section 6). `DigitSetsPriority` holds because the argument of such a line begins
with the blank and has one more character: the test, which stops before the last
character, sees the blank and never the digit (`DigitRead`).

**Model-checked only.** Liveness (`ExitPowersOff`, `NoneStarved`, `BootEnds`), out
of TLAPS's reach under fairness. The claims of section 6 are counterexamples. Every
invariant and every action property of a passing run is a theorem.

## 5. Not modelled

`help` and `version`, and wording in general: they print text. The command
`create` is not reachable from `comhand`, which prints a message instead. The boot
loader and the BIOS are the state `Boot` starts from; the bits of a descriptor
are left out, a gate is its handler. What a byte outside a
buffer belongs to, and what the program does after it was overwritten, is not
followed. What becomes of a time that is set while the clock ticks is not checked,
only that the registers stay in range: nothing says what `set` promises then. In
`Mpx` a line is what the parser makes of
it; `Arguments` has the parser, without what the line then does. `strlen`,
`strncpy` and `memset` are the length of a sequence, a part of it and a constant
function. `READ` and `WRITE` return the caller's context with -1 and `sys_req`
does the I/O itself, so they are part of the caller's step.

## 6. Findings

Each has a run that shows it.

* `claim_block_missing`: `block` and `unblock` read the state of the block
  before they test that there is one (`user/pcb/block.c:26`, `:95`), and page 0
  is not mapped. The message "Could not find process" is never printed; the
  machine stops in the page-fault panic.
* `claim_shutdown`: `shutdown` returns from `comhand`, whose stack holds no
  return address (`kernel/pcb.c:64-72` puts the context at its very end).
  `kmain`'s clean-up (`kmain.c:104`) is never reached this way; `exit` reaches
  it.
* `claim_time_read`: `get_time` can return a time the clock never showed.
* `claim_arrows`: after an arrow key the caller may get another line than the
  terminal shows.
* `claim_line_bounds`: `serial_poll` writes outside the buffer it was given. Right
  arrow, backspace, Enter: `endOfLine` is -1, and `buffer[-1]` becomes zero
  (`serial.c:117`). A character and a left arrow, repeated, take `endOfLine` past the
  end, where Enter and the delete key then write. Its callers do the same with the -1
  of a full buffer (`buf[nread]`, `comhand.c:62`, `exit.c:27`): with `Size` 2, as in
  `exit`, this is the shortest trace, any one-letter answer.

Met while modelling, without a run of their own:

* `alloc` never returns NULL, it panics (`kernel/core-c.c:322`); `memory.h:14`
  and `pcb_allocate` expect NULL.
* Blocking or suspending everybody ready sends the next yield to `kmain`, which
  powers off while the command handler lives (`sys_call.c:40`).
* `resume all` walks the suspended-ready queue only (`ready.c:117`); its comment
  speaks of all suspended processes.
* The idle process has the lowest priority but is dispatched before a user
  process of the same priority that comes later (`processes.h:43` says it runs
  when no other is ready).
* The zone correction is four hours the whole year (`clock.c:288`); `clock.h:127`
  names EST. In the first four hours of 2000 the year becomes 255, stored as 95.
* An alarm can ring early after a torn read; one set for a time already past
  rings at once; one that gets no turn between its time and midnight waits for
  the next day.
* `set date` checks neither negative years nor the length of the month; `cli`
  does not stop the clock. The comment at `clock.c:112` expects `DD/MM/YY`; code and
  help read the month first.
* A line that fills the buffer ends with -1 and the command handler executes
  what it holds; after a lone
  escape the editor drops every byte until one of A, B, C, D, 3; a deleted
  character comes back when the right arrow walks over it.
* The memory of a new page table is not cleared (`core-c.c:347`), and `new_frame`
  takes an entry with a frame for one that is mapped: the identity mapping is
  right because memory happens to be zero. With other memory in `Leftovers` TLC
  finds `UsedMemoryStays` without its premise violated.
* Vector 8, the double fault, is given to `rtc_isr` (`core-c.c:196`), which was
  IRQ 8 before the controllers are moved to 0x20 and 0x28; a double fault
  does not panic.
* An address that is aligned already is moved on by a page (`core-c.c:370`): the
  test is for any page but the first.
* `show all` leaves out the process that runs, which is always the command
  handler: the lists do not hold it.
* The test for digits of `priority set` refuses 0 and 9 except as the last
  character, and does not look at the last one: `x` sets priority 0
  (`setPriority.c:84`). A long number wraps around.
* The time of an alarm is copied without a zero at its end (`alarm.c:100`), so that
  what is behind it on the stack decides whether it is refused; a line that ends
  with the time has its message behind the line's zero.

## 7. Plan

The alarm as a process of `Mpx` that reads the clock register by register: `Mpx` and
`Clock` side by side, where now `Mpx` lets an alarm find itself due or not and
`Clock` says when it does.
