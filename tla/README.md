# various-concepts in TLA+

The repository is a collection of independent programs: bus interfaces in
SystemVerilog, a Bitcoin miner in RTL and C++, exercises on threads and data
structures, servers and clients, two twins of a predator-prey simulation,
firmware, and numerical examples. There is no program on top of them, so each
program with state of its own is a component here. Some are modelled alone;
the small ones share a state space, one of them in each behaviour, so that a
single run asks all of them the same question.

## 1. Inventory

| component | state | operations | what makes it hard |
|---|---|---|---|
| FIFO, `comms-interfaces/fifo.sv` | 16 words, two 4-bit pointers, a 5-bit counter, the output register | a clock edge with `rst`, `wr`, `rd` | three registers updated separately must describe one queue; writes win over reads |
| Miner FIFO, `rtl-miner/src/Fifo.sv` | the same, the size a parameter | an edge that may push and pop | three blocks, and widths that do not follow `FIFO_SIZE` |
| AXI slave and testbench, `axi.sv` | five channels, latches in combinational blocks, 128 bytes; driver, monitor, scoreboard | handshakes, FIXED, INCR and WRAP bursts, reset | latches that outlive a burst, a 4-bit beat counter, a combinational block that counts, edges both sides wait for |
| AHB, APB, Wishbone memories, `ahb.sv`, `apb_ram.sv`, `whishbone.sv` | state, latches, memory; the driver's task | requests, bursts of four kinds, resets | what one request leaves in the latches for the next; refused requests; drivers that wait without a limit |
| I2C, `i2c.sv` | master and slave memory with a divider each, the line | start, address, data, acknowledgements, stop, reset | two dividers aligned once by a constant; registers without reset |
| UART and SPI, `uart.sv`, `spi_slave.sv`, `spi_master.sv` | shift registers, bit counts, lines | words, resets | two ends that count by themselves, and are reset differently |
| RTL miner core, `Hasher.sv`, `Sha256Compression.sv`, `MinerConfig.sv` | state machine, working variables, output register; AXI Lite registers | blocks, hashes, reset; reads and writes | handshakes on both sides of a long computation; an index beyond its array |
| PubThread, `zeromq/include/pub_thread.h`, `pub.h` | queue, mutex, semaphore, thread, socket | `start`, `stop`, `send`, the `service` loop | several senders on a binary semaphore, a restart, a failed send, `stop` while the thread sleeps |
| sim2 in Rust, `rust-intro/sim2`, and in C, `sim2-gtk` | creatures, counters of each cell, run flag, timeouts | a creature's turn, an iteration, play, pause, configure | counters updated by difference from many places; kills noted by one creature and paid by another; timeouts that accumulate; babies appended to a list that is being walked |
| sim2's language in C, `lexer.c`, `compiler.c`, `program.c` | lexer, stream, syntax tree | two passes over a file, execution | what one compilation leaves for the next; errors that free half a tree |
| Threads, locks, futures, pools, `cpp-concepts` | mutexes, condition variables, atomics, queues, handles | the demonstrations `main` calls | interleavings, spurious and lost wake-ups, memory orders, handles dropped or joined |
| Data structures and algorithms, `cpp-concepts`; C++ miner | tree, order book, vector, trie, coroutines; header and nonce | the loops of their `main` | iterators over what changes, sizes at a boundary, work divided among threads |
| Servers and clients: `io_multiplexing`, `mtls`, `boost-asio`, `socket-programming`, `zeromq`, `grpc-cpp` | connections, sessions, children, pipes | accept, read, write, time out, signals | partial reads and writes, cancellation, signals that do not queue, descriptors that stay |
| Firmware, `stm32-echo-server`, `nanopb` | circular DMA buffer, head, error flags | poll, DMA, error interrupts | a buffer that wraps between two polls, a restart of the stream |

Nothing is shared between components but by inclusion: the miner core includes
its FIFO, hasher and registers, the sim2 window calls the simulation and the
compiler from the GTK main loop (buttons and timeouts are callbacks that never
overlap), and clients call PubThread from any thread. Hardware is driven by its
testbench through ports sampled at clock edges, servers by their peers through
the operating system.

What makes each correct is said by the properties of its run (section 3);
`PROJECT.json` lists the hazards at the lines where they bite.

## 2. Modules

| module | models | notes |
|---|---|---|
| `Storage`, `BoundedQueue` | wrapped pointers, the part of a sequence that is kept; abstract: what a FIFO promises | |
| `Fifo`, `MinerFifo` | the two FIFOs | both refine `BoundedQueue`; the second extends the first |
| `DataTheorems`, `FifoProofs` | the lemmas the proofs share; proofs about both FIFOs | |
| `AxiBurst`, `AxiWrite`, `AxiRead`, `Axi`, `MCAxi`, `AxiProofs` | addresses of a beat in the code's way and in closed form; the two halves of the slave; the slave with driver, monitor and scoreboard; proofs about it | |
| `PubThread`, `PubThreadProofs` | the publisher, and proofs about it | |
| `Sim2`, `Sim2Proofs`, `SimC`, `SimCProofs` | the simulation and its window, in Rust and in C, each with proofs | |
| `SimCompiler`, `MCSimCompiler` | lexer and compiler of the language of the C twin | |
| `Threads` | mutexes, condition variables, and threads at statements: the base of the next eight and of the servers | `demo` names the program, `at` says where each thread is, `mem` is what they share |
| `Counters`, `Handoff`, `Tasks` | `parallel1.cpp`, `parallel2.cpp`, `concurrency_*.cpp`, `thread_pools.cpp`, `atomic.cpp`, `thread_guard.h` | |
| `Market`, `Containers`, `Forks`, `Coroutines`, `Mining` | the order book; trie, vector, unique and the search tree; sorts, searches and sums divided among threads; coroutines; the C++ miner | |
| `MCConcepts` | composes the eight | one program in each behaviour |
| `Async`, `HttpServer`, `Echo`, `PollServer`, `Sockets`, `RepThread`, `Firmware` | asio's operations and coroutines; the mTLS server and client; echo servers, clients, timers; `poll.cpp`; forking and datagram servers; the reply thread and the greeter; the firmware and nanopb | |
| `MCServers`, `ServersProofs` | composes them; proofs about them | |
| `Clocked` | registers that change together at an edge, and the notes of a bench that sends words | `device`, `chip`, `bench` |
| `Serial`, `I2c`, `Memories`, `MinerCore` | UART and SPI; I2C; AHB, APB and Wishbone; the hasher and the registers | |
| `MCBuses`, `BusesProofs` | composes them; proofs about them | one device in each behaviour |

Definitions whose comment begins with "Mutant" are deliberate errors. No
specification uses them; each is put in the place of the definition that
follows it to see that the property it is paired with would notice.

### Fifo and MinerFifo

One step is one rising edge; the inputs are chosen by `\E`. The pointers are
numbers below `PtrRange` and the counter is one below `CntRange`, so that every
addition wraps as the register does. `Contents` reads the `cnt` words from the
read pointer on; it is the refinement mapping to the queue of `BoundedQueue`.
In `fifo.sv` an accepted write excludes a read (an `else if`), in the miner
the memory, output and counter blocks look at `push` and `pop` independently.
`MinerFifo` takes registers, reset, `Contents` and the properties from `Fifo` and
has the rest to itself: the memory's own size, `full`, and what happens at an edge.

### Axi

A step of `Tick` is one rising edge of `clk`. The driver decides what it
drives after the edge (one action per statement of its tasks that waits for an
edge), the registers take the next states computed before the edge, and the
combinational blocks then settle on the new inputs. Variables that a state
does not assign keep their values; they are latches and are modelled as such.
The data block of the read channel has side effects, so that it matters how
often it is evaluated: `Retriggered` says when. All registers change
together before the blocks are evaluated again; this is the order in which a
simulator treats nonblocking assignments of one edge.

The driver uses 4-byte beats with all strobes, so `AwSize` and `ArSize` are 2;
its WRAP tasks, written for eight beats, are generalised to `awlen + 1`. A byte
of data is `<<transaction, beat, lane>>`, so that any displaced, lost
or repeated byte shows. `golden` is the memory that the protocol asks for,
computed from `BeatByte`, the closed form, and never from the code's walk.
`MemSize` stands for 128 and `AddrRange` for 2^32. The monitor's count of
`rvalid` pulses stops at one more than the beats asked for.

### The other buses and the miner core

`Clocked` holds what they share; a step is an edge of the clock a device works
on. For the UART and SPI that is the divided clock: both ends of one `uart_top`
divide the same clock alike and tick together, on two boards (`twoUarts`) they
tick in turn. The bench notes the words accepted and those that came out; a
reset marks the exchange as lost until both ends are at rest, after which the
link must be as good as new.

I2C is modelled clock by clock, since its correctness is a matter of clocks:
`Quarter` stands for the 100 clocks of a quarter of a bit, `Width` for 8 bits.
The line is a value computed from the drivers that are enabled: nobody's is
`Z`, two that disagree make `X`. APB, Wishbone and AHB are each memory plus
driver task; `golden` is the memory a user expects. The combinational
blocks of the last two settle once after an edge, as nothing in them triggers
itself. Data are numbered, so that a stale value shows.

In `MinerCore` the arithmetic of SHA-256 is left open: working variables
stand for the hash they began with, the block and the number of rounds, so that
a round too many or too few, a block replaced too early or a hash restarted
at the wrong moment gives a digest that belongs to no message. The registers of
`MinerConfig.sv` are indexed beyond their arrays; reading and writing there is
nondeterministic over what a simulator and a synthesiser make of it.

### PubThread

A critical section is one step, except where another thread can observe its
middle: `send` raises the semaphore before it unlocks, `stop` afterwards.
`acquire`, the locked removal, the publication and the sleep after an error
are separate. The semaphore is declared binary, and raising one that is
already up is outside its contract. With the standard libraries the program is
built with it then counts, and the model does the same. A failed send
drops its message. An exception of `bind` outside the `try` ends the
process. `accepted` and `offered` are history variables.

### Sim2 and SimC

`Act` is one creature's turn, split by what it does, each with the countdown,
the waking up before it and the burial after it. The action of a creature is
whatever its program answers; the model lets it be any. The two kinds share
one set of operators because the methods come in pairs that differ only in
the counters they touch. In Rust `newborn` is the vector that `iteration`
collects and appends at its end; in C babies are appended to the list that is
being walked, so `turn` runs into them. Buttons and timeouts happen only
between iterations. `printed` is what the audit `sim_check` reports.

### The language of sim2-gtk

A file is a sequence of lines of characters from small classes. The lexer's
table, its line buffer and its look-ahead survive a compilation, as they do in
the code, because `Independent` is about what survives. Compilation is a
function from file and lexer to tree, error or crash; the first pass, whose
loop may never end, is an action of its own.

### Programs with threads, and servers

`Threads` gives mutexes, condition variables with spurious wake-ups, and
`Goes(t, from, to, memory)`: thread `t` at one statement goes to another. A
critical section nobody looks into is one step; `std::lock` and
`scoped_lock` are taken by contract. Memory orders (`atomic.cpp`, in `Counters`) are modelled by
the list of writes to each atomic and, for each thread, the oldest write it
may still see; a release store carries its thread's view to the acquire load
that reads it, and only `seq_cst` accesses agree on one order.
In `Async` a coroutine awaits operations; a cancellation signal reaches the
operation that is pending, and one that completes at the same time wins.
Peers may be slow, may break a connection at any time, or do nothing.

## 3. Runs

| run | states | question and what it shows |
|---|---|---|
| `fifo` | 735 | Is it a queue (`IsQueue`, a refinement), across wrap-around, refusals and resets, do the registers agree, and does a patient reader get the head (`HeadLeaves`)? |
| `miner_fifo` | 735 | The same refinement with push and pop at one edge and a matching size. |
| `axi` | 31,239 | Does memory hold every beat at its address (`MemMatches`), is what is read right (`DataMatched`), are as many beats delivered as asked for, does the response follow the data, is the counting block evaluated once (`OneEvaluation`), does every transaction that can be answered end, and the generator go on (`TxnEnds`)? |
| `axi_two_lengths` | | Violated: INCR writes of one and two beats, and the second goes to the address the first returned. |
| `pub_thread` | 52,929 | Used as `main.cpp` does, is no wake-up lost, is the queue never taken from while empty, does `stop` drain it and return, and does a failed send cost its own message only (`AllOffered`), unless a `bind` throws; used in any way, are messages still in order and once? |
| `pub_thread_early_send` | | Violated: a send while no thread runs (before the first `start`, in TLC's trace) leaves a semaphore that `start` does not clear. |
| `sim2` | 1,670,193 | Do the counters agree with the living at every turn, do prey pay for a lone predator's kills, does a birth need a pair? |
| `sim_c` | 157,703 | Does the audit find nothing but its own count wrong, do counters and list agree also after a second configuration, is everyone counted? |
| `language` | 48,891 | Is a program compiled to what it says and run that way, whatever was compiled before, and does the first pass end for every file in which the lexer finds no error? |
| `concepts` | 239,757 | `Results`: what each demonstration prints. `Exclusive`: what no two threads may have at once. `Computed`: what each program about data computes, but for the inputs and functions its comment names. `Ends`: that they end. |
| `servers` | 309,335 | `Delivered`: what passes through comes out in order, not twice and not from nowhere; nothing is lost in the pipes, the blocking echo and the echo on TLS; the firmware's echo is exact from the first whole poll after an overrun or a restart. `Graceful`: no session dropped in the middle of a write at SIGINT. `Reaped`: no zombie forgotten. `Ends`: who is told to stop stops. |
| `buses` | 243,229 | `Exchanged`: words and hashes arrive once and in order, both ends of I2C stay in step, the registers acknowledge once. `Remembered`: what accesses to each memory do, the Wishbone's forgetting included. `Restored`: what an I2C reset with `w_mem` high costs, and until when. `Answered`: who waits is answered. |

The properties of the last three runs are conjunctions of one named part for
each program (`Exchanged == Linked /\ InStep /\ Hashed /\ Acknowledged`); each
part stands in its module with the code it is about.

### Bounds, and why they are enough

- *FIFOs*: four slots, two words. The pointers wrap after four writes, and all
  fill levels occur; the theorems cover every other size.
- *AXI*: two transactions of two beats in every mode, aligned and not,
  in any order; reads beyond memory, that run out of it, that begin a beat just behind it,
  and of as many beats as the counter has values; one reset at any edge, a master slow to
  accept a response. Two beats have a first and a last one and wrap at 8
  bytes, which an unaligned beat straddles; two transactions are enough for a
  latch to survive from one to the next.
- *PubThread*: two clients with two messages each, two starts and stops. That
  puts three entries in front of the mark of `stop`, and a second start sees
  everything that the first left behind.
- *sim2*: one predator and two prey, or prey only, on two cells, two iterations
  and two timers (Rust); one predator and two prey, a second configuration
  (C). Energies are scaled (4, with a threshold of 2) so that a creature crosses
  the breeding threshold and dies in either state; only comparisons with the
  thresholds depend on the values 100 and 25.
- *language*: files of the shape of `doc/first.txt` with one to two statements,
  nested once, and sixteen odd ones: ended early, gone on after the end, empty,
  absent, wrong; two compilations in a row.
- *concepts*: three turns of each loop, stock 4 for three consumers, two
  permits for four tasks, a pool of two with three tasks, trees of three values and five
  changes, vectors of four changes, three incoming orders, lists of up to four
  numbers, headers of the lengths around 0, 13 to 16 and 29 to 32 words. Each
  passes every branch of the loop it stands for, and has one more thread
  than what is shared.
- *servers*: two sessions, one poll for twenty, two producers, clients,
  visitors, addresses and inquiries, two bytes through a buffer of two, a
  DMA buffer of three with four arrivals, so that it wraps, may be filled between two
  polls, and is looked at again after that and after an error at any point.
- *buses*: words of three bits, two of them and one tick with reset high, so
  that the reset falls at each bit of the first and the second has to arrive; I2C
  with quarters of three clocks, bytes of three bits, three requests and a reset
  at any clock, so that after it one may write and the next read; 16 bytes or words with addresses at both ends, in the middle, unaligned,
  and beyond; three requests, so that a third meets what two have left;
  bursts of one, two and four beats of two bytes, and a pause of an
  unspecified burst after three. The hasher makes four rounds and takes three
  blocks. The same model also holds with words of four bits, quarters of five clocks,
  32 bytes and beats of four.

Deadlock is checked everywhere but in `language` and `sim_c`, where the program
may really hang or stop, and in the two runs that expect a violation.

Restrictions worth knowing. `OneEvaluation` is about beats that are delivered: a read
that is refused has its block evaluated again as addresses pass, which changes nothing
then. `TxnEnds` is about writes and about reads the slave answers in full
(`Answerable`); the others are in the run, and leave the driver or the monitor waiting
(section 6). `AllOffered` and `StopReturns` end with the process when a `bind`
throws, which it may after any failed send. `CompileEnds` is about files the lexer finds
no error in. `Computed` says nothing of the book `executeTrade2` leaves, and
for `parallelFind` it says that the end of the range is answered, match or not. `Delivered` says in its comment what may be lost,
and by whom. `KillsCovered` and `AuditClean` are about a single
predator: two may both feed on one prey, and the kill that is left over
strikes the next prey to pass. `CountersAgree` of `sim2` is about one
configuration. `CellsKept` excludes what follows an I2C reset with `w_mem` high, which
`Restored` is about: until the next write is over each cell that is read is
lost, the others are kept, and a lost one is good again once it has been written.
`AhbAnswers` says what an unspecified burst leaves behind. `Ends` of `concepts`
excludes the demonstrations that spin or wait for a notification that may be
missed, and a search no nonce can end.

## 4. Fairness

- `Fifo`: the clock never stops and the reader goes on asking (`ReaderAsks`).
- `Axi`: the clock never stops and a slow master accepts at last (`Accepts`). No
  channel gets fairness of its own.
- `PubThread`: a thread inside a call goes on when it can. Nobody has to
  call anything. Weak fairness is enough although the mutex is contended,
  because sends are bounded and the mutex is therefore free at last.
- `SimCompiler`: the first pass, once begun, is not abandoned (`Find`).
- `concepts`: weak fairness for each thread, the scheduler's; none for the
  order in which threads get a mutex.
- `servers`: weak fairness for each thread or process and for time (timers
  expire, resolutions end). Peers, signals and the network get none: they may
  do nothing for ever.
- `buses`: weak fairness for the clock edges at which the bench asks for
  nothing new; the receiver of hashes is ready at those. Registers
  and the APB memory get none, the APB driver waits for nothing.

## 5. Proofs

Eight modules hold theorems; they hold for every value of the constants that the named
assumptions allow.

`DataTheorems` has the lemmas the others rest on: which slot follows which, that
slots less than a full turn apart differ, what `Contents` becomes when the
pointer, the counter or one slot changes; what `Kept` (the elements of a sequence at
some places, in order) and `Tally` (how many elements are in a set) become when
a sequence is extended, cut, changed at a place or joined to another, and that
`Kept` keeps the order (`KeptOrder`). Those on quotients and
remainders (`Remainder`, `NextRemainder`, `RemaindersDiffer`) are for what wraps.
`Kept` is recursive over data. The library's induction rules take an operator and cannot be
used here; `NatSetInduction` states induction for a *set* of numbers, from
the least element of its complement, and that is enough for a recursive function.

`FifoProofs`, from `FifoAssumption`:
1. `TypeInvariant`: inductive by itself: a write is accepted only below the
   depth, a read only above zero, so the counter never wraps.
2. `PointersInvariant`: inductive relative to the first: the write pointer is
   `cnt` slots after the read pointer, and the slots between have been written.
3. `ImplementsQueue`: `Spec => IsQueue`. A write appends to `Contents`, a
   read hands out its head, a reset empties it, a refused edge is a stutter.

For the miner's FIFO it has `MinerTypes` for any `FIFO_SIZE` above zero, smaller than the range of
the pointers (a word written beyond the memory is lost, one read there is x) or larger, and `MinerPointers` and
`MinerImplementsQueue` under `Matching == FIFO_SIZE = PtrRange`, which the
default violates (section 6). The step is split by what is served: a write, a read, both,
or neither. A write or a read alone is the step `Write` or `Read` of `Fifo`, whose lemmas
are cited; both together is the queue's `PushPop`.

`PubThreadProofs`, for any number of clients, messages and restarts:
1. `TypeInvariant`, with `Taken` (the message being published is no end mark).
2. `SemaphoreInvariant` and `QueueNeverEmpty`. Neither `SemCounts` nor
   `NeverEmpty` is inductive: the count of the semaphore depends on which
   sender is between its push and its release and on what `stop` has
   done. `Inv` is `TypeOK`, `Taken`, `Locked` (the mutex is held exactly by a sender
   inside `send`), `SemCounts`, and `CarefulUse`, which says for each of the phases
   `Idle`, `Running`, `Ending` and `Up` what is in the queue and where the
   end mark stands.
3. `StopDrainsQueue`: with `Inv`, `Accounted` says that what was accepted is
   what was offered, then what is in hand, then what is in the queue before the mark.
4. `MessagesInOrder`: the same for any caller, careful or not, with `bind` and
   `send` failing. `InOrder` with `TypeInvariant` is inductive; end marks may
   stand anywhere in the queue, so the step needs what `Kept` makes of a queue
   that is extended or loses its head.

`ServersProofs`, for any number of sessions, clients, polls, messages and bytes. One
program runs at a time, so each has an invariant of its own:
1. `HttpGraceful`, from `HttpServerAssumption`. `Polls > 0` (the code polls twenty
   times): with none, `handle_signals` would give up before anyone has answered.
   `Graceful` is not inductive; `HttpInv` adds that the listener is not
   waiting any more once the signals are handled, that no operation is
   aborted before a task is told twice, and that who is registered and not yet
   told is still owed a signal.
2. `HelloReaped`: `HelloInv` adds that a child that has ended has raised a signal or is
   about to be seen by the handler (signals of two children merge, so nothing stronger
   holds), and which sockets are open at each statement of the parent.
3. `ServersDeliver`: `Heard`, `Echoed`, `Replied`, `InTurn`, `EchoesBytes`, each with the
   losses its comment allows. `PollInv` follows
   each message from producer through pipe to consumer (what was read, then
   what is in the pipe, is what was written); `EchoInv` the bytes of a session in
   hand between a read and its write; `FirmwareInv` (from `RxBufferSize > 0`) the
   slots of the ring between `pollRxStream`'s position and that of the DMA, and, from an
   overrun or an error on, what has still to happen before the echo is in step again.

`Sim2Proofs`, from `Sim2Assumption`, for a grid of any size, any number of creatures,
any program, any order of buttons and timeouts:
1. `CountersAlwaysAgree`: `CountersAgree` as long as there has been one configuration
   (with two it is false, section 6). `BabiesLive` is the one further assumption: the
   energy a baby starts with (100) exceeds what its first rest costs (1); without it a baby could be buried that was never counted. The
   counters are changed by difference from a dozen places, each by looking
   at one creature before and after. So `Agreement` counts, per cell and kind, the
   living (`Counting`) over the vector *and* the babies not yet appended; `Lively` says
   that who has still to act is alive, which the removal at the end of an
   iteration relies on; `Vacant` is what the first configuration needs.
   Each method has a lemma that says by how much it shifts the counters and that
   the creature shifts by the same (`...Shifts`, `Balances`).
2. `BirthsNeedPairs`, for at most one configuration (`MaxConfigs` 0 or 1): from
   `Agreement`: the counter a breeder looks at counts its partner.
3. `KillsAlwaysCovered`, for at most one predator (`PredNums \subseteq {0, 1}`; with two it is
   false, section 3). `Coverage` adds that the predator is the first of the
   vector (`Lone`), that no kill is pending when its turn comes (`Early`), and
   that pending kills do not exceed the visible prey still to take their turn in
   the cell (`Due`), which is what pays for them.

`SimCProofs`, from `SimCAssumption` (sizes are positive, the numbers of the code natural,
and a creature is born fit to breed, 100 against 25), for a grid of any size, any numbers
typed, any programs, any order of buttons and timeouts:
1. `CountersAlwaysAgree`: `CountersAgree`, unlike in Rust for any number of configurations,
   since `sim_config` clears the grid. `Consistent` is `Typed`; `Counting`, each
   counter is the number of the living of its cell and kind, over the list that already
   has the babies in it; `Lively`, who has still to act is alive, so that the removal
   of the dead changes no counter; and `Numbered`. As in Rust
   each function of `sim.c` has a lemma that says by how much it shifts the counters and
   the creature (`...Shifts`, `Balances`).
2. `AllButTheLastCounted`: `EveryoneCounted`. `Numbered` says that `number` counts the turns
   taken, and that two babies of the last creature of the list may be over. `Total`,
   which the audit compares with it, is a recursive function over sets of cells; that
   it is the length of the list (`TotalCounts`) is an induction on their cardinality.
3. `AuditAlwaysClean`: `AuditClean`, for at most one predator (`Predators \subseteq {0, 1}`;
   two may be fed by one prey, who dies once). `Audited` adds to `Consistent` that no second predator is ever
   born (`Lone`) and `Pending`: in a cell with a kill nobody has died of there is just one
   such kill, and a visible prey of the cell has its turn before the predator has its
   next (`Before`), whether that is in this iteration or in the one after. Across
   iterations this rests on the list keeping its order when the dead are removed.

`BusesProofs`, from the assumptions of the modules of `buses`: `X` and `Z` are
different and no bits; sizes are positive, a quarter of the I2C period is longer than two
clocks, a hash takes more than two rounds; a single burst has one beat, as in the tasks
that send it (ahb_test.sv:146, :172). One device runs at a time, so `BusesInv` has
an invariant for each:
1. `BusesExchange`: no word arrives that was not sent, bit for bit. After n bits the last n
   places of the receiver's shift register hold the first n bits of the word
   (`Taken`), as long as both sides count the same bit. In I2C the two sides
   divide the clock on their own: `I2cBits` says that both dividers are at
   the same clock of the same bit, and who drives the wire with what.
2. `BusesRemember`: a read of APB, AHB and I2C gives what the requests before it wrote, one
   of the Wishbone memory what the idle state fills it with. `ApbInv` and `WbInv`
   relate the request on the wires to the state the slave serves it in. `AhbInv`
   does so for a burst, whose next beat arrives while the slave serves the one before;
   `BeatWalk` shows that the slave's walk over the bytes of a burst arrives
   where the closed form says, wrapping included. The count of beats is in step only until a
   burst of unspecified length has been sent (section 6); the addresses are right even then.
   `CellsHeld` says stage by stage what the I2C transfer under way has done to the
   memory, unless a reset has left `w_mem` set (`spoilt`, section 6).

`AxiProofs`, from `AxiAssumption` (beats of four bytes as the driver sends them, bursts that
do not pass the top of the address space, WRAP bursts of the four lengths that
`wrap_boundary` knows), for any memory, transactions, resets and order:
1. `AxiResponds`: `ResponseAfterData`, for every master. `RespInv` says where the response
   channel is in each phase of the driver.
2. `AxiStores`: `MemMatches`. `WStores` follows a burst: the beats before the driver's are in
   memory, the latch of the returned address holds where the next one goes, and the count is
   right or stuck at the end of the burst before. Two hypotheses: `Counts`, that the 4-bit
   counter can hold `awlen + 1`, and `OneLength`, that all bursts written have
   one length; both are so for what the generator draws (WRAP, eight beats, axi.sv:1316,
   :1363). Without the second it is false (`axi_two_lengths`).
   `BeatWalk` shows that the code's walk over the bytes of a beat, one address
   after the other with a jump at the boundary, is at the closed form `BeatByte`, for any base,
   length and alignment; `OneMoreStored` that a beat stored last wins.
3. `AxiCounts`: `BeatsDelivered`, from `Counts` and `Ready` (the driver holds
   `rready` high while it reads, axi.sv:1587; without it beats are counted twice, section 6).
   `ReadInv` is a cycle of four states in which both channels and the driver
   are at the same beat, and a fifth for a burst that has left memory and stays out.
4. `AxiReads`: `DataMatched`, from the three hypotheses.
5. `AxiEvaluates`: `OneEvaluation`, from `Counts` and `Ready`.

Only model-checked: the language (`Compiled`, `Independent`), whose recursive operators
the prover's arithmetic backend cannot be used with; `Results`, `Exclusive` and `Computed` of
`concepts` (some of whose modules have such operators too); `Restored`; all liveness, and `ENABLED`,
which the prover does not handle.

The proofs led to four changes in the models. Where the arms of a `CASE` overlapped, its
value was left open by the language though TLC took the first; they are disjoint
now. `OneEvaluation` spoke of refused reads too, of which it is false from the second
beat on; `axi` had only a read of one beat there, and has longer ones now. The recursive
operators of `SimC` are a recursive function and `Kept` now, with the same values. And
`MinerFifo` repeated what it has in common with `Fifo`, which now serves both, as do the lemmas.

## 6. Where code and words disagree

Two runs show a violation, `PROJECT.json` quotes the lines. The rest was met
while modelling; the models do what the code does, and the properties say what
remains true.

*FIFO and AXI.* The miner's FIFO defaults to `FIFO_SIZE` 32 with a 5-bit counter
(Fifo.sv:43): `full` never rises and the counter wraps. A 16-beat AXI read
never ends, its 4-bit counter is compared with 16 (axi.sv:1084, :34), nor does one
whose last beat starts at 128 (axi.sv:1111, :1164: neither comparison is true of it; `RRefuse`); after a
read that is refused or runs out of memory the monitor waits for the missing pulses of
`rvalid` (axi.sv:1859) and the generator for the monitor (:1378), for ever; a master
that raises `rready` late has beats counted twice (axi.sv:1177).

*Other buses.* The UART receiver keeps its state through a reset and delivers
a word nobody sent (uart.sv:170). The reset of the SPI master takes effect only
if `rst` rises together with `sclk`; it then shifts the slave by a bit until
both are at rest. `w_mem` of the I2C slave is not reset (i2c.sv:634): the
memory then takes `din` at every clock until the next write is over. The
Wishbone idle state fills the memory each time it is passed, so every read
gives 0x11 (whishbone.sv:52), which the scoreboard expects
(whishbone_test.sv:219); a request that arrives during a repeated one is
acknowledged by the repetition. An AHB slave that is still selected goes on
beyond the end of its burst unless the next request comes at once; an
unspecified burst leaves the count and the address check to the requests that follow, so
that one beyond memory is served, reading unknowns; the driver waits for ever when it
is refused (ahb_test.sv:163). The APB driver does not look at `pready`.
`MinerRegisters` indexes its arrays beyond their end (MinerConfig.sv:164),
although "These registers can only be modified by software over the AXI
interface" (:15) suggests that they can; what is read is chosen by the
address of the write (:181), and changes with `araddr` while the answer waits. A
reset of the hasher in the middle of a block emits a hash of nothing. The
hashers of `MinerCore.sv` are unconnected and its DMA loops back.

*sim2.* In Rust a second configuration leaves the counters of the first in the
grid (simulation.rs:108). In C every program with a block fails to compile, `!= ||`
can never be false (compiler.c:367, against compiler.c:352 and
`doc/showme.txt`); a character in the last column of a line is
swallowed (lexer.c:156); the window hangs after an error of the lexer, or with no file
(compiler.c:24); the audit miscounts when the last creature breeds; its second "too many"
compares the prey again (sim.c:462).

*Threads.* Two racing counters can end as low as 2. `AdandonedlockDemo`
releases its lock after all. A wake-up of `waitingForRightDistance` can be lost (the
distance is written without the lock), in a function `main` does not call. The
pool drops tasks that are queued and destroys its mutex before it joins.

*Data.* The tree's copy, `erase` and `count`, and the vector's `size`, `empty`
and `capacity` do not compile. `executeTrade2` erases the order its iterator is
at; `matchTrade` counts `remaining()` twice, which leaves a crossed book (BUY 1, BUY 1,
SELL 2); `trade` overtrades, since it looks at `mSize`; `executeTrade`, which is never called,
drops the rest of an overtraded order; the exposure is wrong by an operator's precedence; a
trailing blank repeats the last order. `push_back(v[i])` of a full vector reads
freed memory. `parallelFind` never finds (`done` starts false), `parallelQuickSort`
never sorts two parts at once, `parallelAccumulate` divides by zero below 1000
elements. `awaitables` asks a destroyed frame whether it is done
(coroutines.cpp:281). Header strings of the wrong length leave fields uninitialised; an
exponent of 33 or more writes beyond `threshold[8]`; `mine` never ends if no nonce is valid.

*Servers.* An accept that completes as the signals are handled starts a session
nobody tells to stop. 404 is sent only if the file vanishes between `canonical`
and opening it (request_handler.cpp:84, against the comment at :95).
`reset_cancellation_state` works only because asio reuses the slot's memory;
in `cancel_logic`, on three threads, a signal before the reset is forgotten. A
closed descriptor stays polled and makes `poll` return at once (poll.cpp:90); a
failed `poll` ends the program by SIGPIPE. A failed `fork` drops the
client silently; the talker uses a freed address; a datagram is cut at 99 bytes. The reply
thread may end in `std::terminate` unless `main` returns first, and after a failed reply its socket stays
stuck; the greeter dereferences null if its port is taken. The firmware loses
32 bytes that arrive between two polls, at the first poll after a restart sends stale bytes and loses
others (app.cpp:242), and stops receiving for good after a FIFO error.

## 7. Not modelled

- Numerical programs (Kalman filters, geolocation, tilt): floating-point
  algebra, nothing in them depends on order.
- `dff.sv`: one register. Language exercises of `cpp-concepts`, `rust-intro`,
  `modern-cpp-tdd-textbook` and others: no state that outlives a statement.
- The Rust twin of the language (`lexer.rs`, `compiler.rs`): a pure function from a text
  to an action, whose C twin, which has state, is modelled.
- Generated code (gRPC, protobuf, STM32 start-up), vendored libraries, layout of windows.
- `sub.h` does not compile, `rep.h`, `req.h`, `req_thread.h` and
  `sub_thread.h` are empty. The `INTERRUPT` build of the firmware. Tutorial
  clients of gRPC, asyncio, tokio and hyper, and the Embassy echo: two awaits and a loop each.
- Of modelled programs: wording and layout of output; genes that are empty; the
  arithmetic of SHA-256; narrow transfers of AXI and AHB, which the drivers never send.
