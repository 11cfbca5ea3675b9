# A TLA+ model of the kernel modules of Linux-and-Android-internals

The repository is a set of Linux kernel modules written for a course on the
internals of the kernel. Each one is a small driver behind a `/proc` entry or a
device file. They share a theme: processes that sleep and wake each other
through semaphores, a timer and a work queue that feed a buffer, lists shared
under spinlocks. This directory models them in TLA+, checks them with TLC and
proves with TLAPS the safety properties among what is checked.

## 1. Inventory

| part | state | operations | talks to |
|---|---|---|---|
| FIFO `/proc/modfifo` (`Pr3/ParteB/fifoproc.c`; pseudocode in `pseudocodigo.txt`) | `cbuffer`, `prod_count`, `cons_count`, `mtx`, `sem_prod`, `sem_cons`, `nr_prod_waiting`, `nr_cons_waiting` | open, release, read, write | circular buffer; kernel semaphores; signals |
| The same over kfifo (`Pr3/Opcional1/fifoproc.c`) | the same, a kfifo for the buffer | the same | kfifo |
| FIFO client (`Pr3/FicherosP3/FifoTest/fifotest.c`) | the open file | send: open, write..., close; receive: open, read..., close | either FIFO |
| Circular buffer (`cbuffer.c`, versions for bytes, pointers and ints) | `data`, `head`, `size`, `max_size` | insert, insert_items, remove, remove_items, head, clear | its users, always under their lock |
| Producer/consumer 1 (`Pr3/FicherosP3/ProdCons1`) | `elementos`, `huecos`, `mtx`, `cbuf`, the items on the heap | read, write | circular buffer of pointers |
| Producer/consumer 2 (`Pr3/FicherosP3/ProdCons2`) | `mtx`, `prod_queue`, `cons_queue`, two waiting counters, `cbuf` | read, write | circular buffer of pointers |
| modtimer (`Pr4/Modtimer/modtimer.c`; another version in `Pr4/modtimerJavi.c`) | timer, `cbuf`, work item, `aux_buffer`, `mylist`, `list_mtx`, `sem_list`, `waiting`, configuration | open, release, read, fire_timer, work function, configuration | timer softirq, kworker, circular buffer of ints |
| multilist (`PrFinal/modlist.c`) | list of lists, `sp_lists`, a spinlock and a mark per list | create, remove, add, remove number, cleanup, read | procfs |
| list (`Pr3/ParteA/modlist.c`, with a spinlock; `Pr1/modlist.c` and two variants, without) | `mylist`, its elements, `sp` | add, remove, cleanup, read; sort in `Opcional1`, lines of text in `Opcional2` | the kernel's `list.h` |
| USB leds (`Pr2/ParteC/blinkdrv.c`) | a `usb_blink` with a reference count per strip, the interface's data and minor | probe, disconnect, open, release, write | USB core |
| keyboard leds (`Pr2/ParteB/modleds.c`), user programs, examples | none to speak of | - | - |

What is hard in them:

* **Hand-made condition variables.** `fifoproc.c`, `prodcons2.c` and
  `modtimer.c` build `cond_wait`/`cond_signal` from a semaphore at 0 and a
  counter of waiters. Between `up(&mtx)` and `down_interruptible(&sem_X)` a
  process is counted but not asleep; a signal can meet an `up()` already on
  its way; a process that was handed a wake-up can still be interrupted while
  it waits for `mtx`.
* **Error paths.** Nearly every blocking call can return `-EINTR`, and each of
  these returns has to undo exactly what its handler did.
* **Three contexts** in `modtimer.c`: softirq, kworker and processes, with
  checks made outside the lock.
* **Wrap-around** in the circular buffer, with batches that wrap and overwrite.
* **Spinlocks at two levels and deferred removal** in the multilist.
* **Reference counts** in the USB driver: `open()` looks up the interface and
  then its data, and counts itself only afterwards, while `disconnect()` or a
  failing `probe()` takes the same things away.
* **Pointer writes**: adding or deleting a list element is four of them, and the
  loops free the element they stand on.

What makes each part correct, in a sentence each: the FIFO is a pipe (bytes in
order, none lost, truthful EOF and EPIPE, nobody left asleep for no reason);
the circular buffer is a bounded queue; `/proc/prodcons` is a bounded buffer
whose items have one owner; modtimer delivers every number once and in order,
and while readers wait some reader gets numbers; a list holds what was added and
not removed, and a removed list is freed once, with nobody using it; a
`usb_blink` lives exactly as long as somebody uses it, and an open never gets one
whose minor has been given back.

`PROJECT.json` lists, under `hazards`, what in this code is hard to test, each
with its line and the properties that watch it.

## 2. Modules

| module | what it is | code |
|---|---|---|
| `Semaphores` | the kernel's `struct semaphore`: a counter and a FIFO list of sleepers | external |
| `ByteQueue` | abstract: a bounded queue that drops its oldest items | promise of `cbuffer.h` |
| `CBuffer` | the ring: array, `head`, `size`, all operations | `cbuffer.c` |
| `FifoCalls` | the system calls of `/proc/modfifo` and what they return | `fifoproc.c` |
| `Pipe` | abstract: what a process may rely on | comments and pseudocode of `fifoproc.c` |
| `Fifoproc` | the FIFO's handlers and every point where they can be interrupted | `fifoproc.c` |
| `Kfifoproc` | the handlers over kfifo: other effects on the buffer, the same monitor | `Opcional1/fifoproc.c` |
| `FifoTest` | sender and receiver composed with either driver | `fifotest.c` |
| `BoundedBuffer` | abstract: items with one owner, in order | promise of `/proc/prodcons` |
| `ProdCons1` | three counting semaphores | `prodcons1.c` |
| `ProdCons2` | monitor built from semaphores | `prodcons2.c` |
| `Modtimer` | timer, work item, list, readers, open, release, threshold | `modtimer.c` |
| `ModtimerJavi` | the other version: its own `open()` and `/proc/modconfig` | `modtimerJavi.c` |
| `Multilist` | creation, removal and use of lists | `PrFinal/modlist.c` |
| `Klist` | the kernel's list as sequences of pointer writes | `list.h` |
| `IntList` | abstract: a list on which each command takes effect at once | promise of `/proc/modlist` |
| `Modlist` | the list with a spinlock, pointer write by pointer write | `Pr3/ParteA/modlist.c` |
| `ModlistPr1` | the three versions without a lock, call by call | `Pr1/*/modlist.c` |
| `Blink` | probe, disconnect, open, release, write of the LED strip | `blinkdrv.c` |
| `SharedLemmas` | lemmas on counting, on semaphores as wait queues, on the least element of a set | |
| `FifoProofs` | proofs about `Fifoproc`, `Kfifoproc` and `FifoTest` | |
| `BufferProofs` | proofs about `CBuffer` and `ProdCons1` | |
| `ProdCons2Proofs` | proofs about `ProdCons2` | |
| `ModtimerProofs` | proofs about `Modtimer` and `ModtimerJavi` | |
| `MultilistProofs` | proofs about `Multilist` | |
| `BlinkProofs` | proofs about `Blink` | |
| `ModlistProofs` | proofs about `Modlist`, `ModlistPr1` and the operations of `Klist` | |

`CBuffer` is checked once against `ByteQueue`; the modules that use a circular
buffer then hold its content as a sequence (`cbuffer`, `cbuf`), which is
`ByteQueue`'s view of it. `Fifoproc` implements `Pipe`; `ProdCons1` and
`ProdCons2` both implement `BoundedBuffer`; all four versions of the list
implement `IntList`.

Where the repository has several versions of a driver, one variable (`loaded`,
`version`) says which is loaded and the actions in which they differ ask for it;
the others are shared. `Kfifoproc` and `ModtimerJavi` group the shared steps into
the functions of their own file.

### How an action corresponds to code

A process is at one of a few places: `idle` (outside the driver), `lock`,
`relock`, `undo` (waiting for `mtx`), `test`, `cs`, `undocs` (holding it),
`presleep` (has released `mtx`, has not reached the semaphore), `asleep`.
Everything a handler does between two of these places is one action. That is
sound because everything it touches there is protected by `mtx`, and a
`presleep` place is kept exactly where the code gives `mtx` up. The wake-up
(`up(&sem_X); nr_X_waiting--`) and the release of `mtx` that follows it are in
the action of the handler: a process woken there can do nothing before `mtx`
is released.

The two halves of each handler (writer and reader) are mirror images in the
code, so `prod_count` and `cons_count` are `count["prod"]` and `count["cons"]`,
and so on. A loop `while (C) { nr++; up(&mtx); down(&sem); down(&mtx); }` is
`Wait` (C holds), `Sleep`, `Lock` back to `test`.

Semaphores, from how the kernel implements the calls the code makes: `up()`
gives the unit to the first sleeper if there is one and increments the counter
otherwise; `down_interruptible()` takes a unit without looking at signals if
there is one, otherwise it queues, and a signal then takes it out of the queue.
So `-EINTR` on `mtx` is possible only while `mtx` is taken. The result of
`f_op->release` is ignored by the kernel: an interrupted `release()` closes the
file all the same.

In `ProdCons1` semaphores are only counters and any waiter may get a unit, which
allows more behaviours than the kernel's FIFO lists. In `Fifoproc`, `ProdCons2`
and `Modtimer` the order of the list matters to who is woken and it is kept for
the semaphores that serve as condition queues; `mtx` and `list_mtx` are again
counters that any waiter may get.

In `Multilist` a call moves through its critical sections. `sp_lists` has a
holder, because calls do other things while they hold it and one returns without
releasing it; a list's own `sp` has none, since whoever takes it releases it
before it waits for anything. `node` is what `vmalloc` returned. `dir` is the
`/proc` directory, a sequence with the newest entry first; an entry has its own
copy of the name and, as its data, a node. procfs is that of the kernel the
repository was written for, a 3.14 (the last call of `Pr2/ParteB/syscall_64.tbl`
before the repository's own `ledctl` is number 315): it registers a name it
already has, with a warning, in front of the older entry. `control_create` does
not look first (`modlist.c:156-176`), so two lists can have one name; the history
variable `clash` records that this has happened. `remove_proc_entry` takes the
first entry of a name out (`Unregister`), then keeps new calls from files that are
still open by it (`Close`), and returns when the calls in progress on that entry
have (`Rundown`). A call on freed memory may get away with it or stop for ever
(`Oops`). Both write handlers parse a buffer that nothing has initialised
(`modlist.c:116`, `:263`), so which command they carry out, on which name, is a
free choice.

In `Modlist` every pointer write and every step of a loop is an action, so that
what the spinlock hides can be seen: `stores` are the writes a call still has to
make, `pos` and `n` the two variables of `list_for_each_safe`. `mem` keeps what a
freed element last held, poison included. A read stops when its buffer is nearly
full (`modlist.c:85-87`): which printed sequences fill it depends on the digits of
the numbers, so it is a constant, the set `Full`. The versions of `Pr1` have no
lock; two of their calls at once have no defined outcome, and each is one action.
`Opcional2` refuses the lines in `TooLong`.

In `Blink` the places of an interface (`ifc`) are those of `probe` and
`disconnect` between which another process can act, with the calls of the USB
core split where the core gives its locks up: `usb_register_dev` shows the minor
before it creates the device, which may fail; `usb_deregister_dev` frees the
minor in its table before it clears `interface->minor`. `minor_rwsem`, which the
core holds while it calls `blink_open`, is the condition `Opening = {}` of the
actions that change the table. `udev` of a structure becomes `Dead` when its
strip leaves the bus: transfers to it fail from then on.

In `Modtimer` a write to `/proc/modconfig` changes `emergency_threshold` between
any two steps. `settled` is a history variable: whether the threshold in force
has been so since the buffer was last empty.

The operators marked `(bug)` are not used by the specifications. Each is a
plausible mistake in the definition that follows it; with the definition
replaced by it, the property it is listed for fails. They show that the
properties depend on the code.

## 3. Runs

| run | instance | checks |
|---|---|---|
| `cbuffer` | 3 cells, 2 values, batches of 0 to 4 | `RingTypeOK`, `ImplementsQueue` |
| `fifo_pair` | a sender and a receiver of `fifotest.c`, either driver, 3 bytes, messages of 2, 2 opens each, 2 signals | `TypeOK`, `NoStrandedSleeper`, `WholeMessages`, `ImplementsPipe`, `TransfersReturn` |
| `fifo_crowd` | 2 writers, 2 readers, 2 bytes, messages of 1 (3 is refused), 1 open each, 1 signal | `MutualExclusion`, `WaitBalance`, `SleepersAreCounted`, `CountsCoverAttached`, `ImplementsPipe` |
| `prodcons1` | 2 + 2 processes, 2 cells, 4 items, 1 signal | `TypeOK`, `Accounts`, `ImplementsBuffer`, `WritesReturn` |
| `prodcons2` | 2 + 2 processes, 1 cell, 4 items, 1 signal | `TypeOK`, `WaitBalance`, `NobodyForgotten`, `ImplementsBuffer` |
| `modtimer` | either version, 2 readers, 3 cells, thresholds 80%, 40%, 150%, 1 signal or new threshold | `TypeOK`, `NothingLostOrReordered`, `AuxFits`, `FullMeansServed`, `SomeReaderServed` |
| `multilist` | 2 processes, 2 nodes, 2 directory entries, 2 names, 1 integer | `TypeOK`, `UsedNodesLive`, `OwnedByOne`, `QuietConsistent`, `OwnEntryRemoved`, `CallsReturn` |
| `modlist` | 4 versions, 2 processes, 3 elements, 3 values, a read buffer full with two values or one of the third | `TypeOK`, `ListIntact`, `NoUseAfterFree`, `ImplementsIntList` |
| `blink` | 2 strips, 1 minor, 2 processes, 3 addresses, 2 leds of which `memset` clears one | `TypeOK`, `NoDangling`, `RefsExact`, `OpenFindsItsDevice`, `SoloWriteShows` |

Three runs show where the code does not do what its own comments say:

| run | what happens |
|---|---|
| `fifo_forgotten` | `open()` and `read()` sleep on the same semaphore, and each event wakes only the first sleeper: with two readers, one can sleep on with a byte there for it |
| `prodcons2_lost` | a process that was handed the wake-up is interrupted while it waits for `mtx`: another one sleeps on |
| `multilist_sudden` | two lists of one name: removing the first takes the other's `/proc` entry out, so the first is freed with its own entry still there, and a call that uses that entry works with freed memory |

### Bounds, and why they are enough

* `MaxOpens` bounds the `open()`s a process makes. Two are needed for a FIFO to
  be emptied, closed and used again (`fifo_pair`); with one each, four
  processes still meet in every order (`fifo_crowd`).
* `MaxSignals` bounds the signals of a behaviour. One suffices for each crossing
  of a signal with an `up()`; two let the two ends be interrupted in the same
  behaviour, or one process twice.
* The FIFO of 3 bytes with messages of 2 keeps the relation of `fifotest.c`: 36
  bytes in a buffer of 50 or 64, one message and a fraction. The refusal of a
  message longer than the buffer, which that client never sends, is in
  `fifo_crowd`.
* The capacities make full, empty and wrap-around happen: a ring of 3 cells
  reaches every `head`, every `size` and each way of splitting a batch.
* `Addr` in the producer/consumer runs has 4 items for 4 processes and 1 or 2
  cells. Items in cells and in the hands of every process at once would be more,
  and an interrupted writer leaks its item for good, as in the code. When all are
  taken a `write()` cannot begin until one is freed, or at all if the rest is
  leaked; the writers that have begun, and the readers, go on. Four items fill the
  buffer and keep writers waiting beyond it.
* `Serials`: numbers are consecutive modulo 3, which tells the numbers of a
  batch from those of the next. `MaxList` pauses the timer while the list is
  long, to keep the state space finite.
* `Settings`: with 3 cells the default of 80% is two items, as 8 of 10 in the
  code; 40% is one, so a write can lower the threshold under what is stored, and
  150% is four, more than the buffer takes, which only one version accepts.
  `MaxEvents` allows one event from outside in a behaviour, a signal or a write
  to `/proc/modconfig`.
* `Grace` is a hypothesis on timing, not only a bound: a scheduled work item is
  served within so many timer periods. Without it the code does lose numbers,
  because the ring overwrites when full. With threshold 2 of 3 the slack is one
  period, as the code's 80% of 10 leaves two.
* `multilist`: two nodes and two names let a list be removed while its successor
  of the same name is created, lists of both names coexist, and two lists have one
  name. Two processes are two removers, or a remover and a user, or a remover and
  a creator; what a third can add to the safety properties is left to the proofs,
  which are for any number. An entry is registered for a
  node and goes before it does, so two entries are enough until a name is
  registered twice; after that, two show the wrong one taken out. One integer is
  enough to see a list emptied: none of the properties depends on the items.
  (Symmetry would not be sound for `CallsReturn`, and three processes without it
  are too many states.)
* `/proc/modtimer` is open once at a time: a second open adds a pending timer, a
  kernel BUG after which there is nothing to model. The two readers are threads
  that share the open file.
* `modlist`: three elements let two calls allocate while one is linked, and give
  a traversal a first, a middle and a last element; with several values one removal
  can match some elements and pass over others. As text, the values are a line of
  one word, one of two words that begins with it, and one too long to be stored. A
  read of three elements is cut off after the first or the second, or not at all.
  Elements and processes are symmetric.
* `blink`: two strips and one minor, so that the number of a strip that is going
  away is given to the next; three addresses, one more than the strips, because
  a file open keeps the structure of a strip that is gone; two leds, one on each
  side of what the `memset` clears. Strips, addresses and processes are
  symmetric.

`CHECK_DEADLOCK FALSE` is set where the system really may stop: in the FIFO all
opens may be used up, or everybody may wait for a partner that never comes; in
modtimer a signal can leave `waiting` at -1, after which the entry cannot be
opened again; in the multilist a failed creation leaves `sp_lists` taken, and a
call on freed memory may not return.

### Fairness, and why the code justifies it

* `SF` on taking `mtx` or `list_mtx` (and on every `down()` of `ProdCons1`): the
  list of waiters of a semaphore is FIFO, so a waiter is not overtaken for ever.
* `WF` on the steps of a process inside a handler, on the timer and on the
  kworker: the kernel schedules runnable work.
* `TransfersReturn` is conditional on no signal arriving; `SomeReaderServed` on a
  threshold the buffer can meet. It promises numbers to some reader: nothing
  keeps the others from taking the whole list before a particular one, woken
  last, obtains `list_mtx`, again and again.
* `WF` on `BeginRead` in `ProdCons1`: somebody keeps reading. `WritesReturn` is
  stated under this assumption.
* `SF` on taking `sp_lists`, `WF` on the rest of a call of the multilist (but not
  on `Oops`, which nothing makes happen): the kernel's ticket spinlocks serve
  their waiters in order, and a process inside a system call is scheduled.
* `WF` on the next call of a program of `fifotest.c` that has the FIFO open: it
  reads or writes on, or ends and is closed.
* `open()` of the FIFO has no progress property: it waits for a partner, and may
  miss it (section 4).
* `Modlist` and `Blink` state no liveness: under a spinlock or the core's locks
  every call returns by itself.

## 4. What the checks show

* **The ring is a queue** for batches and for single items. `head` may be
  `max_size` after `remove_items`, one more than `cbuffer.h:8` says
  (line 176 of `cbuffer.c` takes no remainder); it is safe because `fifoproc.c`, the only user of batches,
  uses nothing but batches (`RingTypeOK` has the bound for the other users).
* **The FIFO is a pipe** for clients with messages of one length, whatever
  signals arrive: writes are whole, reads get the oldest bytes, EOF and EPIPE
  are told only when the other end is gone, nothing is lost between sessions
  while anybody has it open. With the programs of `fifotest.c` a receiver only
  ever prints whole messages, over either buffer: although `kfifo_out` may hand
  over less than asked for, with one message size it never does.
* **The hand-made monitors keep their accounts**: `WaitBalance` says what the
  waiting counters mean when signals and `up()`s cross. A counter may be -1
  (a posted unit makes up for it); it never hides a sleeper.
* **The two producer/consumer versions implement the same buffer**; the version
  with counting semaphores also survives signals without losing a wake-up,
  which the version with condition variables does not (`prodcons2_lost`).
* **modtimer** delivers in order and completely within `Grace`; its comparison for
  equality with the threshold, made outside the lock, does not miss it, and while
  readers sleep some read returns numbers. That is so while the threshold stands
  and leaves room for `Grace` numbers. A threshold written below the number of
  items stored is not met again unless the buffer empties for another reason, and
  one that rounds to no items or exceeds the buffer never is: the buffer
  overwrites itself and readers sleep until the file is released. At 100% one late
  period loses a number, or overruns `aux_buffer` if it falls into the copy.
* **The list with a spinlock is a list**: commands take effect at once, in the
  order in which they take `sp`, and no loop follows a freed element. A read shows
  the values from the head on, all of them or as many as fill its buffer, as the
  list is at one moment. The versions without the lock behave the same when their
  calls do not overlap.
* **The USB driver counts exactly**: `RefsExact` holds through every probe that
  fails after the device was visible, every disconnect under an open file and
  every late close. `blink_open` holds no reference between finding the
  structure and taking one; what protects it is only that the core keeps
  `minor_rwsem` while it calls it, and that `disconnect` gives its reference up
  after `usb_deregister_dev`. An open can get a strip other than the one that has
  the minor now, if the driver is unbound from it and bound again between the
  two lookups. The strip it gets may have entered `blink_disconnect` already
  (line 281), but has not given its minor back.
* **The multilist frees each list once**, whatever names are given: a node in use
  is in the list of lists or has one owner (`OwnedByOne`). As long as no name has
  been registered twice, that is after its last use: the mark keeps a second
  remover away, the wait inside `remove_proc_entry` keeps readers and writers
  away, and a removal by name never takes out the successor of the same name.
  With two lists of one name a removal does take the other's entry, and the entry
  left in `/proc` leads to freed memory: that is the "sudden removal" that line 31
  wants to avoid (`multilist_sudden`).
* **A call on the multilist returns** (`CallsReturn`), as the comment of
  `modlist.c:136` claims, but only until a `control_create` fails
  (line 169 locks `sp_lists` and returns), and as long as no name has been registered twice: a call
  on a freed list may never return.

Noticed while modelling, and not a property here.

* FIFO: the reader of a FIFO whose writers left with fewer bytes than it asked
  for gets zero bytes and leaves the real ones (`fifoproc.c:170`). `read` waits
  for *len* bytes and `write` for *len* gaps, so clients with messages of
  different lengths can wait for each other for ever. A receiver woken in `open()`
  tests `prod_count` again only when it has `mtx` back (`:50,64`): a sender with a
  short message may have opened, written and closed by then, and the receiver
  sleeps on with the message in the buffer. `open()` counts itself
  before it waits and an interrupted one is never uncounted, nor is an
  interrupted `release()`; from then on that end looks present. Bytes whose
  copy to the user fails are lost (`:180`).
* prodcons: interrupted writers leak their item (`prodcons1.c:64`,
  `prodcons2.c:56,73,78`); `-ENOSPC` after the item was removed
  (`prodcons1.c:119`, `prodcons2.c:156`).
* modtimer: the test of `modtimer_open` does not keep two opens from adding the
  same timer, its version in `modtimerJavi.c` makes no test; a signal that
  crosses an `up()` leaves `waiting` at -1, after which `/proc/modtimer` cannot
  be opened; `max_random` may be set to a value that makes `fire_timer` divide by
  zero (`modtimer.c:141,224`, `modtimerJavi.c:58,168`); `read()` prints the whole
  list into 100 characters (`:290`); `init_modtimer` tests the wrong variable
  (`:85`); each second `read` of `/proc/modconfig` leaks its buffer (`:177`).
* multilist: a `remove` that meets the mark reports success although a new
  list of that name may already exist (`modlist.c:139`); `exit_modlist_module`
  never runs, as `init_modlist_module` takes a reference on the module itself
  (`modlist.c:75`).
* list: the overrun test of `Pr3/ParteA/modlist.c:85` comes before the number is
  printed, so the last one can cross the end; the versions of `Pr1` end the text
  of a command only after parsing it, so a `cleanup` or `sort` may go
  unrecognised, and leak a buffer on each early return; `Opcional2` stores the
  whole line but removes by its first word, so a line of several words can only
  be cleaned up, and copies it into 20 characters before it looks at its length.
* blink: line 120 clears 48 bytes of a 6-byte message and line 121 eight bytes of
  eight integers, so leds that a write does not name need not turn black; line
  287 is to "prevent more I/O" but nothing reads the field; writes to the same
  strip interleave led by led; `kbuf` is leaked on errors.

## 5. What is proved

Every invariant, every action property and every refinement that a passing run
checks is proved, for every value of the constants that the modules' assumptions
admit; what is left to TLC alone is liveness. `PROJECT.json` lists the theorems.
Each rests on an inductive invariant, first checked by TLC as an invariant of the
run, then shown to hold initially and to survive every action.

**The FIFO** (`FifoProofs`), for any finite sets of producers and consumers, any
capacity, any messages, opens and signals.

* `TypeCorrect`: the one step with content is `Write`; `InsertedTyped` shows that
  insertion keeps the buffer within its capacity.
* `MonitorInvariant`, and from it `MutexSafe`, `BalanceSafe`, `SleepersSafe`.
  `WaitBalance` is not inductive alone. `up()` moves the first sleeper of the
  queue to `relock`; for the balance to survive one has to know that the queue
  holds processes of that side, that they are asleep, each of them once
  (otherwise the same process could be "woken" twice), and that a posted unit and
  a sleeper never coexist. That is `QueueInv`, and
  `IInv == TypeOK /\ QueueInv /\ MutualExclusion /\ WaitBalance`. The proof
  counts: `Owed(s)` is the left side of the balance minus the queue, and
  `StepKeeps` says that a step of `p` keeps the invariant if `mtx` moves against
  `p`'s holding of it and `Owed` moves with `p`'s passage through `presleep`,
  `undo` and `undocs`.
* `CountsSafe` (`CountsCoverAttached`) adds `CallsOK`, which ties the call in
  progress to the open file: a `release()` has something to uncount, an `open()`
  has not been counted yet.
* `PipeImplemented` (`ImplementsPipe`) adds `PipeInv`: the buffer is a row of
  whole messages, so a read that does not wait finds one, and a write that does
  not wait finds room for one. Its hypothesis `FixedLength` is what `fifotest.c`
  does: messages of one length, among those that fit the buffer at all. Without
  it the FIFO is not a pipe (section 4).
* `BothModulesAlike`: under the programs of `fifotest.c` the module over kfifo
  takes only steps that the one over the circular buffer could take, because
  `kfifo_out` finds a whole message and `kfifo_in` room for one. Hence
  `WholeMessagesSafe`, `TestImplementsPipe` and `TestNoStranded` for both modules.
* `NoStrandedSafe` (`NoStrandedSleeper`), for one process at each end (`OneEach`;
  `fifo_forgotten` shows it false for two readers). `ReasonInv` says why: who is
  about to sleep has to wait or will find a unit. `WakeReaches` is its core:
  `WaitBalance` leaves a process in `presleep` or `asleep` no way to be invisible to
  the wake-up of the other end.

**The circular buffer** (`BufferProofs`), for every capacity and every type of item:
`RingTypeCorrect`, and `QueueImplemented` (`ImplementsQueue`). There is no invariant
beyond `RingTypeOK`; the work is in the arithmetic of the ring, and in what one or two
`memcpy`s copy into it (`CopiesIn`) and out of it (`CopiesOut`).

**Producer/consumer** (`BufferProofs` for the first, `ProdCons2Proofs`), for any
processes, capacity, items and signals. Both implement the same abstract buffer
(`Implementation`, twice).

* `ProdCons1`: `AccountsSafe`. The two accounts `CellsConserved` and
  `ItemsAnnounced` are inductive once it is known who holds an item where
  (`HandsEmpty`); `BufferReady` follows from them.
* `ProdCons2`: `WaitBalanceSafe` and `NobodyForgottenSafe`. The second needs
  `Supply`: while somebody of a side waits, what is in stock for it is no more than
  the processes of that side that are about to look, awake or with a unit posted.
  It holds as long as no signal has arrived; `prodcons2_lost` shows why that is
  needed.

**modtimer** (`ModtimerProofs`), both versions, any buffer, thresholds, `Grace` and
readers: `AuxFitsSafe`, `FullMeansServedSafe` and `NothingLost`. `Growth` bounds how
far the buffer, or buffer and `aux_buffer` together, may have grown since the
threshold was met; it needs `TimerOwned` (the timer of a closed file is off),
`BatchOwn` and `LateServed`. The properties hold where the threshold in force has
stood since the buffer was last empty (`settled`) and leaves room for `Grace` numbers
(`Roomy`); both conditions are part of the properties.

**multilist** (`MultilistProofs`), for any processes, nodes, names, directory entries
and integers, and any order of creations, of taken names too: `UsedNodesLiveSafe`,
`OwnedByOneSafe`, `QuietConsistentSafe`, `OwnEntryRemovedSafe`. The invariant is
`IInv == Core /\ (~clash => Orderly)`.

* `Core` holds whatever names are registered. `Stage` says where the node of a call
  is, in the list of lists or not, marked or not, at each step; and an allocated
  node without owner is linked and unmarked. So a search that stops at an unmarked
  node has found one without owner (`FoundStep`), and each node is freed once.
* `Orderly` is the directory while no name has been registered twice: every name
  in it once, with the node of that name. So `remove_proc_entry` finds the
  caller's own entry (`UnregisterStep`). `Place` says that calls use a node only
  while its entry is registered or its owner has not waited for them; `RundownStep`
  is where the wait is used. A second registration ends `Orderly`, and with it only
  what the three other properties promise under `~clash`.

**The LED strip** (`BlinkProofs`), for any strips, minors, addresses and processes.

* `RefsExactSafe`, `NoDanglingSafe`, `OpenFindsItsDeviceSafe` from `LifeInv`:
  `Owners` ties the interface's data to the structure `probe` and `disconnect` own,
  `Numbers` keeps the minors in the table apart, `Handles` says what `blink_open`
  knows at each of its steps. The count itself is counted, as in the FIFO.
* `SoloWriteShowsSafe` from `WriteInv`: what has been sent shows while no other
  write to the same strip overlaps.

**The lists** (`ModlistProofs`), for any processes, elements and values, and all four
versions of the module, loaded and unloaded in any order (`SpecAll`):
`TypeCorrect`, `ListIntactSafe`, `NoUseAfterFreeSafe` and `ListImplemented`
(`ImplementsIntList`), all from the invariant `IInv`.

* *Pointers.* `Ring(m, c)` says that the memory `m` links the elements of the
  sequence `c`, each once, in this order and both ways. `AddTail` and `Delete` say
  what the four writes of `list_add_tail` and of `list_del` make of one ring, and
  `ChainFound` that a traversal of a ring meets just its elements, in order.
* *Half-made changes.* In the middle of its four writes the list is no ring.
  `Settled` is the memory after the writes that the call in the critical section
  has still to make, `Elements` what a traversal would find there, `Content` their
  values. A `Store` leaves all three alone (`DoneStep`), so an addition takes place
  as a whole when it takes `sp`, a deletion when it finds its element.
* *Memory.* `Ownership` has every allocated element in `Elements` or with exactly one
  call, which is about to add it or has taken it out and not yet freed it. With
  `Locked` (`sp` is held in the critical sections only) it gives `ListIntact`.
* *Loops.* `Progress` says how far the loop in the critical section is: a read has
  printed a prefix of the list (`Prints`); a removal has turned the first `k`
  values of `before` into those of them to be kept (`Keep`, `Partly`) and left the
  others. `pos`, and `n` after it, are the elements that follow, so neither is
  freed when it is used: `NoUseAfterFree`. When `pos` is the head again `k` is the
  length of the list (`LoopEnds`), and the whole command takes effect in the step
  that gives the lock back (`UnlockShows`). A read may end earlier, but only with
  its buffer full: what it prints is then a prefix that `IntList` allows.
* *One call at a time.* The versions of `Pr1` make the whole loop one step, a recursive
  function (`DelAll`, `Relinked`). What it computes needs an induction over its
  length. The library's induction theorems cannot be used, but that `<` on the
  naturals is well-founded can: from it `Induction` is proved for sets, and
  `Recursion` that a recursively defined function exists. So `DelAllSieves`,
  `SieveValues` and `RelinkedRing` tell what the loops leave for lists of any length.

The proof changed the model in one place: `Store` went on by a `CASE` whose guards
overlapped, which TLC resolves and the logic does not; its order is now explicit.

**Assumptions.** The named assumptions of the modules, which TLC evaluates on
every run: finite, disjoint sets of processes, capacities of at least 1, `NULL`
not an address (and not the mark of an unplugged strip, `Dead`). The hypotheses
`FixedLength` and `OneEach` are stated in the theorems that need them. All hold in
the runs that check the properties, except that `fifo_crowd` has more than one
process at an end and does not check `NoStrandedSleeper`.

**Only model-checked.**

* Liveness: `TransfersReturn`, `WritesReturn`, `SomeReaderServed`, `CallsReturn`. Fairness
  is out of the prover's reach.
* The three violations of section 3, which are counterexamples.

## 6. Not modelled

* The copies to and from user memory and their errors (`-EFAULT`, `-EINVAL`
  after bytes were consumed), `*off`, the text of numbers, and `vmalloc`
  failing.
* Module load and unload, except for the lists. `fifoproc.c:27` and
  `modtimer.c:129` destroy the buffer before they remove the `/proc` entry.
* `O_RDWR` opens of the FIFO (counted as readers only).
* modtimer: the timer's period and `max_random`; two files open at once; an open
  during a release.
* Calls that overlap in the lists without a lock. `Modlist` shows what would
  happen: with its `Lock` replaced by one that does not wait, elements are lost
  and freed ones used.
* What an out-of-bounds write does: the 48-byte `memset` of `blinkdrv.c:120`,
  the print buffers, a led number above 7.
* The parts listed as `not_modelled` in `PROJECT.json`: the unfinished modtimer
  of `Pr4/Opcional` (which does not compile), the keyboard leds, the user
  programs for leds, and the examples (teaching code with no logic of its own).

## 7. Plan

What the plan of this project set out to model, check and prove is done. What would
come next: loading and unloading of the drivers with an open file (the hazard of
`fifoproc.c:28`), and the user copies with their errors, where a driver has already
changed its state when one fails.
