# A verification project for EMI

EMI ("embedded message interface") passes messages between processes.  A
daemon, `emi_core`, accepts TCP connections; each carries one request.  A
*register* request puts (message number, pid) into a table; any other request
is a message, which the connection's thread stores in System V shared memory
and posts to every registered process of the machine with `SIGUSR2`.  The
registered processes are linked with the library `emi_if.c`, whose signal
handler finds the message through an index cell of its pid and runs the
registered functions.

Paths are relative to the repository (`src/` here).

## 1. Inventory

### Components

| component | code | state | operations |
|---|---|---|---|
| registration table | `include/msg_table.h` | `msg_table`, an array of chains of malloc'ed `struct msg_map` | `__emi_hsearch`, `emi_hinsert`, `emi_hdelete` |
| connection threads | `emi_core.c:339-518` | locals `num`, `m`, `pid_num`, `pid_ret`; the area `msg_pos` | one run of `emi_recieve_operation` per connection |
| pool of areas | `include/shmem.h:74-104`, `emi_shmem.c:47-68`, `include/list.h` | `__msg_list`, `busy`, `addr` | `__emi_obtain_space`, `__emi_return_space`, `emi_init_space` |
| index area | `emi_core.c:433-463`, `emi_if.c:213-219` | one cell per pid | written by a thread, emptied by a handler |
| locks | `include/emi_semaphore.h` | `__emi_msg_space_lock`, `msg_map_lock`, `critical_shmem_lock` | lock, unlock |
| receiving library | `emi_if.c:201-260`, `452-552` | `__func_list`, the signal's disposition | `func_sterotype`, `__emi_msg_register`, `emi_msg_unregister` |
| sending library | `emi_if.c:263-393` | a message and a socket | `emi_msg_send` and its three wrappers |
| returned data, AES mask | `emi_if.c:396-449` | the data of a message | `emi_msg_prepare_return_data`, `emi_msg_encode_aes`, `emi_msg_decode_aes` |
| AES cipher | `emi_aes.c`, `include/emi_aes.h` | none (eighteen tables) | `schedule_key`, `aes_encrypt`, `aes_decrypt` and their two callers |
| start, stop, accept loop | `emi_core.c:60-337` | lock file, segment, listening socket | `main`, `sig_release` |
| segment layout | `emi_core.c:122-140`, `emi_shmem.c:47-59`, `include/shmem.h:53` | none (arithmetic) | sizes and offsets |
| socket wrapper | `emi_sock.c` | a descriptor | open, connect, read, write, accept, close |
| configuration | `emi_config.c` | three numbers | `get_config` |
| debug output, tests, build | `emi_dbg.c`, `test/`, makefiles, `init/` | none | none |

### How they interact

* A connection thread takes an area from the pool, reads the request into it,
  and gives it back at `e0`, whichever way it got there.
* Threads share the table under `msg_map_lock`, but keep a pointer to an entry
  after unlocking it.
* To post, a thread takes `critical_shmem_lock`, writes the area's offset into
  the receiver's index cell, sends `SIGUSR2`, does `count++`, and spins until
  the cell is empty.  Then it unlocks, and deletes the entry if `kill` failed.
* The handler reads and empties the cell, runs the functions, does `count--`.
* When the table holds no further entry the thread spins until `count` is 0
  and answers the sender.
* `__emi_msg_register` is answered by a thread *before* it lists its function
  and installs the handler.
* The handler walks `__func_list`, which the process it interrupts may be
  changing, and runs functions that may send messages or unregister
  themselves.

### What is hard

Threads of `emi_core` run concurrently with each other and with the signal
handlers of other processes, over shared memory without locks (`count`, the
head of the pool's list) or with locks dropped too early (`m`).  Processes die
at any point, as zombies first, and their pids come back.  Connections are
reset.  A place in a chain is remembered as a number while the chain changes.
Counts are unsigned and pass below zero on their way.  PROJECT.json lists each
of these hazards at its line, with the properties that watch it.

A sender's request and its answer cross a TCP connection that delivers data in
pieces, is reset, or has lost its other end, and `read`'s -1 is compared as an
unsigned number.  Several `emi_core`s may be started, and the segment outlives
the process that made it.

`SIGUSR2` interrupts `list_add` and `list_del` between two pointer writes and
walks the list as it then is.  A function that sends a message inside the
handler, where the signal is blocked, waits for an `emi_core` that may be
waiting, lock held, for that process.  The segment is laid out by arithmetic
that two files do with different constants, and the cipher is unrolled by hand
over its tables: a wrong word still encrypts and decrypts to the same text.

### What makes each component correct

* Table: one entry per registration, every allocated node linked once in its
  bucket, the delivery loop reaches all entries of a message, and each once.
* Pool: an area has one user, is refused only if all are taken, is never lost;
  the list stays a ring whatever races.
* Index area: one posted message at a time, never overwritten unread; a cell
  is full exactly while its signal is on the way.
* Delivery: every live registrant gets the message, once; the area is not
  reused while a handler has it; the sender's thread ends; the lock comes back.
* Registration: success means being in the table; the call returns.
* List of functions: wherever it is interrupted, a message runs the functions
  registered when it came, once each, and no freed entry is used.
* Functions that send: they do not wait for each other in a circle, and their
  calls return.
* Layout: areas meet neither each other nor the index, and lie in the segment.
* Mask and cipher: decoding restores the data; what is stored is AES.
* Sending: what `emi_msg_send` returns agrees with what was delivered, functions
  get the data that were sent, and the call and the thread end.
* Start and stop: one `emi_core` serves the segment of the key, the lock file
  names it, and a start is not refused without a reason.

## 2. Modules

| module | what it is |
|---|---|
| `MsgTable` | the registration table: chains as sequences of node addresses, the heap as a function of addresses; also specified on its own (`TableSpec`) |
| `EmiCore` | the message exchange: connection threads, handlers, registrations, the environment; EXTENDS `MsgTable` |
| `IndexArea` | abstract: one message posted at a time; implemented by `EmiCore` with `owner <- critical_shmem_lock`, `cell <- pid_num` |
| `ShmLayout` | the segment in bytes: its size, index cells, offsets of areas |
| `EmiSpace` | the pool, at the level of `next` and `prev` pointers and of reads outside the lock; EXTENDS `ShmLayout`, whose addresses it hands out |
| `SlotPool` | abstract: areas obtained and returned; implemented by `EmiSpace` until two operations overlap |
| `Stream` | a TCP connection as `emi_sock.c` shows it: both directions, data in pieces, resets, an end that has closed |
| `SendReply` | `emi_msg_send` at one end, the accept loop and the connection thread at the other; EXTENDS `Stream` |
| `NestedSend` | many sends, from processes and from the functions they registered, around the one delivery lock |
| `FuncList` | the library's list of functions, write by write, under the handler's walk |
| `FuncRegistry` | abstract: functions registered, unregistered and run; implemented by `FuncList` until functions are unregistered in a way that it names |
| `Aes` | `emi_aes.c` and its tables, as functions on bytes |
| `Fips197` | the standard's definition of AES, for comparison |
| `AesMask` | returned data, encoding and decoding on the bytes of a message |
| `Startup` | the life cycle of `emi_core`: lock file, fork, segment, port, `sig_release` |
| `MsgTableProofs`, `EmiCoreProofs`, `NestedSendProofs`, `FuncListProofs`, `EmiSpaceProofs`, `SendReplyProofs`, `AesMaskProofs`, `StartupProofs` | theorems, section 5 |
| `MCMsgTable`, `MCEmiCore`, `MCEmiSpace`, `MCSendReply`, `MCNestedSend`, `MCFuncList`, `MCAesMask`, `MCStartup` | constants for TLC |

### MsgTable

`Chain(k)` is the list that starts at `*(table+emi_hash(k))`.  `heap[n]` is
`Freed` or the `msg`/`pid` of the node; a read through a pointer to a freed
node returns any map (`ReadNode`).  `malloc` returns any free address and fails
when there is none.  `__emi_hsearch(k, num)` is the code's: it skips `num`
nodes of the *bucket*, then finds the next one with the message, and does not
move `num` to it.  `same_next` and `emi_hsearch`, which no code uses, are left
out.

### EmiCore

A thread is named by its area.  `pc[s]` is where it is; each label is a point
between two accesses to shared state:

| `pc` | code | action from there |
|---|---|---|
| `idle` | the area is in the pool | `ServeSend`, `ServeRegister`, `ShortData`, `ReadFails` (`emi_core.c:346-411`) |
| `insert` | 364-369 | `InsertMap` |
| `exsearch`, `exwrite` | 374-381 | `ExclusiveSearch`, `ExclusiveWrite` |
| `ack` | 383-390 | `Ack` |
| `search` | 425-431 | `Search` |
| `index` | 446 | `Index` |
| `lock` | 448-451 | `Lock` |
| `kill` | 452-455 | `Kill` |
| `incload`, `incstore` | 456 | `IncLoad`, `IncStore` |
| `spin` | 459-463 | `SpinEnds` |
| `delete` | 465-469 | `DeleteMap` |
| `wait` | 474-513 | `Finish` |

A registered process has a handler (`hpc`: `Pickup`, `Handle`, `DecLoad`,
`DecStore`) and a running `emi_msg_register` (`reg`: `ListAdd`, `SigAction`).
Signals do not queue: `sig[p]` is one bit, and is blocked while the handler
runs.  `SigDefault` is what `SIGUSR2` does to a process without a handler.
`Crash` makes a zombie, on which `kill` still succeeds, `Reap` makes the pid
unknown, `Recycle` gives it to a new process.

`OrderedStart` restricts senders, not the code: nobody sends a message until
its registrations are over.  `Env` names which of the environment's events
(`crash`, `recycle`, `reset`, `unregister`) may happen.

A message brings a flag of its own, `Carried`: `emi_fill_msg` adds to the flags
it has, so that a BLOCK_RETURN message that is sent again may come with
SUCCEEDED.  The walk of an exclusive registration takes no lock, and may end
anywhere if another thread deletes an entry of its bucket (`DeletedUnder`).

`due`, `posted` and `brought` (the message came with SUCCEEDED) are history
variables that only properties read.

What is abstracted: a message is its number, one of four modes and the
SUCCEEDED bit; data, `cmd` and addresses are not looked at by any decision of
the modelled code.  The bytes on a connection are a step that succeeds, comes
short or fails.  A process registers one function per message (`FuncList` has
several), and a function does not send messages from inside the handler
(`NestedSend`).  `shmat` succeeds.  The pool is a set here (one thread per
area); `EmiSpace` says under which conditions that is so.

### ShmLayout and EmiSpace

`ShmLayout` keeps the two sizes of a message's data apart: `SegmentSize` and
`Written` have the configured one, `GET_SIZE` and so `offset` the compiled one.

`EmiSpace` has one action per access to shared memory outside the lock, and per
half of a list operation under it.  The header of the module explains why the
writes that share a step cannot be told apart by a reader.  `msg_pos[t]` is the
address a thread was given.  `overlap` is a history variable: two operations of
the pool have been under way at a time.  The code does not exclude that, and
what goes wrong then is the subject of `EmiSpaceDouble`.

### Stream and SendReply

`wire[e]` is what is on its way to the end `e`: a header, which arrives in one
piece (it is far smaller than a segment), and units of data, which may not.
`open[e]` says that `e` has not closed, `rst[e]` that a reset has reached it.
`Faults` names what may go wrong: data in pieces (`segment`), a reset, a sender
that dies (`die`), an `emi_core` without memory for a thread (`unstarted`).

`cpc` is the place in `emi_msg_send` (`header` 284, `data` 290, `reply` 301,
`returned` 322, `close` 337), `spc` the one in `emi_core`: `accept` 318-336 in
`main`, which goes on to the thread or, when `malloc` or `pthread_create` fails,
to `lost`, where the connection stays open and nobody serves it; then
`emi_recieve_operation` (`obtain` 346, `header` 354, `data` 401, `search` 425-476, `reply` 478,
`returned` 502, `e0` 511); the search for receivers, which `EmiCore` takes
apart, is one step here, which need not come (section 4).  One connection at a time: what connections share is
the subject of `EmiCore`, and the area, whose old header and data the next
connection finds, stays.  A write to an end that is gone is `SIGPIPE`:
`CoreDies`, `SenderDies`.

### NestedSend

A coarse `EmiCore`: nobody dies, everybody is registered, no count is lost and
connections hold, so that what remains is who waits for whom.  `main[p]` and
`nested[p]` are the threads whose answers process `p` waits for, outside and
inside its handler; while `nested[p]` waits the handler has not returned and
`SIGUSR2` stays blocked.  `count` is the set of receivers that have not
finished.  `MaxCalls` bounds the calls of `emi_msg_send`.  `NeverStuck` is the
safety half of `CallReturns`: `ProcessMoves` and `ThreadMoves` spell out when a
step other than a new call is enabled.

### FuncList

`mpc` is where the process is outside its handler: `add`, `fill` and `publish`
are the three groups of writes of `__list_add`, `sigaction` the end of a
registration; `unregister` is a turn of the loop at `emi_if.c:534`, `del` and
`unlink` the two writes of `__list_del`, `free` the rest of the turn.  The
handler may start at each of them once it is installed and is at one turn of
its loop at a time (`hpc`, `lh`).  Reading or writing memory that is not
allocated sets `stray`; from there on the model stops.  `misused` is a history
variable: all functions of a message were unregistered with NULL, or a function
unregistered itself in a way the loop does not survive.  What a function does to
the list inside the handler is that and no more: one that registers functions or
unregisters others there is not modelled.

`FuncRegistry` keeps the functions as a sequence `regs`, and as `todo` the
places in it that the message being handled has still to run.  In `FuncList`
`regs` are the entries of the chain from `HEAD`, and `todo` (`Places`) the
matching ones from the handler's `lh` on.

### Aes, Fips197 and AesMask

The S-box is copied from `Te4`; the other tables of `emi_aes.h` are computed
from it by what the header's comment says they hold.  So the key schedule and the
rounds of `emi_aes.c` are what is checked: which table each byte goes through,
in which order, and with which word.  The header's other numbers are not part of
the model, and a wrong one among them would not be seen.  Words are sequences of
four bytes.
`Fips197` defines AES by fields, rows and columns, without tables, and the
inverse cipher by the inverse steps.

`AesMask` takes the cipher as two operators, so that the proofs do not depend on
it; `MCAesMask` puts `Aes` in.  `MaskIndex` runs from 0 to 16, as `i %
(sizeof(c)+1)` at `emi_if.c:417` and `434` does, over 16 bytes of mask and the
byte behind it on the stack (`Stray`), which encoding and decoding read from
different functions' frames.  A message shorter than 16 bytes has its header
overwritten by the stored mask, and the model goes no further with it.

### Startup

`pc[i]` is the place of an invocation `i` of `emi_core` in `main`; each label is
the system call it is about to make.  `segment`, `lock`, `port` and `pidfile`
name the invocation that made, holds or wrote them; a child keeps the name of
its parent, whose lock it does not have.  An exit gives back lock and port
(`Ends`), never the segment: that takes `Remove`.  `blame` is a history
variable: how a segment may have come to be left behind.  A second free of
`client_sd` in `sig_release` either ends the program there or goes unnoticed.
Not told apart: SIGTERM in the middle of the error return of `bind`, between
its `emi_close` and its `shmctl`, which are one step.  A failing `emi_accept`
returns to the loop with a NULL `client_sd`.

## 3. Runs

All bounds are in the `.cfg` files; every state space is finite without a state
constraint.

| run | instance | shows |
|---|---|---|
| `MCMsgTable` | 3 messages, two of which collide, 2 pids, 4 nodes | `TableSound`: heap and chains agree, no duplicate entries; `WalkReachesEach`: the loop reaches all entries, and each once without collisions; a step shifts entries by one place |
| `EmiCoreOrdered` | 2 threads, 2 processes, 1 message, 2 nodes | with ordered starts and no deaths: cells and signals agree, nobody missed, posted once, success means listed, no dangling pointers, and `WaitsUntilOverlap`: until two updates of a count overlap, `emi_core` waits for exactly the receivers that are not done, and nobody waits in vain |
| `EmiCoreDisorder` | 2 threads, 1 process, all events, all modes, exclusive registrations | the inductive invariant of the index area; no early release with one receiver and no collisions; BLOCK_RETURN success has a receiver, unless the sender brought SUCCEEDED along; refinement of `IndexArea` |
| `EmiCoreLive` | 2 threads, 2 processes with a message each, one bucket, fairness | lock released, message picked up, registration returns, and `CallsEndUntilOverlap`: until two updates of a count overlap, deliveries end |
| `EmiSpace` | 3 threads, 2 areas | the list is a ring under every race; until operations overlap: bytes of one user only, refused only when full, none lost, refinement of `SlotPool` |
| `SendReply` | 5 kinds of request (each also as "the same message again"), data of 0, 2 and 3 units with a maximum of 3, all faults, fairness | what a return value of 0 or -1 says, whole data in both directions, `emi_core` survives unless a sender died or a connection broke, calls and threads end unless the thread waits for receivers for ever |
| `NestedSend` | 2 processes, one message for both and one for one of them, 3 calls, fairness | somebody can go on, and calls return, unless a message for a process whose function waits is in the way |
| `FuncList` | 2 messages, 2 functions, 3 nodes, the handler at any write | no freed entry used, none leaked, refinement of `FuncRegistry`, all until a named misuse |
| `AesMask` | 5 sizes of data, 3 keys, 2 masks, 2 stray bytes, 2 turns, the cipher of `Aes` | decoding restores, what is stored is what FIPS 197 prescribes |
| `Startup` | 3 invocations, with and without `-d` | one server per segment, the lock file names it, what may leave a segment behind |

The following runs find a property, which a comment of the repository states,
violated by the code.  PROJECT.json quotes the text.

| run | property | what happens |
|---|---|---|
| `EmiCoreLostCount` | `SendCompletes` | a receiver's `count--` is overwritten by `count++`, the thread waits forever; while nobody dies nothing else makes it (`CallsEndUntilOverlap`) |
| `EmiSpaceDouble` | `NoDoubleAllocation` | `busy` is read before the lock |

The passing runs and these belong together: `EmiCoreOrdered` and `EmiSpace` say
that without deaths, early senders and overlapping operations the protocol does
what it should, and the violations and the list below say which of these
conditions each part needs.

### Why the bounds are enough

* Two threads and two processes: every race above is between two actors, and
  the lock and the table treat the others alike.  Runs of safety properties use
  symmetry where the instances' elements are alike.
* `COUNT_MOD` stands for 2^32.  The width matters only in that 0 - 1 wraps and
  comes back: with two receivers the count stays within one below zero and two
  above, which are different values from modulus 3 on.  Runs with two
  receivers, or whose properties read every value of the count, use 3 or 4;
  `EmiCoreLive`, where a message has one receiver, uses 2.  What a modulus must
  be is proved: more than the receivers of a message (`Few`, section 5).
* Nodes: as many as registrations; `MCMsgTable` has fewer than that, so that
  `malloc` fails there.
* Areas of the pool: three threads compete for two areas, so that areas are
  refused; with two, head, tail and `HEAD` are a ring in which every neighbour
  relation of the operations occurs.  `EmiSpaceProofs` has any number.
* `posted` and `num` need no bound: a loop ends, since chains do.
* `SendReply`: a unit of data is what one `read` may return alone; two units
  come in one piece or two, `MAX_DATA` = 3 separates data below the maximum from
  data at it, and one more is a size the code refuses.
* `NestedSend`: the two processes can call each other and themselves; three
  calls are two that wait for each other's receivers and one in the way.
* `FuncList`: three nodes make a list with a head, a middle and a tail, of which
  any may be the one that goes; two functions and two messages give entries that
  match in one or in neither respect.
* `AesMask`: 7 bytes are fewer than the mask needs, 16 leave no data, 30 pass the
  seventeenth byte, 52 fill the message and 53 are refused; keys are empty,
  short, and longer than the 16 bytes that are used.  The second turn finds the
  first one's bytes.
* Three invocations: one serves, one races with it, one starts when either ends;
  the theorems of `StartupProofs` hold for any number.

### Disagreements without a run of their own

They are part of the models, and the properties above are stated under the
conditions that exclude them.

Delivery:

* A receiver that dies with a message in its cell leaves the thread spinning at
  `emi_core.c:459` with the lock of all deliveries; so does a zombie, on which
  `kill` succeeds.  (`LockReleased` is checked without crashes.)
* With two receivers the unlocked `count--` may also lose an update the other
  way round, and the area returns to the pool under a handler.  Overlapping
  updates are the only cause of that and of a wait without end, while nobody
  dies (`WaitsUntilOverlap`, `CallsEndUntilOverlap`).  One receiver
  suffices if a colliding registration makes the loop post to it twice, see
  `PostedOnce` below.  (`NoEarlyRelease` is checked with one process and without
  collisions, and proved under `OneReceiver` and `Distinct`.)
* The failed read at `emi_core.c:354` is compared as an unsigned number: the
  thread goes on with the area's previous message (`ReadFails`).
* `emi_core` answers SUCCEEDED to a registration that `malloc` refused
  (`emi_core.c:368`, `383`).  (`RegisteredIsListed` is checked with enough
  nodes.)
* The check of an exclusive registration comes after its insertion
  (`emi_core.c:368-381`); and the library's request loses the flag that asks
  for it to `memset` (`emi_if.c:458-464`), so that it is never made.
* `emi_msg_unregister` does not tell `emi_core` (`emi_if.c:532-552`), against
  `include/emiif.h:93`.
* The entry a thread found is used after `msg_map_lock` is released
  (`emi_core.c:446`, `452`, `467`); when two threads find the same dead process
  one of them uses it freed.  (`PointerIsLive` is checked without crashes.)
* The place in a chain is a number of entries to skip, from the head
  (`include/msg_table.h:77-93`).  A colliding entry in front of a match makes
  the loop find that match twice, so that its process gets the message twice.
  (`PostedOnce` is checked without collisions.)
* When an entry is deleted (`emi_core.c:467`) loops that have walked past it
  step over one of those that follow.  (`NoRegistrantMissed` is checked without
  deaths.)
* `emi_core` answers a registration before the process installs its handler
  (`emi_if.c:512-517`); a message in between kills the process by `SIGUSR2`'s
  default action, and its cell is never emptied although `emi_if.c:218` relies
  on that.  (`MessagePickedUp` is checked with ordered starts.)
* A function that sends a BLOCK message waits in the handler for `emi_core`,
  which holds the delivery lock while it waits for that same process to pick up
  another message (`emi_if.c:229`, `emi_core.c:459`): nothing moves any more.
  (`NeverStuck` and `CallReturns` of `NestedSend` name this, as `Clash`, and
  exclude all other ways.)

Pool and layout:

* Areas are numbered from 1 (`emi_shmem.c:51`) and begin at `bias` plus their
  number times their size (line 56): the last one begins where the segment that
  `emi_core.c:123` asks for ends, if the configured size is the compiled one.
  Only the rounding of segments to pages hides it.  (`LastAreaOutside`;
  `UsersApart` excepts it.)
* The segment and the check of a message's size follow `emi.conf`, the areas
  follow `EMI_DATA_SIZE_PER_MSG` (`include/shmem.h:53`), and nobody compares
  the two.  (`LargerAreasMeet`; `UsersApart` is checked with them equal.)
* The error path of `emi_init_space` walks bufs that it frees
  (`emi_shmem.c:61-65`); `emi_core` then ends.
* `EMI_MAX_MSG` of `include/emi_config.h:6` serves as mask of the hash: the last
  bucket is neither part of `msg_table` nor initialised.  What lies there is up
  to the linker, and `MsgTable` takes it for an empty bucket.

List of functions:

* Unregistering with NULL frees an entry and then reads its `next`
  (`emi_if.c:534-541`), and so does the handler when a function unregisters
  itself; a function that does so while the process is inside its own list
  operation may undo that.  (`FuncList`'s properties end there: `misused`.)
* The library tests `EXCLUSIVE_MSG`, but the build defines `EXLUSIVE_MSG`.
* A registration that fails after it has connected leaves its descriptor open
  (`emi_if.c:486-521`).

Sending:

* `emi_core` does not ignore `SIGPIPE`: a sender that dies before its answer is
  written takes `emi_core` along (`emi_core.c:483`).  (`CoreSurvives`,
  `FailureIsUnserved` are stated for connections that do not break.)
* Returned data that come in pieces are reported as success: the comparison
  after the read is made, but `ret` is set to 0 all the same
  (`emi_if.c:324-330`).  (`ZeroMeansWhole` is stated without faults.)
* When `malloc` or `pthread_create` fails `emi_core` goes on to the next
  connection (`emi_core.c:318-330`) and leaves this one open: a sender that
  wants an answer waits for ever, and descriptor and arguments are lost.
  (`CallReturns` of `SendReply` excepts the call on such a connection.)
* Data of exactly the maximal size are sent but not read: the comparison at
  `emi_core.c:403` is strict.  (`DataAreWhole` is stated below that size.)
* `emi_fill_msg` adds flags to those a message has (`emi_if.c:194`): a message
  that is sent again keeps SUCCEEDED from its last answer, `emi_core` takes it
  for a receiver's (`emi_core.c:489`), and a BLOCK_RETURN call succeeds with
  nobody to receive it.  (`SuccessHasReceiver`, `ZeroMeansServed` and
  `ZeroMeansHandled` except messages that come with it.)
* A thread may wait for receivers for ever, for the reasons under Delivery, and
  neither answers its sender nor gives back its area.  (`CallReturns` and
  `ThreadEnds` of `SendReply` except that wait, `emi_core.c:425-476`, and nothing
  else the thread does.)

Mask:

* The index of the mask runs over 17 values (`emi_if.c:417`, `434`), so that
  every seventeenth byte is hidden under a byte of the stack and restored with
  another.  The last 16 bytes of the data give way to the stored mask.
  (`Restored` excepts both.)

Start and stop:

* `-d` forks after the lock is taken and the pid written
  (`emi_core.c:212-235`): the daemon has neither, and a second one is only
  stopped by `IPC_EXCL`.  (`PidFileNamesServer` is about starts without `-d`.)
* `sig_release` frees `client_sd` (`emi_core.c:74`), which the thread of the last
  connection has freed too (line 512); where the allocator notices, the program
  aborts before it removes the segment.
* `emi_init_msg_space` and `setsockopt` failing return without removing it
  (`emi_core.c:274-277`, `287-290`).

## 4. Fairness

`LiveSpec` adds weak fairness of each thread, of each process's handler and
library call, and of the delivery of signals to processes without a handler:
the kernel runs every runnable thread and delivers a pending signal.  Nobody is
obliged to connect, to crash, to be reaped or to reuse a pid.  The mutex of
`emi_semaphore.h` is not fair, so that nothing is claimed about a thread getting
`critical_shmem_lock`, only about its coming back (`LockReleased`).  Nor is it
said of a process that its library call goes on while signals come without end: a
handler takes the process at every step, and fairness does not help it out.  In
`EmiCoreLive` each process registers one message and gets none before, so that
`RegisterReturns` is about `emi_core`'s part in a registration; with a second
message, sent for ever to the process while it registers, it is violated.

`LiveSpec` of `SendReply` is weak fairness of the sender's process and of
`emi_core` at the other end (the connection's thread, and `main` before there is
one), each of which does one thing at a time; nothing in the environment is
obliged to happen.  The exception is `Search`, `emi_core.c:425-476`: its loops at
459 and 474 end when the receivers see to it, which fairness of the thread does
not make them do (`EmiCoreLostCount`).  It may be taken and need not be
(`Proceeds` is the thread without it).

`LiveSpec` of `NestedSend` is weak fairness of each thread and of each process's
taking of a signal and end of a handler.  Nobody is obliged to send, and a
handler that waits for an answer cannot end.  `Startup`, `FuncList`, `EmiSpace`
and `AesMask` claim no liveness.

`CHECK_DEADLOCK FALSE` is set for `EmiCore` and `NestedSend`, where the system
may really stop, when all registrations and calls are over and, as described
above, earlier; for `FuncList`, which stops when freed memory was used; and for
`AesMask`, which stops after `MaxTurns`.

## 5. Proofs

`MsgTableProofs`, for all messages, processes, addresses and masks:
`TableTypeCorrect`, `TableSoundCorrect` (from `TableIntactCorrect` and
`NoDuplicateEntriesCorrect`), `WalkReachesEachCorrect` (from
`WalkReachesAllCorrect` and `WalkReachesOnceCorrect`) and
`ChainsShiftByOneCorrect`, all of `TableSpec`.  The inductive invariant is type correctness, "every node in a
chain is allocated, hashes there and occurs once" and "equal entries are the
same node"; the two statements about the loop follow from it and from what
`Min` and `RemoveAt` return.  `TableIntact` needs the converse as well, that no
allocated node is lost (`AllLinked`).  That entries shift by one place at most
is a fact about the two operations on a chain (`StaysNear`), given that a node
occurs once.

`EmiCoreProofs`, for all sets of threads and processes and every `Env`:
`TypeCorrect`, `IndexInvCorrect`, `IndexDisciplineCorrect` (invariants of
`Spec`) and `IndexAreaCorrect` (`Spec => IndexAreaSpec`).  `IndexDiscipline`
says that a full cell was written by the lock's holder, for the process it is
posting to.  It is not inductive alone: `SpinEnds` releases the lock because
*its own* cell is empty, so one must know that no other cell is full, that the
thread does hold the lock (`LockOK`), that its locals name a node and a process
(`LocalsOK`), and that a header or an entry holds a pid, even an entry read
through a dangling pointer or a header left in the area by an earlier
connection (`HeadersOK`, `TypeOK`).  `IndexInv` is the conjunction.  There is
one lemma per action, then `NextInv`.  The refinement maps `Lock` to `Post`,
`Pickup` and a failing `Kill` to `Empty`, `SpinEnds` to `Release` and all other
steps to stutters.

`NoEarlyReleaseCorrect` and `SuccessHasReceiverCorrect` are proved for every
`Env` as well, whoever dies, but for one receiver: no two processes register the
same message, and where registrations are exclusive (which hands the entry of
one process to another) there is one process (`OneReceiver`); and no two
messages share a bucket (`Distinct`).  Section 3 says why both are needed.  A
chain then has one entry at most, so that a second search finds nothing
(`ShortChain`, `SecondSearch`).  `OneInv` says what follows for a thread: its
loop posts in the first turn or never (`PostAt`); from the post until the
receiver has counted down, the count is 1, or 0 with `count++` under way, the
message is in one cell or one handler, and the thread has not left the loop's
end (`PendingAt`).  `Finish` wants a count of 0, which only the
receiver's own `count--` brings about; and a message has SUCCEEDED from its
receiver, or came with it (`brought`).  It rests on `IndexInv`, on what requests
and entries may ask for (`RequestsOK`, `EntriesOK`), and on there being one
signal at a time, whose sender still waits (`SignalsOK`).

The second half of `EmiCoreProofs`, for all sets of threads, processes, messages
and collisions, is under `Orderly`: nobody dies, connections hold, registrations
are those the library makes, and nobody sends before the registrations of the
message are over.  `CellAndSignalAgreeCorrect` and `PointerIsLiveCorrect` follow
from `OrderInv` (`OrderInvCorrect`), which is proved on top of `IndexInv`.  A
pointer stays live because only a failing `kill` deletes, and `kill` fails on
nobody who lives (`PeopleOK`); a signal is not taken by the default action
because who is found in the table asked for the message and, once it is sent,
is ready for it (`EntriesOK`, `ThreadsOK`); so every signal has its cell.

Three more invariants stand on these two, and give the three properties about
the table and the loop that walks along it:

* `NoRegistrantMissedCorrect`.  The loop's place is a number of entries to skip
  from the head, and chains grow at the head meanwhile.  `DeliveryInv`: whoever
  was registered when the loop began is in the chain, and has got the message if
  its entry is one the loop has passed.  An insertion moves entries away from
  the head (`InsertMoves`), so that it never makes one passed; a search skips
  only entries that are passed (`SearchMeaning`); the loop passes the entry it
  found after it has posted to its process (`LoopDelivery`).
* `PostedOnceCorrect`, under `Distinct`: no two messages hash alike.  `RegInv`
  ties a registration to the one thread that serves it, and says that its
  message is not on the process's list yet; so nobody registers a message that
  is being delivered, since its registrants are all ready, and without
  collisions nothing else joins its chain (`InsertElsewhere`).  `OnceInv`: those
  posted to are behind the loop's place; entries of a chain differ, so that the
  one it comes to is of a new process (`KillOnce`).  With collisions the
  property is false, as described in section 3.
* `RegisteredIsListedCorrect`, under `Enough`: there are at least as many
  addresses as maps that may be asked for.  `ListedInv` follows the entry from
  the insertion to the process's list.  When no address is free, the maps in
  the table, which differ, are all that may be asked for (`FullHasAll`), so that
  a refused insertion was of an entry already there.

`WaitsUntilOverlapCorrect`, under `Orderly` and `Few`, with any number of
receivers and any collisions.  `Few`: fewer processes register a message than a
count has values, which is 2^32.  `count++` comes after the post, perhaps after
the receiver's `count--`, and the count is then one below 0, modulo 2^32.
`CountInv` says what it is at every step (`Owed`): the handlers that have the
message, plus one if it is in a cell, less one if the thread has still to count
a post.  A post adds one and takes one away, a pick-up moves one from the cell to
a handler, and only the two stores change the sum, by what they store (`ModInc`,
`ModDec`).  When the loop is over the last two terms are 0, and a number below
the modulus is its own remainder (`WaitCount`).  That loaded values are still
those in memory (`LoadsOK`) is what `UpdatesApart` is needed for; it is a
hypothesis about the behaviour, because the code does not see to it
(`EmiCoreLostCount`).  The rest is what `OrderInv` knows: a message in a cell is
of a thread between `kill` and the end of the spin, and goes to one who
registered it.

The second half of `WaitsUntilOverlap` is that nobody waits in vain: a thread
that waits for `critical_shmem_lock` waits for one that goes on or whose receiver
does (`OthersServe`); a full cell of a thread that spins is its own, signalled,
and its process has a handler; a count that is not 0 has a receiver in its
handler (`CountInv`); a registration waits for a thread that waits for nobody
(`RegInv`).  `ThreadMoves` and `HandlerMoves` spell out the guards of the steps,
since `ENABLED` is out of the prover's reach.

`NestedSendProofs`, for any processes, messages, receivers and number of calls:
`NeverStuckCorrect`, from `IInvCorrect`.  Without a `Clash` the lock's holder
waits for a process that has a signal and whose handler runs or can start, so
that when nobody moves the lock is free and every thread waits for handlers that
wait for the answer to a call of their own (`StuckWaits`).  That call is younger
than the one the handler serves (`NestedOK`), and there is a youngest
(`GreatestThread`), so that they do not wait in a circle.  For that the
invariant must know that who is still counted as a receiver has the message in
the cell or in hand (`CountOK`, `CellOK`, `HandlerOK`), and that a full cell has
its signal (`SigOK`) and is of the thread that holds the lock (`ThreadsOK`).

`FuncListProofs`, for any number of messages, functions and nodes:
`NeverAstrayCorrect`, `NothingLeakedCorrect` and the refinement of
`FuncRegistry`, `RegistryCorrect`, from `ListInvCorrect`.  The list is stated as
a sequence `s` of nodes, of which `next` makes a ring with `HEAD` at every write,
`prev` one but for what the call in progress has still to write (`Behind`); what
is allocated is `s` and at most one node beside it (`Memory`); the process and
the handler stand at places of `s` (`Caller`, `Walker`).  There is one lemma per
action that says what becomes of `s`: a node is pushed at `AddPublish`, cut at
`DelNext` and by a function that unregisters itself, and all else keeps it.
Those two writes are where `Register` and `Unregister` of `FuncRegistry` take
effect; that the node cut is the first of its kind, as `Unregister` wants,
is why `Caller` remembers that none before it matched.  `Chain`, a recursive
function, is tied to `s` by `ChainIs` without induction: two functions that
satisfy its recursion have no least place where they differ.

`EmiSpaceProofs`.  First the layout of `ShmLayout`, for all numbers and sizes:
`AreasDisjoint` (if the configured size is not above the compiled one),
`LargerAreasMeet` (if it is), `IndexApart`, `AreasInside` and
`LastAreaOutside`.  Then `EmiSpace`, for all sets of threads and numbers of
areas.
`ListIntactCorrect` holds however threads interleave: `ListInv` says what the
list is while a buf is out of it or half in, and that what a thread read
without the lock is an area all the same.  A ring of all bufs is stated as "no
proper subset is closed under `next`", which needs no induction to keep.  The
others, `UsersApartCorrect` (with equal sizes), `RefusedOnlyWhenFullCorrect`,
`NothingLostCorrect` and `PoolUntilOverlapCorrect`, follow from `PoolInv`, which
holds until two operations overlap: a buf is busy exactly if a thread has it,
the busy ones are at the end of the list, and a thread that looks for its area
from the end has not passed it.  Positions in the list are least numbers of
steps from the head.

`SendReplyProofs`, for every size, set of requests and set of faults: the six
safety properties of the `SendReply` run, from `SendInvCorrect`.  What a sender
learns depends on what is under way to it, so that `SendInv` says for each place
a message and its answer can be at what all others are at: the connection
(`LinkOK`), the request (`RequestOK`), the answer (`AnswerOK`), who is still
there when nothing breaks (`StandOK`), the answer to a BLOCK call (`BlockOK`),
returned data (`WholeOK`), data sent (`DataOK`).

`AesMaskProofs`: `RestoredCorrect`, for all data, sizes, masks and keys, under
`CipherInverts`, that decryption undoes encryption.  For `Aes` TLC evaluates
that on the run's keys and masks (`InverseAssumption` of `MCAesMask`); for every
key it is a statement about unrolled rounds that the provers cannot unroll back.

`StartupProofs`, for any set of invocations: `ServesOwnSegmentCorrect`,
`PidFileNamesServerCorrect`, `NothingLeftCorrect`.  `StartInv` adds four facts
to type and `ServesOwnSegment`: without `-d` the lock is held from `fcntl` on
(`Locked`), so that nobody else has written the file (`Named`); `core_shmid` is
set wherever an error return uses it, and the handler is installed before there
is a segment (`Known`); and a segment whose maker is gone has a cause
(`Blamed`), which is `NothingLeft` without its condition that nobody runs.  The
ways to end have a lemma each, all of them from `EndsKeeps`.

Assumptions are the named `ASSUME`s of the modules: of `Startup`, that nobody is
no invocation; of `NestedSend`, that a message has a set of receivers and the
number of calls is one; of `FuncList`, that `HEAD` and NULL are no nodes, NULL no
function, and that there are finitely many nodes; of `MsgTable` and `EmiCore`, that NULL is no node, 0 no pid and
no area's offset, that 0 is a message number (zeroed memory holds it) and that a
count has at least two values; of `ShmLayout` and `EmiSpace`, that sizes are
numbers, a header is not empty, `__msg_list` is no buf and there are two areas
or more (with one, a thread that searches without the lock may take the head of
the list for an area); of `SendReply`, that requests are what the library's
wrappers send and sizes are within one of the maximum; of `AesMask`, that data
are bytes.  TLC evaluates them in every run.

Only model-checked:

* all liveness: `LockReleased`, `MessagePickedUp`, `RegisterReturns`,
  `CallsEndUntilOverlap`, both `CallReturns`, `ThreadEnds` - liveness under
  fairness is outside what the prover does.  What is proved of it is that the
  system does not stop: of the second `CallReturns` by `NeverStuckCorrect`, of the
  first four by `WaitsUntilOverlapCorrect` (while a call is under way, there is
  a step for what it waits for);
* `CipherIsFips`: rounds unrolled over tables of 256 words on one side, the
  standard's loops on the other; TLC compares them on the run's keys and data.

## 6. Not modelled, and what is left

Not modelled: the configuration parser, which reads key=value lines at start and
whose results are constants here; debug output; tests and build files; the
assembly locks (mutual exclusion is assumed of them); functions that nothing
calls (`emi_hsearch`, `same_next`, `__emi_obtain_consecutive_space`); the
branches for `EXCLUSIVE_MSG`, which no build defines, and for AES keys of 24
and 32 bytes, which no caller asks for; a failing `pthread_detach`, which
changes nothing before the thread ends.

Two hazards have no property: the exclusive registration (`emi_core.c:374`),
which does not do what its comment says, as described above, and the last
bucket of the table (`include/emi_config.h:6`), whose content no source line
determines.
