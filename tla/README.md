# The XINU kernel in TLA+

This is the formal specification of the kernel in `src/`: XINU for the
BeagleBone Black with bounded message queues added (`newsend.c`,
`newreceive.c`). It holds TLA+ modules for the parts that keep state, the TLC
configurations that check them, and TLAPS proofs about the core. `PROJECT.json`
maps every definition to the lines it models.

## 1. The system

One processor runs processes and one timer interrupt. A system call disables
interrupts, works on global tables and restores them, so nothing interrupts it.
The hard part is that `resched` may be called in the middle of a call and give
the processor to another process, which then enters the kernel itself. Almost
every question below is about state that was read before such a switch and is
used after it.

| component | state | operations | interacts with | what makes it correct |
|---|---|---|---|---|
| process queues (`queue.c` `newqueue.c` `getitem.c` `insert.c` `insertd.c`) | `queuetab` | enqueue, dequeue, getfirst, getitem, insert, insertd | everything that blocks or readies | a process is on one queue, the one its state names; the ready list is sorted by key; the keys of the sleep queue add up to delays |
| scheduler (`resched.c` `ready.c` `yield.c` `chprio.c`) | `readylist` `currpid` `preempt` `Defer` | resched, resched_cntl, ready, yield, chprio | called by every blocking and waking call | the highest priority runs; there is always somebody to run; equals share; deferral ends |
| processes (`create.c` `kill.c` `suspend.c` `resume.c`, exit, userret, xdone) | `proctab` `prcount` | create, kill, suspend, resume, exit | semaphores, queues, `send` to the parent | killing a process leaves no trace of it; the system halts when the last user process exits |
| semaphores (`wait.c` `signal.c` `signaln.c` `sem*.c`) | `semtab` | wait, signal, signaln, semcreate, semdelete, semreset, semcount | scheduler | counts and queues agree; first come first served; no unit lost |
| clock (`clkhandler.c` `wakeup.c` `sleep.c` `unsleep.c`) | `sleepq` and its keys | timer interrupt, sleepms, wakeup | scheduler, `recvtime`, `kill` | each sleeper wakes after its own delay, whatever happens to the others |
| one-slot messages (`send.c` `receive.c` `recvclr.c` `recvtime.c`) | `prhasmsg` | send, receive, recvclr, recvtime | scheduler, clock, `kill` | a receiver that runs has its message; message and timeout race once |
| message queues (`newsend.c` `newreceive.c`) | `proctab[].nmsg` | sendMsg, sendMsgs, sendnMsg, receiveMsg, receiveMsgs | scheduler; `PR_RECV`, shared with `receive` | bounded FIFO inboxes; a receiver is woken when there is something, and finds it |
| ports (`pt*.c`) | `porttab` `ptfree` `ptnextid` | ptcreate, ptsend, ptrecv, ptreset, ptdelete, ptcount | two semaphores each, a common pool of nodes | bounded FIFO channels; clearing a port cancels what is under way; no node is lost |
| memory (`getmem.c` `freemem.c` `getstk.c`) | `memlist` | getmem, freemem, getstk | create, kill, buffer pools | free, held and lost blocks and stacks partition the heap; a request fails only if no row of free cells is long enough |
| buffer pools (`mkbufpool.c` `getbuf.c` `freebuf.c`) | `buftab`, the first words of buffers | mkbufpool, getbuf, freebuf | semaphores, memory, kill | a buffer has one owner; a granted unit finds a buffer |
| marks (`mark.c`) | `marks` `nmarks`, the marked locations | mark | a semaphore; runs with interrupts enabled | mark returns OK for a marked location only; no index is given out twice |
| date (`ascdate.c`) | `Date.dt_daylight` | ascdate | | the date, the time, the day of the week and the daylight-saving period are those of the calendar |
| time of day (`gettime.c` `getutime.c`) | `clktime` `Date.dt_boot` `Date.dt_bootvalid` | gettime, getutime | clock, a time server over UDP | at most one second ahead of the server; the UDP slot is released on every way out |
| device switch, console, start-up, interrupt entry | `devtab`, none | see `PROJECT.json` | | |

The hard behaviours, all in `PROJECT.json` under `hazards`: switches inside
`kill`, `wakeup`, `signaln`, `semdelete`, `semreset`, `sendnMsg`, `_ptclear`;
kills of processes that wait, sleep, were just granted something, or are inside
a call; messages racing timeouts; priorities that change under a sorted list;
ports reset and created again under waiting processes; rings and keys at their
boundaries. `mark` and `getutime` are harder in another way: they run with
interrupts enabled, so another process may come between any two of their steps.

## 2. The modules

```
ProcQueue    getitem, insert, insertd, unsleep as operators on sequences and keys
 KernelState  the tables, resched, resched_cntl, ready
  Semaphores   Messages   Clock   Processes     one action per call or continuation
   Kernel       all of them: Init, Next, fairness, properties
    MCKernel     values for TLC              SemSpec    counting semaphores  (abstract)
    MsgQueue     message queues              TimerSpec  independent timers   (abstract)
     MCMsgQueue                              MsgSpec    bounded inboxes      (abstract)
Tasks        processes, scheduler and semaphores as the services above see them
 Ports        ports                          PortSpec   bounded channels     (abstract)
  MCPorts
 BufPool      buffer pools, over Tasks and Memory
 Marks        memory marking
Memory       the free list, stacks           HeapSpec   a set of free cells  (abstract)
QueueTable   the doubly linked queuetab      QueueSpec  sequences with keys  (abstract)
Calendar     ascdate
TimeOfDay    gettime, getutime, clktime
 MCServices   BufPool, Marks, QueueTable, Calendar and TimeOfDay for TLC
QueueProofs   lemmas on the queue operators, on sums and on ways to choose and count
 KernelProofs   the inductive invariant of Kernel and its theorems
  KernelTheorems    priorities, receivers, prcount; down to SemSpec and TimerSpec
   MsgQueueProofs    message queues, down to MsgSpec
 TasksProofs    what waiting, signalling and kills do to the processes of Tasks
  PortsProofs    ports, down to PortSpec
 MemoryProofs   the heap, down to HeapSpec
ServiceProofs  BufPool (over TasksProofs and MemoryProofs), Marks, TimeOfDay, Calendar,
               QueueTable, down to QueueSpec
```

**How code becomes actions.** A call is one atomic action as long as it does
not switch. Where `resched` may switch, the action ends; what the caller has to
do when it has the processor again is its continuation `kpc[p]`, a label and
the two locals the rest of the call reads. `Receive`, for instance, is the call
up to its `resched`, `ReceiveDone` is lines 21-25. `InUser` says that the
current process is in user code; then any call or a clock interrupt may come.
Otherwise the only step is the rest of the current call, since interrupts are
disabled. `Resched(st, rl, key)` is given the process states, ready list and
keys as its caller left them, so an action states its own updates and the
scheduler's in one formula. The loops of `signaln`, `semdelete`, `semreset`,
`wakeup` and `sendnMsg` run one iteration per step, so that what holds in the
middle of them is checked too. The null process has no calls to make; it runs when nobody
else is ready.

`unsleep.c` has no action: it is `UnsleepKeys` inside `Kill` and `Send`.
`exit` and `userret` are `Kill(currpid)`. `getpid`, `getprio` and
`semcount` change nothing. Calls that fail their argument checks change nothing
either and appear as guards.

**What is abstracted.** `newpid` and `newsem` may return any free entry (the
code's cursors choose one of them). Message words of `send` are left out; only
`prhasmsg` matters there. Delays are in ticks. Stacks, names and descriptors of
processes are left out. Code outside `src/`: the macro `isbadpid`, whose
definition is in a header that is not there, is the operator `IsBad`; with
`FreeIsBad` it also rejects free entries, as in XINU's `process.h`, and
the proofs cover both readings.

**Tasks** is what the services above the kernel stand on: what Kernel shows
(`ImplementsSemaphores`, `DeferredOnlyInLoops`) is what Tasks assumes, namely
that semaphores are atomic, first come first served, and that the release of all
waiters by `semreset` and `semdelete` is not interrupted. Its scheduler is the
kernel's with priorities forgotten: only the current process acts, it loses the
processor where it waits or where it readied somebody, and in user code at any
time. `cont` is the continuation, as `kpc` above.

**Ports.** `_ptclear`
is three steps, cut where its two semaphore calls may switch. The node list of a
port is a sequence of messages, the free list a number. `_ptclear` calls a
disposal function of its caller's for each message (`ptclear.c:30-32`) while the
port is in limbo and before its nodes are free. It is left out: the model, and
with it every property of ports, assumes that it makes no call of the kernel.

**Memory.** The free list is the sequence of its blocks, sorted by address;
`GetMem`, `GetStk` and `FreeMem` are functions from a list to a list and a result,
in arithmetic modulo `WORD`. `create` and `kill` appear as what they do to
stacks: `create` takes the stack before it looks at the process table and the
priority, and forgets it when they fail (`lost`). `HeapSpec` knows free cells
only. It fixes what coalescing is for: a request is refused only if there is no
row of free cells that is long enough.
A request so large that rounding wraps to zero is met: `getmem` returns the first block,
which stays free. When the caller frees it with the same size, which is not zero
either, it depends on what has become of the block. If it is still the head of a list element,
its header is overwritten and it is linked to itself, with length zero: the list ends in a
circle. If it has been granted to somebody since, a node of no
bytes is written into memory that is in use. If it lies inside a free block by now, `freemem` refuses
it, and at the end of one nothing changes.
`FreeMem` has all of these. `Intact` says that the list has no node of length zero;
`MemNext` stops at a list that is not intact, for what the next call does with it
depends on memory that the model does not have, and the properties are about intact
lists. `OnlyWrapBreaks` says that nothing else ever breaks the list.

**BufPool.** `word` is what the first word of each buffer holds: the next free
buffer, or the pool's number. `mkbufpool` may find no semaphore and gives its
memory back; `freebuf` may be called for any buffer in use, by any process, and
a second time for one that is on the list (`MayFree`). `kill` may strike a process that
waits in `getbuf`, or that was just granted a buffer.

**Marks.** Each step of `mark` is an action, the assignment `marks[(*loc) =
nmarks++] = loc` three of them, and the clock may take the processor between any
two. `content` is what the locations hold; it may be anything at first, a
valid index included. Its first test, of three variables, is one step: as
`nmarks` never falls and no entry is written twice, the answer that the code gets
is one that was right at some moment of the test.

**QueueTable** has one action per way the kernel's calls enter or leave a queue;
`place` is the queue that a process's state names. `QueueSpec` has the lists and
keys by themselves and is shown to be implemented, so the sequences of
`ProcQueue`, on which the kernel's proofs stand, are what the links say.

**Calendar** has one action, a call of `ascdate`; the loops over years and months are
searches, the text is a record of what it says. **TimeOfDay** has the steps of
`getutime` between which another process or the network may act. The network
(outside `src/`) loses and delays requests and answers; `udp_register` refuses a
slot that is in use. The seconds of the server and those that `clkhandler` counts
do not begin together: ours have the phase of the boot, and an answer says nothing of
fractions. Between two of the server's seconds at most one of ours ends
(`due`), or none, for interrupts can be lost while they are disabled.

## 3. The runs

| run | checks | result |
|---|---|---|
| `KernelSync` | TypeOK, OneQueue, CountMatchesQueue, HighestPriorityRuns, DeferredOnlyInLoops, SomeoneToRun, ImplementsSemaphores | hold |
| `KernelTime` | LiveCount, ReceiveHasMessage, ImplementsTimers, NoEarlyWake | hold |
| `KernelFair` | SleeperWakes, TimeSharing (liveness) | hold |
| `MsgQueues` | RingConsistent, FoundEnough, NoMessageWaits, ImplementsInboxes | hold |
| `Ports` | UnitsAccounted, NodesConserved, PanicJustified, WaitersBelong, ImplementsChannels | hold |
| `Services` | memory: HeapPartitioned, DoubleFreeRefused, OnlyWrapBreaks, ImplementsHeap | hold |
| | buffer pools: OneOwner, UnitsHaveBuffers, PoolsInHeap | hold |
| | marks: OverrunBounded, EntriesFilled, MarkedOnReturn, MarksStay | hold |
| | queue table: WellLinked, ImplementsQueues | hold |
| | date: StandardTimeRight, DaylightTimeRight, DaylightPeriod | hold |
| | time of day: BarelyAhead, SlotReleased | hold |
| `KillRace` | HaltsWhenDone | violated |
| `ChPrioOrder` | DispatchesHighest | violated |
| `ZeroTimeout` | NeverOverdue | violated |
| `MsgBatch` | FoundEnough, for two messages at a time | violated |
| `MixedMessages` | FoundEnough, with `kill`'s messages to parents | violated |
| `PortCount` | CountIsMessages | violated |

The six violations are disagreements between the code and what its comments or
its test program say; `PROJECT.json` quotes both sides.

* `KillRace`: `kill` decrements `prcount`, then `send`s to the parent, which may
  run at once and kill the same, still existing process again. `prcount` drops
  twice for one process and the processor halts under the last ones.
  The passing runs set `SerialKills`, a discipline of the processes (no kill
  starts while another is under way), because after a double kill the tables
  say little about processes. The proofs do not need it.
* `ChPrioOrder`: `chprio` leaves a ready process where it was in the list.
* `ZeroTimeout`: `recvtime(0)` at the head of the sleep queue is taken below
  zero by the clock and never matches `== 0` again.
* `MsgBatch`: `receiveMsgs(buf, 2)` wakes at the first message, and takes two.
* `MixedMessages`: `receive` and `receiveMsg` block in the same state, so the
  message that `kill` sends to a parent wakes it out of `receiveMsg`, with its ring
  empty. `MsgQueues` keeps the two kinds of message apart: nobody is killed there.
* `PortCount`: a receiver killed between its wake-up and its turn leaves a
  message that `ptcount` does not see. Its unit is lost; the messages and
  nodes are not (`UnitsAccounted` and `NodesConserved` hold under the same kills).

Four more are stated by properties that hold, with the exception in them.
`mark` tests for room before it takes the mutex, so it can mark past the end of
the table; `OverrunBounded` says by how much, and `EntriesFilled` and
`MarkedOnReturn` that nothing else goes wrong as long as the memory behind the
table is nobody's. With daylight saving, `ascdate`
gives the day of the week before in the first hour of each day, and when it is
always on, it leads from December 31 to a month that there is not and in leap
years from February 28 to March 1; `DaylightTimeRight` excepts just that.
The heap's properties hold until a grant for a request that wrapped is freed
(`OnlyWrapBreaks`); TLC reaches both ways in which that breaks the list. And the time
of day may be one second ahead of the server's, when the second in which the
answer came ends here first; `BarelyAhead` says that it is never more, and a
bound of zero is violated.

### Bounds

The kernel runs have the null process and two or three user processes, one
semaphore with counts up to `MaxCount`, a time slice of one or two ticks and
delays of zero to two ticks. Three users are a signaller, a waiter and a third
that kills, overtakes or shares with either; two waiters order a queue. Two
sleepers with different delays make insertion before, after and at equal keys
happen. One semaphore suffices because semaphores share no state but the
scheduler. `Calls` restricts each kernel run to the calls its question is about,
and names what is left out; the three passing ones together make every call.
`chprio` is in `KernelFair`, where it can only give a process (the null process
included) the priority of the others, and in `ChPrioOrder`; the proofs cover it for all.
`MsgQueues` has rings of two, so that they fill and wrap, arrays of two messages,
multicasts to two recipients (the same one twice, too), and `Takes = {1}`; `MsgBatch` has `Takes = {2}`.
`Ports` has three processes, two ports of size two, two nodes (so the ports are
oversubscribed and `panic` is reached), three semaphores (so the second port
finds the table full), and `MaxSeq = 3`: a port is created, cleared and created
or cleared once more, which is what stale calls need.
Symmetry is used for processes, messages and semaphores in `MsgQueues`, `Ports`
and `PortCount`, which check safety only. `Ports` and `PortCount` turn off the
deadlock check in effect through `Stopped`: after `panic`, or when every process
is blocked or gone, nothing more happens in the program either.

`Services` runs one service at a time (`part`): they share no state, save that
pools take their memory from the heap, so running them together would only
multiply their states. It has no deadlock check, for a call of `ascdate` happens
once, the server's time ends at `MaxTime`, and processes may all wait for
buffers. The heap has six cells, so that three blocks with gaps between them,
both stacks and a failing request fit; words are six bits wide, and a request of
62 bytes wraps when it is rounded, a stack of 60 is the largest that does not.
Pools have one or two buffers and there are three of them, with two
semaphores, so `mkbufpool` fails for want of each. The table of marks has one entry
and three processes two locations to mark, so the table overflows, by two, and
one location is marked twice. The queue table has three processes, a semaphore
queue, the ready list and the sleep queue, equal and different keys and
delays. `ascdate` is called with the first and the last second of the hours
that matter, on all days on which a year, a month or daylight saving may begin or end, in one
common and one leap year for each day of the week (16 years, up to 2037, beyond
which TLC's integers do not reach). Two callers of `getutime` and two
seconds of the server's let an answer arrive late, in another call, and our seconds end
before or after the server's.

The callers are held to what the programs do. Blocks and stacks are freed once and
with the size they were asked for (`DoubleFreeRefused` looks at what `freemem`
does with anything else), and nobody writes into the grant for a request that wrapped.
`create` is called with sizes that do not wrap, for it would write
the first frame of the process into memory that stays free. The last buffer of
a free list is not freed again (`MayFree`): the end of the list reads as pool 0, so
`freebuf` would accept it, and the properties of buffer pools say nothing of
that one mistake, though it does harm.

### Fairness

`FairSpec` assumes `WF(KernelStep)`: the processor does not stop inside the
kernel; and `SF(ClkHandler)`: the timer raises its interrupt for ever, and it
stays pending until interrupts are enabled, which happens again and again but
not for good. Nothing is assumed of processes: they may compute for ever. Under
that, sleepers wake, and a ready process gets the processor from its equals
(`KernelFair` has one priority; XINU promises nothing to lower ones).

## 4. What is proved

`KernelProofs` proves, for any numbers of processes and semaphores, any
`QUANTUM`, counts and delays, both readings of `isbadpid` and with or without
`SerialKills`:

| theorem | of `Spec` |
|---|---|
| `Invariant` | `[]IInv` |
| `TypeCorrect` | `[]TypeOK` |
| `QueuesConsistent` | `[]OneQueue` |
| `CountsConsistent` | `[]CountMatchesQueue` |
| `NullProcessEligible` | `[]SomeoneToRun` |
| `DeferralEnds` | `[]DeferredOnlyInLoops` |

None of these is inductive alone. `OneQueue` needs that continuations fit the
states (a process inside the `semreset` loop is current, a killer's victim may be
anything but null); `CountMatchesQueue` fails inside `semreset`, and to get it
back one needs the loop's exit condition; `semcreate` reuses an entry whose
queue it does not touch, so the invariant has to say that a free semaphore has
no waiters unless its `semdelete` is still under way. `IInv` is the conjunction

* `SchedOK`: one current process, the ready list is exactly the ready processes, null always among them or current;
* `SleepOK`, `SemOK`: the same for sleepers and each semaphore's waiters;
* `CountMatchesQueue`, `FreeOK`: counts against queues, free semaphores;
* `ContextOK`: deferral and continuations;
* `FieldsOK`: the types of everything else.

`QueueProofs` has the lemmas on the queue operators (what `getitem`, `insert` and
`insertd` do to membership, injectivity, order and length), the two induction
principles the other modules use, on numbers and on finite sets, and what sums
over finite sets and along a delta list do when one summand changes. `KernelProofs` proves one lemma per
scheduler operator (what `Resched` does to `SchedOK`, for any states and list it
is given), one per action, and puts them together in `NextOK`. The assumptions
are those of `KernelState` on its constants, nothing else.

`KernelTheorems` adds to that what depends on keys, contexts and counts:

| theorem | hypothesis | of `Spec` |
|---|---|---|
| `PriorityInvariant` | no `chprio` | `[]PriorityInv` |
| `HighestRuns` | no `chprio` | `[]HighestPriorityRuns` |
| `DispatchesBest` | no `chprio` | `DispatchesHighest` |
| `ReceiversServed` | | `[]ReceiveHasMessage` |
| `LiveCounted` | `SerialKills` | `[]LiveCount` |

Both hypotheses are necessary, and the violations show it: `ChPrioOrder` breaks
`DispatchesHighest`, which `DispatchesBest` proves without `chprio`; `KillRace` is what
`SerialKills` excludes. `PriorityInv` is that the ready list descends, that its
keys are the priorities, and that nobody on it exceeds the current process
unless a deferred reschedule was attempted: `resched` looks at the head of the list only.
For `ReceiveHasMessage`, `ReceiverInv` says of every process inside `receive`, running
or not, that it still waits or has its message. `LiveInv` counts the
process that a `kill` under way has subtracted from `prcount` but not freed.

`KernelTheorems` also proves that the kernel implements its two abstract
specifications:

| theorem | hypothesis | of `Spec` |
|---|---|---|
| `SemaphoresAreCounting` | | `ImplementsSemaphores` |
| `NobodyWakesEarly` | | `NoEarlyWake` |
| `DeltaListIsTimers` | `0 \notin Timeouts` | `ImplementsTimers` |
| `NobodyOverdue` | `0 \notin Timeouts` | `[]NeverOverdue` |

`ZeroTimeout` shows that the hypothesis is needed: it breaks
`NeverOverdue`. For semaphores, `SemInv` adds to `IInv` that the count in the
`semreset` loop is negative as long as somebody is on the queue, which gives each round of the
loop somebody to give its unit to. For timers, what is left of a delay is the sum
of the keys along the sleep queue up to the sleeper's own (`Left`). `SleepStep` says
that a step does one of five things: it leaves the queue and its keys alone, releases the head in
`wakeup`, lets a process enter, lets one leave early, or ticks the head's key down.
Every action of the kernel is shown to be of one of these kinds, and for each kind a
lemma says what becomes of the sums: `LeftGrown`, for instance, that `insertd` gives the new
sleeper its delay and leaves everybody else's alone, wherever in the queue it goes. `TimerInv` is the
strengthening: no key is negative, and the first one is zero only while `wakeup`
looks at it. `NobodyWakesEarly` needs none of that.

`MsgQueueProofs` proves, for rings of any size, any arrays of messages, and the
kernel's calls going on beside them:

| theorem | hypothesis | of `MsgQueueSpec` |
|---|---|---|
| `KernelUnharmed` | | `[]TablesOK`, of which `IInv` is a part |
| `MessagesNoticed` | | `[]NoMessageWaits` |
| `ReceiversFind` | `NoOtherSends`, `OneAtATime` | `[]FoundEnough` |
| `RingsConsistent` | the same | `[]RingConsistent` |
| `RingsAreInboxes` | the same | `ImplementsInboxes` |

The hypotheses are that neither `send` nor `kill` is called and that receives
are for one message; they are the two conditions whose absence the runs `MixedMessages`
and `MsgBatch` show to be fatal. A step is of one of five kinds:
a message is delivered, a message is taken, the caller blocks, the call changes neither rings
nor who waits for one, or it is one of the kernel's own. What a step may do to
`RingInv` depends on its kind only. Its heart is `Served`: a process inside a receive
that is no longer blocked has a message in its ring. The code never
looks again, so this rests on every call of the kernel that could make a process ready.

`TasksProofs` has what ports and buffer pools share: how the queue of a
semaphore and the sets of waiting and running processes change together in `wait`,
`signal` and `kill`. `PortsProofs` proves, for any number of processes, ports, semaphores, nodes and
messages, and any kills:

| theorem | of `PortsSpec` |
|---|---|
| `PortsInvariant` | `[]PortsInv` |
| `PortUnits` | `[]UnitsAccounted` |
| `PortWaiters` | `[]WaitersBelong` |
| `PortNodes` | `[]NodesConserved` |
| `PanicsOnlyOverbooked` | `[]PanicJustified` |
| `PortsAreChannels` | `ImplementsChannels` |

`OwnersOK` says which port owns a semaphore at each moment: an open port both
of its own, a port in limbo those that its clearing has not deleted or that
somebody still waits on; no two own the same one. Then a unit
that a call releases never reaches a process of another port, or of the same port under an
earlier `ptseq`. `UnitsOK` is the balance of each port: units free, messages queued and
processes under way (`Claims`) add up to the size, less what kills took with them.
A step of one port is shown to be `Local`, so that the others keep their balance.
The assumptions are those of `Tasks` and `Ports` on their constants.

`MemoryProofs` proves, for any word, heap and requests:

| theorem | of `MemSpec` |
|---|---|
| `MemoryInvariant` | `[](Intact => MemInv)` |
| `BrokenByWrapOnly` | `OnlyWrapBreaks` |
| `DoubleFreesRefused` | `[]DoubleFreeRefused` |
| `HeapIsPartitioned` | `[]HeapPartitioned` |
| `ListIsHeap` | `ImplementsHeap` |

The argument is about addresses, not lengths. The list is sorted with gaps
(`ListOK`); it covers a set of addresses (`Covered`); `getmem` and `getstk` take a run away from that set and
`freemem` adds one, and the runs that callers, stacks and failed creates own are apart from it and
from each other. Byte sums, the length in the list's head among them, follow by
counting addresses. For the refinement, a row of free cells lies inside one block because blocks
have gaps between them, so first fit refuses only what no row could
hold. A request that wrapped owns no address, which is why its grant is harmless until it
is freed; `Breaking` shows that freeing it is the one step that can leave a node of no bytes, and
`InvIntact` that `MemInv` has none. The assumptions are those of `Memory`: sizes divide one another, and the
heap is aligned, not empty and below the end of the word's range, so that
addresses inside it do not wrap, though requests may.

`ServiceProofs` proves of buffer pools, for any number of processes, any heap
and word, any pools and any kills of processes inside `getbuf`:

| theorem | of `PoolSpec` |
|---|---|
| `PoolInvariant` | `[]PoolInv` |
| `BuffersOwned` | `[]OneOwner` |
| `UnitsAreBuffers` | `[]UnitsHaveBuffers` |
| `PoolsAreInHeap` | `[]PoolsInHeap` |

The list of a pool has no other representation than the words of its buffers.
`Listed` says that an injective sequence of addresses, whose elements are the free
buffers, is what the links lead along; a push in `freebuf` and a pop in `getbuf`
lengthen and shorten it, and leave every other pool's alone because pools own disjoint
memory (`PoolsInHeap`) and the words written are in it. `UnitsOK` is the balance of units and free
buffers, where a process that `freebuf` has handed a unit to, and that has not run since,
holds one (`Units`): its kill loses the unit, so with kills it is an
inequality. `GettersOK` says that whoever waits is in `getbuf` for a pool, on the queue of its
semaphore, and `SemsOK` that no two pools share one. `mkbufpool` needs `MemInv`: that
`getmem` grants what is apart from all else, and that its block is
long enough although `mkbufpool` multiplies in words. That is where an assumption of
`BufPool` comes in: the largest pool's size is a word. (`bufpool.h`, which is not in
`src/`, has 2048 buffers of 8 KB at most.)

`ServiceProofs` proves of marks, for any number of processes and locations, any size of the
table and anything the memory may hold:

| theorem | of `MarkSpec` |
|---|---|
| `MarksInvariant` | `[]MarkInv` |
| `OverrunIsBounded` | `[]OverrunBounded` |
| `EntriesAreFilled` | `[]EntriesFilled` |
| `ReturnsMarked` | `[]MarkedOnReturn` |
| `MarksPersist` | `MarksStay` |

`MarkedOnReturn` needs mutual exclusion (`MutexOK`: the queue of the mutex is
the waiting processes, in order and once each, and one process at most is inside, none
when the count is one), which in turn needs `TasksOK`. `InsideOK` says how far
the process inside has come. That it writes inside the array at all
needs `OverrunBounded`, whose left side counts every process that has seen room:
the sum stays below `MAXMARK + Cardinality(Pid)` because a claim becomes an
entry in `MarkTake`. `FreshOK`, that entries not yet given out are untouched, is
what `MarksStay` needs. The assumptions are those on the constants of `Tasks`
and `Marks`.

`ServiceProofs` proves of the time of day, for any number of callers, any time zone and boot time, and
a network that loses and delays as it likes:

| theorem | of `TimeSpec` |
|---|---|
| `TimeInvariant` | `[]TimeInv` |
| `ClockBarelyAhead` | `[]BarelyAhead` |
| `SlotAlwaysReleased` | `[]SlotReleased` |

`Behind` is the strengthening: the answers on their way and the local `now` of every caller
are times that have passed, and the time of boot, with the seconds counted since, leaves room for the
one of ours that is due: what is added to it before the server's next second ends is at most that.

`ServiceProofs` proves of `ascdate`, for every second from 1970 to the end of 2099 and any lengths
of a minute and an hour of which 24 make a day:

| theorem | of `DateSpec` |
|---|---|
| `StandardTime` | `[]StandardTimeRight` |
| `DaylightTime` | `[]DaylightTimeRight` |
| `DaylightSaving` | `[]DaylightPeriod` |

The two loops, over years and over months, get closed forms (`YearStart`, `MonthOffset`), and so
does the reference calendar, which reckons from March (`DayNumberIs`). `Dated` says that
the closed form of a date is the number of days that have passed, which makes the date the
reference's too. Daylight saving adds
an hour; `DaylightTime` is the case analysis of what follows the last hour of a day. It
corrected the property: the year boundary of 2099 had been left out of its exceptions, and no
run reached it. The one assumption that is not about units is that
times are before 2100, which `isleap` takes for a leap year.

`ServiceProofs` proves of the queue table, for any numbers of processes and semaphores, any
priorities and delays:

| theorem | of `TableSpec` |
|---|---|
| `TableLinked` | `[]WellLinked` |
| `TableIsQueues` | `ImplementsQueues` |

The kernel's proofs stand on sequences; `TableIsQueues` is what lets them. `Threaded` says
that `qnext` and `qprev` lead along one list of processes, each once, from a head node to its
tail node, whose key is below every priority; `TableInv`, that each queue made so
far is threaded over exactly the processes whose `place` it is. From that, `ListIs`
shows that a walk along `qnext` finds that list and then no node, and `InsertedIs`
and `InsertedDIs` that the walks of `insert` and `insertd` stop where `QueueSpec` says: the
first before the tail at the latest, for its key is the smallest; the second before the first
sleeper whose own delay, the sum of the keys so far, is longer. `ThreadLinked`
and `ThreadUnlinked` are the two repairs of the links, at any place
of a list; that no other queue changes follows from queues having no node in common, since a
process has one node and one `place`. A process that `getitem` took out keeps its old links, which
lead into a queue it is not on: the invariant says nothing of them, and no
step needs them. The assumptions: the table has room for the queues that start-up
makes (`NQENT` is defined outside `src/`; the model lets only `sysinit` and `clkinit` call
`newqueue`, as the source does), and priorities lie between the smallest and the largest key.

Checked by TLC only: liveness under fairness (`SleeperWakes`, `TimeSharing`), which is
out of the prover's reach for good.

## 5. Not modelled

* The device switch (`open.c` ... `ioerr.c`, `getdev.c`): each call checks its
  descriptor and jumps through `devtab`, whose drivers are not in the
  repository. It keeps no state. `getdev` uses the result of `strncmp` as a truth value and
  so returns the first device whose name differs; `PROJECT.json` lists it.
* Boot code, interrupt entry and the hardware's registers: their effect, that a
  call is not interrupted between `disable` and `restore`, is what makes actions
  atomic. `XX` is an older copy of `initialize.c`.
* Console output and memory dumps: no state of the kernel changes.
* The contents of stacks, and of memory. A killed process runs on a stack that is free already
  until `resched` leaves it, with interrupts disabled and nothing allocated in between.
* What calls do to a free list that is broken (`Intact`), and stacks whose size wraps.
* Kills inside `mark`: nothing releases the mutex of a process that is killed while it
  has it. The source promises nothing there.
* What becomes of a port whose creation found no semaphores, or whose
  resetting process was killed: both are modelled, and no property is about them,
  for the source does not say what should happen.
