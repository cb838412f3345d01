# Verification of the Android platform layer of Open Files

`src/src/*_android.c` is the layer between the portable core of Open Files and
Android: events, wait sets, threads, processes, sockets, time, the console, the
environment, the network interfaces and locks. Every file implements the
`..._impl` functions of one service of the portable core; the core itself (the
handle layer, wait queues, timers, the scheduler) is not part of this
repository. This directory holds TLA+ models of the parts with behaviour of their
own, the TLC runs that check them on small instances and proofs that TLAPS
checks.

## 1. Inventory

| Component | State | Operations | What is hard | What makes it correct |
|---|---|---|---|---|
| Events (`event_android.c`) | flag, type, mutex, condition per event | create, set, reset, wait, test, get_type, destroy | waiters, setters and resetters in parallel; the flag is tested with `if`; a set posts to a wait set while it holds the mutex | nobody sleeps on a raised flag; a broadcast releases every sleeper |
| Wait set (`waitset_android.c`) | a pipe; the queue of handles (kept by the core) | create, signal, wake, wait, set_assoc, add, destroy | the wait purges its pipe, looks at every handle and sleeps in `poll`, while others set events, fill queues and add handles; the pipe may be full; AUTO events are tested and reset in two calls; timers | no signal is lost; an AUTO event is consumed once; no timer fires early; who has work is served |
| Thread objects (`thread_android.c`) | object, handle, `deleteMe`, `detachstate`, `wait_set` | create, launch, delete, wait, detach, set_waitset, is_deleting | the thread and its owner both use and free the object, without a lock | freed once, and not used after if it is joined; a completed wait leaves nothing behind; a delete stops the thread |
| Daemons (`process_android.c`) | pid in a handle, SIGTERM handler, load addresses of two libraries | exec, get_id, term, kill, term_trap, crash, dump_libs, relative_addr | a double fork through shared memory, from several threads; either fork may fail; the load addresses are stored while others use them | a handle names the caller's own daemon; an address is never given to the wrong library |
| Time (`time_android.c`) | none | file time to and from DOS date, clock, zone | leap years, the end of 32 bits | the conversions are those of the calendar |
| Sockets (`socket_android.c`) | descriptor, `remote_closed`, `events`, `revents`, address family | create, bind, connect, accept, listen, send, receive, enable, test, set_event, close, destroy, ... | the number stays in the object after close and may be given to another socket while a `poll` still has it; `enable` during a sleep; an accepted object is born with what its memory held; the end of a connection is known only from `recv` | each object has its own socket; an end that is told is one unless a `recv` has failed, and an end is told |
| Console and log (`console_android.c`) | log descriptor `g_fd`, file index | write, read, log | every thread opens, closes and writes through `g_fd` without a lock; the header of the log is written by the function that opens it | nothing of others is written to or closed; the log is open when nobody is opening it; a line is written in the end (each up to what section 4 says) |
| Network (`net_android.c`) | none (the system's interface table) | count and addresses of the interfaces, resolve | the table changes between two calls; each call opens a descriptor | an enumeration of a table that stays is exact; the descriptors are the call's own |
| Locks, environment, backtraces | none beyond the C library's | | | |

Interactions. `ofc_event_set_impl` calls `ofc_waitset_signal_impl` of the wait
set the event is associated with; `ofc_waitset_wait_impl` tests and resets
events, asks queues, timers and sockets for their state, sleeps in `poll` and
writes what it reports into the socket objects; `ofc_thread_delete_impl` wakes
the wait set that the thread has announced with `ofc_thread_set_waitset_impl`;
`open_log` calls `ofc_process_dump_libs`, which writes lines to the log. Threads,
owners and schedulers share these objects through handles that count references
but do not exclude each other, and the log, the sockets and the interface queries
share the system's table of descriptors.

## 2. Modules

| Module | Models | Correspondence |
|---|---|---|
| `AtomicEvent` | what the event API promises: each call takes effect at one instant | abstract specification; `Event` implements it (`ImplementsAtomicEvent`) |
| `Event` | `event_android.c`, and the write of `ofc_waitset_signal_impl` | one action for each part of a call that another thread can see: `SetLock`, `SetBroadcast`, `SetLookup`, `SetPost`; `WaitLock`, `WaitRelock`; `DestroyFree`, `DestroyHandle`; create and reset are one action each |
| `AtomicWaitSet` | what a wait promises the scheduler: it takes effect at one instant, at which it answers a member of the set that has work, and takes an AUTO event along | abstract specification; `WaitSet` implements it (`ImplementsAtomicWaitSet`): a handle is answered at the step that finds it, and an AUTO event found signalled counts as taken from then on |
| `WaitSet` | `waitset_android.c`; extends `Event` | `pipe`, `hq` and the local variables of the wait (`evq`, `fds`, `least`, `timerEv`, `trig`) are variables; the wait is `WaitCall`, `Purge`, `Scan...` (one for each case of the switch), `Poll...` for each way `poll` returns, `PollEventRead`/`PollEventTest` for `PollEvent`, `ResetAuto`, `Return` |
| `ThreadStop` | set_waitset, delete and is_deleting of `thread_android.c`, composed with `WaitSet` | the scheduler's loop around the actions of the wait; the deleter's three steps |
| `Thread` | the life of one thread object | the thread (`Launch...`) and its owner (`Create`, `Delete`, `Detach...`, `Wait...`), with the memory of the object, its handle and a history variable for uses of freed memory |
| `Process` | `process_android.c` | the caller, its first child (which runs in the caller's memory) and the daemons |
| `Time` | the conversions of `time_android.c` | operators with the names of the functions, against a calendar that is counted day by day |
| `Descriptors` | the system's table of open descriptors | the lowest free number is given, a closed one is free at once; shared by `Console`, `Net` and `Socket` |
| `Console` | `console_android.c`, with the library dump and `ofc_process_relative_addr_impl` of `process_android.c` | `WriteTest`, `OpenLog`, `OpenLogClose`, `OpenLogOpen`, `OpenLogStore`, `OpenLogFix`, `WriteLoad`, `WriteLine`: the system calls and the uses of `g_fd` are steps of their own where another thread can come between them (`OpenLogOpen` is the `open`, `OpenLogStore` the store of its answer); `owed` is the stack of `open_log` calls, by the lines each has yet to write |
| `Net` | the interface queries of `net_android.c` | one action for each system call of a query (`OpenSocket`, `GetList`, `ScanEntry`, `Ask`, `CloseSocket`), with what the code does when the call fails (`CanAsk`), and the system's changes between them |
| `LogAndNet` | `Console` and `Net` in one process | they share `file`, the table of descriptors |
| `Socket` | the stream sockets of `socket_android.c`, with the poll of the wait set and the network around them | the fields of `OFC_SOCKET_IMPL` are variables; one action for each operation; `Watch` copies number and events as the wait does, `Report` is `ofc_socket_impl_set_event` with what `poll` answers |
| `EventProofs`, `WaitSetProofs`, `StopProofs`, `ThreadProofs`, `ProcessProofs`, `TimeProofs`, `LogAndNetProofs`, `SocketProofs` | theorems | see section 5 |
| `MC...` | instances for TLC | |

Operators that are called "Mutant of ..." are defects one could have made in the
definition they stand before. No specification uses them: put in its place, each
makes a run fail, which shows that the property depends on that code.

### What the models take from outside the repository

* The handle layer: `ofc_handle_lock` takes a reference and answers null for a
  destroyed handle; it keeps no memory alive and excludes nobody.
* `ofc_waitset_add` puts the handle in `hHandleQueue` and then calls
  `ofc_waitset_add_impl`; `ofc_waitset_remove` undoes the association.
  `ofc_waitq_enqueue` queues the item and then sets the queue's event.
* The event by which an SMB operation is added is the event of its response
  queue; nobody but the wait set takes it down.
* One scheduler thread uses a wait set. It takes handles out and arms timers
  between its waits only. It announces its wait set before it first asks whether
  it is being deleted. A handle is not taken out while another thread is still
  adding it.
* Events in a wait set are alive, and destroying an event does not overlap
  another call on it: the code frees the memory without looking.
* `OFC_MAX_SCHED_WAIT` is positive and finite.
* `poll` returns EINTR only if nothing is ready. Handles of type `FILE` on
  another file system than Android's, or with that file system left out of the
  build, count as "not synchronizeable".
* A thread object has one owner, who waits for it or detaches it, once. It was
  created with an event to notify: a null `hNotify`, which `ofc_thread_launch`
  looks for, is left out.
* The SIGTERM handler is installed at start-up; process ids are not used again;
  a vfork child is gone when its parent runs again. Nobody terminates or kills by a
  handle that is destroyed, which would signal pid 0: `ofc_process_term_impl` and
  `ofc_process_kill_impl` do not look.
* The packing of DOS dates is the FAT format, and a file time stands for its
  whole seconds since 1970.
* The system gives the lowest free descriptor number, and `close` frees it at
  once. Descriptors are closed by their number only, so that what is done to a
  number that has been given to another is done to the other.
* `ofc_get_config_dir` finds no directory until the application has set its
  configuration, and always one afterwards. Opening the log file may fail whenever
  there is no descriptor left, and a bounded number of times (`MaxFails`) for other
  reasons, for instance while storage is not ready.
* Both libraries are in memory for as long as the process runs, and do not
  overlap. Pointers have 64 bits: the top bit by which
  `ofc_process_relative_addr_impl` tells the libraries apart is lost in a pointer of
  32 bits, and the model gives library and offset as a pair.
* An interface has an IPv4 address or is not in the list; the names that the code
  wants are a set (`Wanted`). A query's `socket` may fail at any time; its `ioctl`s
  fail if the number is no socket, because it has been closed or has become the
  log's, and the questions for an address if the interface has none. A client asks
  for the count and then for each index below it.
* A socket object is closed once, then destroyed, and is connected or made to listen
  once: `ofc_socket_impl_close` does not look whether it is open. A `recv` may fail
  at any time on an object that is open, connected or not. The object is in the wait
  set from when it is connected or made to listen until it is closed. An owner that
  is told READ receives, one that is told ACCEPT accepts, one that is told CLOSE
  closes, and one that awaits WRITE asks for READ once it is told WRITE.

## 3. Runs

Deadlock is not checked: each thread makes a bounded number of calls, an owner
is done after one life, and a scheduler may stop. That the sleeping threads are
woken is stated as liveness instead.

| Run | Properties | Instance and why it is enough |
|---|---|---|
| `event` | `EventTypeOK`, `NoLostWakeup`, `BroadcastReleases`, `ImplementsAtomicEvent` | 3 threads, an AUTO and a MANUAL event, 2 calls each: two sleepers and a setter, or a sleeper, a setter and a resetter; the flag may fall between broadcast and return; spurious wakeups; a pipe of one place fills up |
| `waitset_signals` | `TypeOK`, `NoLostSignal`, `AutoAtMostOnce`, `WorkIsServed`, `ImplementsAtomicWaitSet` | an AUTO event and a wait queue, 2 threads with 2 calls each against the scheduler, a pipe of one place, so that a signal is dropped by a single one before it; one sets while the other adds, resets, awaits or wakes |
| `waitset_overlapped` | `NoLostSignal`, `DueIsServed` | a MANUAL overlapped operation and an SMB operation, 2 threads with 2 calls each: added, completed, returned, taken out and added again with a response unread |
| `waitset_timers` | `TimerNotEarly`, `DueIsServed`, `ImplementsAtomicWaitSet` | two timers, a socket and a handle that cannot be awaited, intervals up to 2 and a sleep of at most 3: timers shorter, longer and as long as each other, armed again between waits; everything is added and enabled at any moment, also during a sleep. A file is to the wait what a socket enabled for nothing is |
| `thread_stop` | `WakeReachesSleep`, `DeleteEndsSleep`, `DeleteStops` | a scheduler with one AUTO event, a deleter and two other threads that fill the pipe |
| `thread_stop_purge` | `DeleteSeenBeforeSleep` is violated | the same |
| `thread` | `ObjectTypeOK`, `JoinedNotStale`, `FreedOnce`, `WaitIsComplete`, `ThreadReleased` | one object has no parameters: the run is complete |
| `process` | `ProcessTypeOK`, `HandleNamesDaemon` | three threads and four process ids: a daemon that outlives its handle and one for each thread |
| `process_fork` | `HandleMeansDaemon` is violated | the same |
| `time` | `LocalTimeIsCalendar`, `DosRoundTrip`, `DosOrderKept` | every day from 1970 to 2107, at eight seconds around the ends of a day, an hour, a minute and the 32-bit word; `DosOrderKept` compares the seconds of a day with each other and with the first of the next day, from 31 December to 1 January too |
| `log_and_net` | `ConsoleTypeOK`, `OthersAreSafe`, `LogIsOpen`, `AddressesTellLibrary`, `WriteReturns`; `NetTypeOK`, `EnumerationIsExact`; `SocketIsOwn` | up to 3 writers with a line each, a client with one enumeration, 4 descriptors, 3 interfaces of which one is unwanted and a list for 2. The bounds are used in four scenes. `client`: two (`Pair`) write, and the client asks about interfaces that stay. `fail`: two write, and the log cannot always be opened. `changes`: nobody writes, and the interfaces change twice. `three`: three write and the client asks, so that a number that one thread has read is closed by the second and given to the third or to the client before it is used; to keep this small, the threads all enter `open_log` before anything else, and one that has opened the log writes its lines before others go on (`InTurn`). Only this scene has enough threads for stale numbers: it reaches a close of the client's socket, a log that is closed before it is stored, and every `ioctl` that fails |
| `socket` | `SocketTypeOK`, `OneDescriptorEach`, `EndIsReal`, `CloseIsSeen` | 2 objects and 2 numbers, one piece of data: a listener and what it accepts, or two connections, or one that gets the number of another that was closed during a sleep; accepted objects are born with nothing or with a hang-up; `recv` fails at any time |

Bounds: `MaxCalls` (calls of a thread), `PipeCap` (places in the pipe), `MaxWait`
(`OFC_MAX_SCHED_WAIT` in ticks), `MaxArm` (longest interval of a timer), `MaxLines`
(lines of a writer), `Pair` and `InTurn` (who writes in which scene, and in what
order), `MaxFails` (failures to open the log), `MaxChanges` and `MaxEnums` (changes
of the interfaces, enumerations of a client), `MaxSend` (pieces of data), `Room` (an
object is kept free for each connection that waits). An object of `Socket` has one
life, so that a handle is never that of another object; its number is used again.

Fairness. A call that is under way goes on (weak fairness of its steps): only
the mutex, the condition variable or `pthread_join` stops it. The scheduler loop
goes on, and a running thread keeps asking whether it is being deleted. No
thread is obliged to make a call. `poll` is not assumed to time out in
`WorkIsServed` and `DeleteEndsSleep`; `DueIsServed` and `DeleteStops` need it and
say so (`TimedSpec`, `SleepEnds`), which the finite timeout of every `poll`
justifies. `WriteReturns` needs only that a line that is being written goes on.
`CloseIsSeen` needs the scheduler to go on, its sleeps to end, owners to do
something about what they are told (weak fairness of `Reacts`), and strong
fairness of `Report`: when the pipe is readable too, `poll`'s report on the
sockets is dropped, and the property holds only if that is not so every time.

## 4. What the runs show

The design of the wait set holds up: although the purge throws signals away,
although a full pipe drops them and although a handle is queued, associated and
tested in three steps, the scheduler never sleeps on a handle that it has tested
and that has got work since. What a wait answers is in the set and has work at the
step that finds it, although a post may be stale when it is read and a timer is
taken without a second look. A queue counts as having work while a post for it is
unread: another consumer may have emptied it. An AUTO event that an `ofc_event_wait`
of another thread consumes between the wait set's test and its reset has served
both: `AutoAtMostOnce` counts what the wait returns, and the atomic wait set allows
it. Two statements of the source do not
hold:

* **A purged wake-up is lost** (`thread_stop_purge`). The comment at
  `waitset_android.c:223` says of what is purged that "We'll get these before we
  sleep the next time". This is so for handles with a state, which are tested
  again, but not for the null handle of `ofc_waitset_wake_impl`. A scheduler that
  is deleted between its look at `deleteMe` and its wait purges the wake-up and
  sleeps until its timeout. It stops then: `DeleteStops` holds.
* **A failed second fork looks like success** (`process_fork`). The first child
  crashes with exit status 0, the parent makes a handle that holds pid 0, and
  `ofc_process_term_impl` on it signals the program's own process group.

Other limits show in how properties are stated.

* An SMB operation that was returned, taken out and added again with its response
  unread is not posted, because `ofc_waitset_add_impl` tests its event and not
  its queue: `WorkIsServed` leaves this kind out, and `DueIsServed`, which counts
  on the end of the sleep, covers it.
* A detached thread may free its object while `ofc_thread_create_impl` or
  `ofc_thread_detach_impl` still reads it: `JoinedNotStale` is about threads that
  are joined. A thread that is detached after it has read `detachstate` leaves its
  object and handle behind: `ThreadReleased` leaves this case out.
* Two threads whose first lines come at once are both in `open_log`. One then
  closes the other's log, or a descriptor that has been given to a third party
  meanwhile, or empties a log with lines in it: `OthersAreSafe` is about writers
  that have not met there (`contended`). Even when they have, `g_fd` is an open
  log or the standard output once they are through (`LogIsOpen`), with two
  exceptions, which take at least three writers (`mishaps`): one of them has closed,
  by a number it read before, a descriptor that was not the log's (`"close"`), or a
  log that another had opened and not yet stored (`"steal"`). `g_fd` may then be the
  number of a client's socket.
* A writer that closes a client's socket makes its `ioctl`s fail, or leaves it with
  the socket of another client. The code takes the failures for interfaces that are
  not there. `SocketIsOwn` and `EnumerationIsExact` are about runs in which no
  writer has closed a descriptor that was not the log's.
* If the log never opens although there is a directory, `open_log` calls itself
  without end: `WriteReturns` counts on a bounded number of failures.
* An enumeration of interfaces that change may mix the old table and the new:
  `EnumerationIsExact` is about tables that stay.
* An accepted socket may tell of a hang-up that it has found in its memory, and a
  socket whose `recv` was interrupted, or had a buffer of length 0, tells CLOSE of a
  connection that is still up: `EndIsReal` leaves out an object that `poll` has not
  reported on (`unreported`) and one whose `recv` has failed for a reason other than
  the end (`failed`).

## 5. Proofs

All theorems hold for every value of the constants that satisfies the named
assumptions (`EventAssumption`, `WaitSetAssumption`, `ProcessAssumption`,
`DescriptorsAssumption`, `ConsoleAssumption`, `NetAssumption`,
`LogAndNetAssumption`, `SocketAssumption`, `TimeAssumption`), that is for any
number of threads, events, handles, sockets, descriptors, interfaces and lines, and
for every second of every day up to 2107.

* `EventProofs`: `EventTypeCorrect`, `NoLostWakeupCorrect`. `NoLostWakeup` is
  inductive together with the type invariant: the flag goes up and the sleeper
  goes to sleep under the same mutex, and only the broadcast, which leaves no
  sleeper, takes the setter away from its place. `AtomicEventCorrect`: every step
  is one of the atomic event or a stutter. A set takes effect when the flag goes
  up (`SetLock`), which is why a sleeper counts as released while the setter is
  before its broadcast; `HoldersOwn` (who is inside has the mutex) says that
  there is one such setter at a time.
* `WaitSetProofs`: `TypeCorrect` first, then `ControlCorrect` (a scan has
  triggered nothing yet). `TimerNotEarlyCorrect` needs `TimerBound`: what is
  left of the sleep is never less than what is left of the timer that set it.
  `AutoAtMostOnceCorrect` needs `CreditPays`: an event that is up, or that the
  scheduler has taken but not returned, has a set that pays for it, and
  `Uncounted`, `EnqueuedOnQueue` for events that are not counted.
  `SetCorrect`: a handle is queued once, and its event is associated or about to
  be. `NoLostSignalCorrect` rests on all of these and on `Posted`, which says
  what `NoLostSignal` says of `poll` already during the scan, for the handles
  tested so far; for SMB operations, which are tested by their queue but added by
  their event, `SmbUntaken` and `SmbEventUp` tie the two together.
  `AtomicWaitSetCorrect`: the steps of other threads and of the world are changes
  around the wait (`MembersStay`: nobody leaves the set meanwhile); a step of the
  scheduler that finds a handle is the instant of the wait (`FoundStep`,
  `FlagTakenStep`), and the others do not show. It needs `Listed` (the lists of a
  call hold members only) and, for a timer that is taken when the time is up,
  `TimerBound`.
* `StopProofs`: `WakeReachesSleepCorrect` rests on the type invariant of the
  composition, on the announcement coming before any sleep (whoever waits has
  announced) and on `PipeStays`: no step during a sleep takes anything out of the
  pipe. Every step of the composition but the deleter's write is a step of
  the wait set, and the write only adds to the pipe, so that the invariant of
  `NoLostSignalCorrect` carries over (`StopLosesNoSignal`), and so does the atomic
  wait set, in which the write does not show (`StopWaitsAreAtomic`).
* `ThreadProofs`: `LifeInv` says which of thread and owner has the object when
  (`NoThreadYet`, `ThreadHolds`, `OwnerHolds`); `JoinedNotStaleCorrect`,
  `FreedOnceCorrect`, `WaitIsCompleteCorrect` and `ObjectTypeCorrect` follow.
* `ProcessProofs`: `SpawnInv` follows a daemon's pid from the fork through the
  memory the first child shares with its parent to the handle (`Carried`), with
  one spawner for each pid (`Owned`); `HandleNamesDaemonCorrect` is its end.
* `LogAndNetProofs`: `SharedInv`. Without contention one thread at most is in
  `open_log` (`OneOpens`), and there is one log, which `g_fd` and everybody's copy
  of it name (`OneLog`): `OthersAreSafeCorrect`. With contention there remains that
  `g_fd` is the log or somebody is about to make it so (`LogOrOpening`: the number
  that a thread has got from `open` is a log until it is stored), as long as no
  stale number has been closed: `LogIsOpenCorrect`. `SocketIsOwnCorrect` is
  inductive with them, as long as no other's descriptor has been closed.
  `ConsoleInv` adds that a load address is unset or right, from which
  `AddressesTellLibraryCorrect` follows. `EnumerationCorrect` rests on
  `SocketIsOwn`, by which no `ioctl` of a query fails, and on `EnumInv`, which says,
  while nothing has changed since a client's count, what each query has counted of
  the list it has got (`ScanOK`: the usable entries up to the one it is at), which
  entry it asks about (`AskOK`) and what has been answered so far (`EnumOK`). It
  speaks of positions in the list and of the number of usable entries up to one
  (`Rank`), so that no induction over sequences is needed.
* `TimeProofs`: `CalendarInv` ties the calendar, which is counted day by day, to the
  number of its days: `days` is `NewYear` of the year, a closed formula, plus the
  days of the months before and the day. `DaysOfYears`, the sum that
  `ofc_time_make_time` adds up year by year, equals that formula
  (`LocalTimeCorrect` needs it to know at which year the loop of
  `ofc_time_local_time` stops); as the provers have no induction, this is shown by
  the least year at which the two would differ. `DosRoundTripCorrect` follows by
  taking the word apart into days and seconds and the DOS date into its fields,
  and `DosOrderCorrect` by comparing the fields of two seconds of a day, and of two
  days that follow each other in a month, over the end of a month or over the end of
  a year.
* `SocketProofs`: `SocketInv` adds what `poll` knows. The number it was given is
  that of the object if it is still open (`PollKnows`), so that a hang-up it
  reports is that of the object's own connection (`HupIsReset`), and what `recv`
  finds is the end unless it has failed (`ClosedIsOver`).

Every invariant that a run checks is stated by a theorem, and so are `DosOrderKept`,
`WakeReachesSleep` and `ImplementsAtomicWaitSet`. Only model-checked, because
fairness is beyond the prover: `BroadcastReleases`, `WorkIsServed`, `DueIsServed`,
`DeleteEndsSleep`, `DeleteStops`, `ThreadReleased`, `WriteReturns`, `CloseIsSeen`
and the liveness part of `ImplementsAtomicEvent` (its safety part is
`AtomicEventCorrect`).

## 6. Not modelled

* `ofc_waitset_destroy_impl`, the look-up of the resolver with `dlsym`, failing
  allocations where the code does not look at them.
* Of sockets: datagrams, sending, binding, addresses and options. Each is one
  system call that leaves the object as it is; what can go wrong there is listed
  with the hazards.
* The rotation of the log, which is dead code, and reading from the console.
* Name resolution, signal masks, thread variables and `usleep`, the clock and the
  time zone, locks, environment and backtraces: one call of the C library each,
  or output only.

## 7. Plan

1. Done: all modules above and the proofs of section 5.
2. Proofs: that a terminate reaches no other caller's daemon.
3. Datagram sockets, if the addresses are modelled with their widths.
