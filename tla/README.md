# A TLA+ model of dup-distribute

dup-distribute receives data over TCP, records it to disk, forwards it to the
configured clients, and plays recorded data back to a client that asks for it.
This directory models the server (`dd-server`): TLA+ modules translated from
the C sources, TLC configurations that check them on small instances, and
TLAPS proofs of the main results for every instance. `PROJECT.json` maps every
definition to the lines it models and lists runs, mutants, findings, hazards
and theorems.

## The system

| Part | Source | State | Module |
|---|---|---|---|
| Accept loop, one process per connection | `util.c` `distribute_server`, `server.c` | descriptors, `acceptfd`, `acceptedAddress` per process | `Server` |
| Receive, and fan-out to client threads | `util.c` `distribute_receive`, `distribute_run`, `distribute_client_send` | shared `THREAD_PARAM`, mutex `mute`, client sockets | `FanOut`, `SerialFanOut` |
| Processes and the `./shm/<address>` files | `util.c`, `playback.c` | which files exist, the command of each process | `Distribute` |
| Playback | `playback.c` | position in the list of records, clock, speed | `Distribute` |
| Selection of the records, modified `scandir` | `playback.c` `filter_fn`, `glibc-2.27/dirent` | directory, list of entries | `Scan` |
| The connection as a byte stream | `util.c` `distribute_receive` | bytes not received yet | `Stream` |
| Recording | `recordData.c` | directories, files, counter `uuid` per process | `Record` |
| Thread pool | `threadpool.c` | ring of tasks, threads, lock, conditions | `ThreadPool`, `TaskQueue` |
| Configuration, log, hex conversion, test client and sender | `ConfigFile.c`, `log.c`, `jinzhiConvert.c`, `client.c`, `sender.c` | | not modelled |

A connection is accepted and a child forked for it. The child receives
buffers; a live buffer (sea, BD) is recorded first. For every buffer, a thread
per configured client connects to that client. A replay request is executed by
the thread whose client has the requester's address. Then the thread looks for
the client's shm file and, if there is none, sends the buffer. The shm file of
a client is created by the process that starts a playback and removed by an
END request, which arrives in another process. After its connection ends, a
child goes round the accept loop and accepts beside its parent.

What makes it hard: threads that share one parameter block; processes that
communicate by the existence of files, with a check and a use that are two
steps; processes killed by `SIGPIPE` or a fault; names made of a clock and a
private counter; undefined behaviour in the playback loop.

## Modules

**SerialFanOut** is what `distribute_run` promises: each client is dealt with
once, in the order of the configuration, and the call returns when all have
been, unless the process dies.

**FanOut** is `distribute_run` with its threads. `mute` is used as a hand-off:
the main thread locks it, writes `clientIndex`, creates a thread; the thread
unlocks. `thread[t]` is the position of thread `t`, `open` the sockets still
open, `acceptfd` the global table, `outcome` a history of what became of the
buffer. `CreateFails` leaves the mutex locked, as the code does (the test
against -1 never matches). `JoinGarbage` is the undefined join of a `tids`
entry never written: an error or a fault. `FanOut` refines `SerialFanOut` by
`ImplementsSerial`: a client is "served" at the step that settles its outcome.

**Distribute** takes the result of FanOut, that a process serves its clients
one by one, and composes processes over the shm files. `play` holds the locals
of `scanAndSend`. `Clobbered` are records whose read buffer is allocated over
their freed directory entry: their stamp can be anything, and on a retry the
name is torn and the process faults. `stale` is a history: sends against the
shm file since it last changed. Initially any shm files may be left over from
an earlier run. `Die` is the end of a process in `send`, in the playback loop,
or before the scan when the configuration cannot be read or has no `data-path`.

**Record** interleaves the steps of `initDataRecord` in several processes:
look for the directory, make it, choose the name (a second clock reading),
open with truncation, write. `mkdir` fails because another process was faster
(`MakeDir`, counted in `drops`) or for any other reason (`MakeDirFails`); the
buffer is dropped either way. The configuration is read again for each buffer:
without the file the buffer is dropped, with one that cannot be read the process
ends (`ConfigFails`). `access()` is taken to fail only for a directory that is
missing.

**Server** has process slots with descriptor tables. `fork` copies the table,
`acceptfd` and the address.

**Scan** is one call of `scandir` in a playback. The times of the request and
the stamps in the names go through `sprintf("%d")`, a cut to ten characters and
`atoi` (`Shown`, `Cut`); entries are read in any order while other processes
record; the list grows by doubling; any allocation and `readdir` may fail.
`Distribute` takes any subset of the records as the selection, so the two
modules meet in the list that `Scan` ends with.

**Stream** is one connection: `recv` returns any number of the bytes that have
arrived, and only the first packet head is looked at.

**ThreadPool** is `threadpool.c`, which the repository has beside the server
and its Makefile does not link. `wpc` is the position of the worker in each
slot; `towait` is between the test of `shutdown` and the wait. Sections under
`pool->lock` are one step, except that `shutdown` is written without the lock
and can come before a wait. After the shutdown `threadpool_add` goes on without
the lock (`AddStray`). `Joins` says how `threadpool_create` ends: TRUE is the
code, which joins the workers; FALSE is the sleep that stands commented out
below the join, without which no later step could be reached.
`ThreadPool` refines **TaskQueue**, a bounded first-in first-out queue that can
be closed.

`MC*` modules give values to the constants. `*Proofs` modules hold the
theorems.

## Runs

| Run | Result | Question |
|---|---|---|
| `fanout` | holds | hand-off, sockets, mutex, refinement, whom the main thread waits for, return to `recv`; `pthread_create` may fail |
| `fanout_hang` | violated | a failed `pthread_create`, for any but the last client, is survived |
| `distribute` | holds | types; at most one stale send per change of a file; only a process whose peer has a client's address changes its file; removing the file ends the playback; every buffer is dealt with to the end, but for three named reasons |
| `leftover_file` | violated | the file goes with the playback |
| `record` | holds | a process reuses a name only after a round of its counter, losses only to a reused name, one drop a day to the race for `mkdir` |
| `record_collision` | violated | a record once written stays |
| `server` | holds | one reader per connection, which knows its peer |
| `scan` | holds | a period before 2^31 is played completely, exactly and in order; the list is not overrun or leaked |
| `scan_late` | violated | any period of 32-bit times is played completely |
| `stream` | violated | the size of the buffer keeps messages apart |
| `threadpool` | holds | queue refined, threads counted, arguments freed a round later, no lost wakeup but in the named cases, at most one worker left behind by the shutdown |
| `threadpool_create` | violated | `threadpool_create` returns |

Each violated property states what a comment or a message in the source says;
`findings` in `PROJECT.json` quotes it.

Some behaviours the models have are bounded by a property instead of being
refuted: the race on the shm file lets one live buffer through to a client in
playback, per process and change of the file (`OneStaleSend`); the race for a
new day's directory costs a process one buffer a day (`OneDropPerDay`); a
process that records more than 1000 buffers in a second overwrites its own
records, and only then (`ReusedAfterRound`, `LostOnlyToReuse`).

One more divergence is visible in the models and has no run: the header of
`distribute_receive` says of a replay request that the threads of the other
clients exit ("和自己地址不一致的退出该线程", `util.c:142`); the code forwards
the request to them like any buffer (`Dispatch` and `Send` of FanOut, `Connect`
and `Send` of Distribute).

What the pool's properties leave out, they leave out because TLC finds it:
`DestroyReturns` excepts a worker that tested `shutdown` before it was set and
waits after the broadcast; `TaskServed` assumes that no thread was told to end,
since a leftover `wait_exit_thr_num` makes the worker that a task's signal wakes
end instead; `AddGoesOn` excepts the shutdown, after which nobody signals
`queue_not_full`, and needs a queue that holds `MIN_WAIT_TASK_NUM` tasks (10,
and 50 slots where the pool is created), so that a full one makes the adjusting
thread start a worker.

Five safety properties say where these liveness properties come from, and can
be proved where those cannot. `WaitsForThread`: whoever should unlock the mutex
or be joined exists and is on its way, unless it could not be created
(`KeepsReceiving`); `HungForEver`: otherwise nothing helps (`fanout_hang`).
`AttendedKept`: tasks are left with every worker asleep only by a worker that
ends (`TaskServed`). `RoomTold`: `threadpool_add` sleeps on a full queue only
(`AddGoesOn`). `OneLeftBehind`: the exception of `DestroyReturns` is about one
worker at most.

### Bounds

- FanOut: three clients, two of them requesters, so a playback has a client
  before and after it. Any number of buffers.
- Distribute: two processes (a player and a forwarder, or two players) and two
  addresses, a client's and that of a peer that is no client. Three records,
  one clobbered, one plain and one empty, so that a player can send twice (with
  one sendable record a second stale send could not happen), and speeds 0 and 1.
  Several clients are left to the proofs, which cover the safety properties for
  any number, and to FanOut. The clock of a playback stops at `MaxElapse`,
  above every record's offset.
- Record: two processes, three buffers each, a day of two seconds, a counter
  that wraps after two names instead of 1000, so that a third buffer in the
  same second overwrites the first. The load is not limited. The two clock
  readings may fall on two sides of midnight; the record then lies in the old
  day's directory, which the model shows and no run states.
  `record_collision` has one buffer per process: what it loses, it loses to the
  other process.
- Server: three processes, three connections, two descriptors.
- Scan: a sign bit of 32 for 2^31 and a first list size of 1 for 10, so that
  the list is enlarged three times. Five names: two uuids in one second, the
  last second before the sign bit, and one stamp beyond it; requests on both
  sides of it. 12 stands for 10^9, the least number of ten digits: stamps go
  from there to as far before the wrap of the clock, from 2001 to 2074, where
  every stamp is printed with ten digits and names sort by them. Times of
  requests are not limited.
- Stream: two messages of two cells each.
- ThreadPool: one to two workers, a ring of two slots and three tasks, so that
  the ring goes round and a slot with an old argument is reused; `task_queue`
  starts with garbage or nulls, as `malloc` leaves it.

Deadlock is checked except where the system stops: after a failed thread
creation, when the bounded clock and buffers of Record are used up, when all
processes of Server have exited, when a scan or a connection is over, and when
the pool is freed.

### Fairness

Weak fairness is assumed of steps a scheduled thread can take alone
(`MainStep`, `ThreadStep`, `LocalStep`) and of the clock, because the kernel
schedules runnable threads and bounds `connect`. Nothing is assumed of senders
and clients: `MessageHandled` names what keeps a process from coming back, a
client that never reads, sends of a playback that block or fail transiently for
ever (an empty record is one: it sends 0 bytes), and the speed 0.

In the pool, workers and the adjusting thread have strong fairness, since
`pool->lock` is free again and again rather than for good, and a mutex does not
starve a thread for ever; the steps that do not compete for it have weak
fairness. Tasks are assumed to end. Nothing is assumed of the callers: they
need not add tasks or destroy the pool.

## Proofs

`FanOutProofs`, for every number of clients and set of requesters, failing
thread creation included: `TypeOK`, `OwnClient`, `PlaybackSocketOpen`,
`NoSocketLeak`, `DestroyUnlocked` and the refinement `ImplementsSerial`. The
inductive invariant `IInv` adds to the types: which threads exist (`Created`),
when an outcome is settled (`Settled`), that the mutex is held exactly for the
one active thread (`HandOff`), how far the loops are (`Loops`), and which
sockets are open (`Sockets`). `OwnClient` alone is not inductive: `Lock` must
know that a free mutex means that no thread is active. A second invariant,
`Turn`, says that `clientIndex` is the client of the thread created last, and
that a thread which could not be created is that one, the mutex locked and no
thread active since; it gives `WaitsForThread` and the action property
`HungForEver`.

`DistributeProofs`, for every number of processes, clients and records:
`TypeOK` and `OneStaleSend`. The strengthening `LookedBefore` says that a
process about to send against the file has not done so since the file changed.
`Requester`, that a process inside `playback_run` serves the client whose
address its peer has, gives the action property `ChangedByOwnRequest`.

`ServerProofs`, for every number of processes, connections and descriptors:
`TypeOK`, `OneReader`, `OwnAddress`. `Noted` ties the address a process has
noted to the connection it reads, so that `fork`, which copies both, keeps it.

`RecordProofs`, for every number of processes, clock and limit of the counter:
`TypeOK`, `OneDropPerDay`, `ReusedAfterRound`, `LostOnlyToReuse`. `DropInv`
says that a process that lost a buffer to the race for a day's directory finds
that directory from then on. `NameInv` says of every record a process made in
the current second and directory that the counter has not moved further from
its uuid, modulo the round, than the process has taken buffers since
(`Behind`); so the same uuid means a whole round of buffers. The counter starts
again only with a new directory, which holds no name. Two theorems add the load
that the code does not enforce, at most a round of the counter in a second
(`Unhurried`): then a record is lost only to another process
(`LossNeedsAnother`), and a single recording process loses none
(`OneRecorderKeeps`), while `record_collision` refutes `RecordsKept` for two.

`ScanProofs`, for every set of names, request, sign bit and first size:
`TypeOK`, `ListOwned`, `PeriodPlayed`. `Progress` says that what was there at
`opendir`, is selected and is not in the list is still to be read, and that
what is in the list was selected. The lemmas say that a request before the
sign bit selects exactly its period, and that sorting keeps the elements.
`AcrossPlaysNothing` shows that `scan_late` does not depend on its instance: a
request from before the sign bit to after it plays nothing, whatever the
directory holds, because its end is printed as a negative number.

`StreamProofs`, for every number of messages and size of the buffer: if the
peer sends only when everything it sent before was received (`Waits`), then
`NoSticking` holds. So it is the peer's pace, not the size of the buffer, that
keeps messages apart. The invariant `OneMessage` says that what is yet to be
received is the rest of one message.

`ThreadPoolProofs`, for every size of the queue and bounds on the threads:
`TypeOK`, `LiveCount`, `ArgLifetime` and the refinement `ImplementsQueue`. The
invariant `RingInv` gives, until the shutdown, the content of every slot from
`front`, `size` and the number of tasks: the tasks waiting are the last `size`
added, and a slot outside them holds the task of a round before. From it follow
both what is handed out next and what is freed.

Three more invariants are about waiting. `Tested`: what a thread tested under
the lock (the queue is empty, or full) still holds until it sleeps, and a full
queue until the sleeper is woken; with `LiveCount`, that there is always a
thread, it gives `RoomTold`, `AttendedKept`, and `AttendedUnlessTold`: while
`wait_exit_thr_num` stays 0, a task never waits with every worker asleep.
`Left`: at the shutdown at most one worker is between its test and its wait,
since the lock is held there, and none comes there afterwards; it gives
`OneLeftBehind`. `Stuck`: inside a `threadpool_create` that joins, nobody can
add or shut down, so no thread is started and none may end; hence
`CreateNeverReturns`, which generalises the run `threadpool_create` to every
pool with `MIN_WAIT_TASK_NUM` above 0 and needs no fairness.

The assumptions are the named `ASSUME`s of the modules: sizes are naturals,
clients have addresses, speeds are a byte, the clock bound is above the
offsets, stamps have ten digits, `MinThr` is at least 1 and at most `MaxThr`.
`LossNeedsAnother`, `OneRecorderKeeps`, `CreateNeverReturns`,
`NoStickingIfPeerWaits` and `AttendedUnlessTold` state their further hypotheses
themselves. Liveness under fairness is out of TLAPS's
reach and is only model-checked (`KeepsReceiving`, `ForceEnd`,
`MessageHandled`, `TaskServed`, `AddGoesOn`, `DestroyReturns`), as are the
violated properties, which are false. Every invariant, action property and
refinement that a passing run checks is also proved.

## Not modelled

- Almost all of `src/` by lines: it holds the whole of glibc 2.27, of which the
  server uses one changed part, `scandir` with two more arguments for its
  filter. That part is in `Scan`; the rest is the C library, and the lines
  `PROJECT.json` maps are a small share of `src/` for this reason.
- Configuration: parsing of `key=value` lines, without state of its own.
  `ClientNum`, `ClientAddr` and the directory of the records stand for its
  result. The code reads it again at each record (`ConfigFails` of Record) and
  playback (`Die` of Distribute); a file whose values change meanwhile is left
  out.
- The log: written under a mutex of its own, read by nothing.
- Hexadecimal conversion: pure functions that nothing calls.
- The test client and the test sender: any client, and a sender of a useless
  buffer, are behaviours of `FanOut`, `Distribute` and `Stream`.
- In `Distribute`, `Receive` takes one whole message; `Stream` has the joined
  and cut ones, without what follows from them in other processes. An END on
  the connection whose playback runs waits in the socket.
- Records made before 2001 or after 2074, whose names sort in another order.
- A record whose length changes while it is played, and the descriptor that
  `creat` leaves open.
- In the pool, failures of allocation and of thread creation, and what threads
  do with a pool after it was freed.
