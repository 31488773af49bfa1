# A TLA+ model of npemwind

npemwind receives the EMWIN data stream from one of several sources, stores
the blocks of each product in a spool directory, has a shell script put the
products together, and serves the stream to clients of its own over the
ByteBlaster protocol.  This directory holds TLA+ specifications of the parts of
it that keep state, the TLC configurations that check them on small instances,
and proofs, checked by TLAPS, that the main safety properties hold for
instances of any size.

Paths below are relative to the root of the repository; `src/` is the C source
of the daemon.

## The system

Four kinds of threads, and one process, share the work:

| who | code | does |
|---|---|---|
| main thread | `src/main.c`, `src/per.c` | sleeps, runs `periodic()`: passes on a hangup, waits for the qrunner and starts it again |
| signal thread | `src/signal.c` | turns signals into the quit and hangup flags |
| npemwin thread | `src/npemwin.c`, `src/servers.c`, `src/emwin.c`, `src/serverm.c`, `src/libconnth` | opens a source, reads packets, queues each for the clients, saves it to the spool; between packets serves the listening socket and the table of clients |
| a thread for each client | `src/serverc.c`, `src/libconnth/cq.c`, `src/libqdb` | takes packets from the client's queue and writes them to its socket |
| qrunner, a process | `scripts/qrunner.sh.in` | takes the products that are complete from the spool to the public directory and the postfilter |
| inserters, processes | `tools/npemwininsert` | write the packets of a file to a fifo that is one of the sources |
| helpers, processes | `src/httpd.c`, `src/bbreg.c` | read a pipe from the daemon until it is closed |

They meet in seven places, and each is a module or a group of modules here
(the packet reader, which comes before all of them, is a part of its own):

1. the spool directory, between the npemwin thread and the qrunner;
2. a client's queue, between the npemwin thread and the client's thread;
3. the table of connections, between the loops of the npemwin thread that go
   through it, the client threads that finish, and the clients;
4. the list of sources, between the npemwin thread and the hangup that has it
   read again;
5. the flags, the join at shutdown and the pid of the qrunner, between the main,
   signal and npemwin threads;
6. the fifo, between the inserters and the npemwin thread that makes, reads and
   removes it;
7. the pid file, the port and the pipes, between one daemon, the next one, its
   helpers and an operator.

## Modules

| module | models | lines that change state |
|---|---|---|
| `Spool` | `save_emwin_packet`, `read_qinfo`, `write_qinfo`, `get_seqnum_key` | one action for each system call that changes the disk |
| `QRunner` | the qrunner script; extends `Spool`, so it is the composition of the two | one action for each command that changes the disk |
| `QRunnerInv` | the inductive invariant of `QRunner` | |
| `ClientQueue` | `nbspqt_snd`, `nbspqt_rcv` and their cleanup | lock, put, count, signal, unlock; lock, test, wait, get, uncount, unlock |
| `ClientThread` | `client_thread_main` and all the npemwin thread does to one client; extends `ClientQueue` | one action for each step between cancellation points and mutex operations |
| `PacketStream` | what a client is promised, with no queue and no thread | the abstract specification `ClientThread` implements |
| `ConnTable` | the two parallel arrays of `conn.c` and the elements of `ce.c` | operators for the changes of the table |
| `NetServer` | `process_connections` and `poll_loop_nowait`; extends `ConnTable` | one action for each turn of each loop |
| `ServerList` | `servers.c` | operators for the changes of the list |
| `Daemon` | `main`, `periodic`, the signal thread, `npemwin_loop`, `cleanup`; extends `ServerList` | one action for each step another thread can fall between |
| `Framing` | what a packet is: decoding, checksum, names, lists of servers, the start of a WX14 block, the V2 form for clients (`v2.c`) | pure operators |
| `PacketReader` | opening, synchronizing and reading a source of each of the five types; extends `Framing` | one action for each `read1()` or WX14 message |
| `Infeed` | several `npemwininsert` and the fifo (`infeed.c`, `tools/npemwininsert`) | one action for each call that another process can see |
| `Lifecycle` | several processes of npemwind from `main()` to the end of `cleanup()`: pid file, port, helpers, scripts, signals | one action for each step of `main()`, `cleanup()` and the npemwin thread |
| `MC*` | constants for TLC | |
| `QRunnerStepProofs`, `QRunnerProofs`, `ClientProofs`, `NetProofs`, `NetResourceProofs`, `DaemonProofs`, `InfeedProofs`, `LifecycleProofs` | inductive invariants and theorems | |

The map from each definition to the lines it stands for is in `PROJECT.json`.

### The spool

`tfile[n]`, `qfile[n]` and `tmp[n]` are `qfiles/<n>.t`, `qfiles/<n>.q` and
`tmp/<n>.t`; `data[k][b]` is `data/<k>.<b>`, `asm[k]` the file the script
appends the blocks to, `out` the public directory.  A block file holds a record
that says whose block it is and whether it is exact, cut short, or followed by
the end of an earlier and longer block: `tmp/<n>.t` is opened without `O_TRUNC`,
and that is what a property can tell apart.  The packets are an input: any block
of any product may come next, which stands for blocks that are lost, repeated or
reordered and for products with the same name.

`tainted` is a history variable: the keys that were given out while files of an
earlier use were still there (after a restart or a wrap of the sequence numbers)
or under which a block was stored without being counted (after a write error or
a crash between the rename of the block and the write of the .t file).  What the
script makes of a tainted key is not right in general, and the run
`spool_restart` shows a case; everything that is proved is about the others, and
a file of `out` records in `clean` which kind it came from.

The key of a product is tainted also when the .t file cannot be removed after
its last block (`UnlinkTFails`; `emwin.c:789` ignores it): a later product of
that name goes on with the key.

Abstractions: the `cat` and the `rm` of one part are one step; unzipping,
removing control characters and the optional user filters are left out; a public
file is identified by name and contents, as the MD5 sum in its name does.

Restrictions: `Transfer`, from the assembled file to the queue of the postfilter
(`qrunner.sh.in:294-351`), is one step, so the script is not killed in the middle
of it; a public file stays (the hourly cleanup is not modelled) and
`detect_duplicates` is 1, on both of which `FilteredOnce` rests.

### A client

The thread's place is `rcv`, the sender's `snd`, the mutex is `owner`, and `db`
and `n` are the records and the counter that is kept apart from them.  A
cancelled thread goes to its cleanup handler from the cancellation point it is
at or comes to next, in the condition wait only after it has the mutex again.
The handler unlocks the mutex even if another thread holds it: what that does is
undefined, and the model allows each outcome of a normal mutex (the lock is
released under its owner, or the call fails).  `kill` is the npemwin thread's
place in releasing the client: cancel, join, close the queue, close the socket,
or the other order at shutdown.  `write1()` tests the quit flag before each
`write()`, and that is a step of its own: the flag may be set in between.  The
limits of the queue are not there because the daemon sets both to 0
(`serverm.c:565-569`); a put fails at any time, as it does when the data base is
full.  The timeout of the queue is chosen at the start,
among none, whole seconds and seconds with a fraction.

### The network server

Each turn of a loop is a step, with the loop's index and, where the code keeps
it in a variable, its bound.  Descriptors and queues get the lowest free number,
as the system gives them out.  Between the steps client threads finish.  What a
client sends is one of three kinds of message.  The waiting time of a client
that does not identify itself is the flag `overdue`.  `poll()` overwrites all
`revents`, so a new round begins by forgetting the old ones.  The settings `g`
(the limit on clients, and whether only V2 is served) are chosen at the start.

Two failures can end the process, which `End` stands for.  When the thread of a
client cannot be created, `ce.c:123` closes the queue and `conn_element_release`
closes the freed queue again (`ce.c:166-167`): that is undefined, and does nothing
or ends the process.  And when the `close()` of a client that hung up fails, an
assertion of `poll_clients` does.  If the `close()` of the old connection of an
address fails, the new connection is refused.

### The daemon

`server`, `max`, `current` and `refused` are the fields of `es_list`.  The
counters stop where no test of the code tells values apart
(`consecutive_packets` at the minimum, `bad_packet_count` one above the
maximum).  After a reload `npemwin_loop` still has a pointer into the list that
was freed; `release_server_list()` has set the descriptor there to -1, and the
table read next has -1 there as well, so what it reads through the pointer is
modelled as a read that fails.  Of an empty list element 0 is opened with no
name and an unset type: that fails, or ends the process.  An `exit()` while
another thread is in `exit()` ends the process or is left waiting, as C
libraries differ.

### The packet reader

A source is a sequence of items (data packets, lists of servers, noise) that it
repeats for ever; `pos` is the place of the next byte, and `at` the read the
thread is in.  A read takes any number of the bytes it still wants, fails after
any number of them, and a serial line or a receiver may lose a byte.  A packet
has the layout of the code with smaller sizes: a pad of 2 NULs, `/PF`, one byte
for the rest of the header, 5 bytes of data, a pad.  `Header` says what the code
makes of that byte: the sum, whether the name passes `checkfilename()`, whether it
is a text.  The exclusive or with `0xff` is `MaxByte - b`.  `/ServerList/` is two
bytes.  A WX14 message has at most the size of a packet without one pad: `wx14.h`
assumes that it is not longer than a block, and for one longer than this bound the
code computes a negative place for the end of the block.  The bound, `MaxMessage`,
is a restriction of the model: the code takes the length from the message and does
not test it (`wx14_private.c:132-158`).

`damaged` is a history variable: a byte of the packet that is being read was
lost.  The sum does not tell such a packet from another one if the byte was a
NUL.

For a client that asked for it a packet is compressed (`build_queue_data_v2`).
`compress` stands for zlib: it shortens a packet that ends in fill and lengthens
another, so that each case of `queue_data_v2` happens; `ClientPacket` is what a
client makes of the record.

The reader is a module of its own: what it hands on is an input of `Spool`
(any block may come next), of `ClientThread` and of `Daemon` (a packet is good,
bad, or cannot be read).

### The fifo

The thread closes and removes the fifo after an error or a while without
packets, and makes another when its turn in the list of servers comes; an
inserter that opened the old one still has it, so the fifos are numbered.  The
descriptor is not closed on exec: `heir` says that a script the daemon forked
still has a fifo open for reading, and an inserter then writes to a fifo that
nobody reads.  A packet is `Units` pieces, so that it can be cut.  `flock()` is
held until the inserter's descriptor is closed, by itself or by the kernel.
`infeed_open_fifo()` is one step: until its `open()` the new fifo has no reader,
so that an inserter's `open()` fails as it does without a fifo, and when a call
of it fails that stays so until the next try.

### The life of the daemon

`pc[p]` is where the main thread of process `p` is in `main()`, its loop or
`cleanup()`; every step may fail, and a process may be killed at each.  `daemon()`
changes the pid.  `fps` are the pipes a daemon has open, `helpers` those that run;
a script it forked has inherited the pipes, so a helper sees the end of its input
only when the script has ended too.

A process ends in three ways: `main()` returns after the quit flag, the signal
thread calls `exit()` for `SIGABRT`, or the npemwin thread calls it, when the list
of servers cannot be read again (`npemwin.c:499-515`, the action
`reload_servers_list`).  In the third `cleanup()` runs in the npemwin thread, whose
join of itself fails and is ignored, and `terminate_npemwin()` does not run: the
port stays open, after the pid file was removed, until the process ends, and a
second daemon that starts meanwhile gets the file and not the port.  `OneDaemon`
and the invariant's `ThreadPlaces` name this exception.  A pid file that cannot be
removed stays (`pid.c` logs it), and keeps the next daemon out.

A second `exit()`, while another thread is in the first, is undefined in C: it
waits for ever, or the process ends, as by a kill.  If the npemwin thread waits in
one while `cleanup()` waits to join it, the process stays.  `TerminatedEnds` here
and `ShutdownCompletes` of `Daemon` both leave out that case.

Restrictions: pids are not used again; an operator removes a pid file only if no
process keeps it; `SIGABRT` comes while the daemon is in its main loop and its
thread runs; a helper ends at the end of its input (`TerminatedEnds` rests on
that and on the end of every script).

## Runs

All bounds are small because every pair of steps that can interfere is already
there with two of each thing: two names, two keys, two clients of one table, two
servers.  What more of them adds is left to the proofs.

| run | instance | shows |
|---|---|---|
| `spool_core` | two names, products of 3, 2 and 1 blocks, the first two with one name; 4 packets in any order; `cat` may fail | `PublishedInOrder`, `PublishedWhole`, `FilteredOnce`, `ScriptSparesOpenProducts`; `ReleasedIsDrained`, `TakenIsPublished` under fairness |
| `spool_faults` | products of 2 and 1 blocks, two keys so that they wrap, 3 packets, 1 restart or .t file that cannot be removed, every write, rename and `cat` may fail, the purge may take any file, the script may be killed | `TypeOK`, `PartialBlockStaysInTmp`, and the inductive invariant `IInv` |
| `client` | 3 packets, each kind of timeout, failures of put, get, truncate and write, hangups, shutdown | `QueueExclusion`, `QueueCount`, the refinement `StreamKept`; `QueuedIsTaken` (no lost wakeup), `KilledIsJoined`, `ExitIsReaped` under fairness |
| `net` | two addresses, three entries, with and without a limit of one client and with V2 only, every call may fail, also so that the process ends | `TablesParallel`, `ResourcesAccounted`, `ClientLimit`, `OneConnectionPerIp`; `FinishedIsRemoved`, `SilentIsServed` under fairness |
| `daemon` | lists of 0, 1 or 2 servers or one that cannot be read, 2 signals, 1 packet that cannot be saved, failing initialization | `OneSourceOpen`, `SleepsWhenAllRefused`; `ShutdownCompletes`, `PoorServerIsLeft`, `QRunnerRunsAgain`, `ReloadIsServed` under fairness |
| `reader` | packets of 13 bytes; six sources: good ones with a list, data with false marks (two), a wrong sum, a bad name, noise; each of the five types; 1 failed read or save, 1 lost byte, 2 tries to synchronize; V1 and V2 with three ratios | `SavedIsSent`, `InSync`; `KeepsDelivering` under fairness |
| `infeed` | two inserters; files of two parts (the last not full), with a bad name, or too large for the header; a fifo of one packet of two pieces, made twice; kills, scripts | `InsertsApart`, `RefusedIsTorn`; `DoneIsSaved`, `InserterEnds` under fairness |
| `lifecycle` | two processes, two helpers each; every step may fail, kills, signals, a reload that ends the process, stale pid files | the inductive `LifecycleInv`, `OneDaemon`, `PidFileNamesDaemon`; `TerminatedEnds`, `HelpersEnd` under fairness |

Each property has a mutant in `PROJECT.json`: a change of one definition, of the
kind a slip in the code would be, under which TLC finds the property violated.

Deadlock is checked in all runs but those of `Daemon`, `Infeed` and `Lifecycle`,
whose processes end.

### Where the code and what is said of it differ

Four runs check one statement of a comment or a document, and TLC finds a
behaviour of the code that contradicts it:

- `spool_fields`: the daemon writes the fields of a .q file in one order and the
  script reads them in another.  The script therefore takes the number of blocks
  received for the number of parts; a product with a repeated block is complete
  and is thrown away.  (That the exchange never publishes a product that is cut
  short is `PublishedWhole`.)
- `spool_restart`: the keys begin again when the daemon is started and the spool
  is not emptied: a key is given out while the .q file of an earlier product
  still names it, and the block of the new product is published under the name
  of the earlier one.
- `client_fd`: at shutdown the socket of a client is closed before its thread is
  stopped, against the order `conn.c` and `ce.c` ask for.  A thread that tested
  the quit flag before it was set (`nreadn.c:127`) then writes to a descriptor
  that is closed.
- `lifecycle_abort`: for `SIGABRT` the signal thread calls `exit()` without the
  quit flag; `cleanup()` joins the npemwin thread, which was not told to stop,
  and the daemon stays.

The models have these behaviours as well, which no run singles out:

- a .q file renamed into place between the script's `read` and `rm` of the one
  with the same name is removed unread (`qrunner.sh.in:212-213`);
- a thread can miss the error flag of its queue, which the next successful put
  clears (`qdb.c:159`);
- `process_finished_connections` skips the entry after each one it deletes until
  the next round (`serverm.c:290-297`);
- when the thread of a client cannot be created its queue is closed twice
  (`ce.c:123` and `166-167`);
- a client that hangs up can end the daemon, if `close()` of its socket fails
  (`libconnth/poll.c:133`);
- the number of records of a client's queue has no limit but that of the data
  base: `serverm.c:565-569` sets both limits to 0, while
  `conf/npemwind.conf:241-247` says that the hard limit, 512 if nothing is set,
  is an absolute maximum;
- a list of servers that cannot be read at a reload ends the daemon, which then
  removes its pid file before it closes its port (`npemwin.c:499-515`);
- a reload asked for between the read and the reset of the flag is lost
  (`npemwin.c:473-474`), and while no source can be opened the flag is not looked
  at; `ReloadIsServed` leaves both out;
- after a reload the first server begins with a bad mark; if the maximum is 1
  the count passes it and the test for equality never holds again
  (`servers.c:186`); the run `daemon` has a maximum of 2;
- a pid file that was made and could not be written stays empty (`pid.c`), and
  keeps the next daemon from starting until it is removed;
- between its `open()` and its `flock()` an inserter can be left with a fifo that
  was replaced; what it then writes is lost, and it reports success if a script
  still has that fifo (`io.c:52`);
- a server of V2 only serves V1 to a client that does not identify itself
  (`serverm.c:325`, `conf/npemwind.conf:223`);
- synchronizing reports success without a packet that could be decoded when its
  tries are used up (`emwin.c:369`); with false marks in the data a source can
  be opened out of step again and again, so that `KeepsDelivering` is about data
  without them;
- a WX14 block that is complete waits for the start of the next one and is lost
  if the next read fails (`wx14_emwin.c:56`), and a block whose start is split
  between two messages is skipped without an error.

## Fairness

- `QRunner`: weak fairness of a save that has begun (the thread does not stop in
  the middle) and of the script's steps, starting it included (`periodic()`
  starts it again and again).  None of packets, the purge, kills or the operator.
- `ClientThread`: weak fairness of the steps of both threads, strong fairness of
  taking a mutex that is free again and again, of a timeout, which is an absolute
  time, and of a get that succeeds: the data base does not fail for ever.  None of
  packets, hangups, spurious wakeups or the quit flag.
- `NetServer`: weak fairness of the npemwin thread, which comes back to the
  network server after each packet or read timeout, while it has a source; strong
  fairness of time passing for a client that waits.  None of clients.
- `Daemon`: weak fairness of the main and the npemwin thread, whose reads, opens
  and sleeps all have a time limit, and of the end of the script; strong fairness
  of starting the script, which says that the period is over at some time when
  `periodic()` looks, and that `fork()` does not fail for ever.
- `PacketReader`: weak fairness of the thread's steps: a read that does not fail
  (a timeout is a failure, and failures are bounded) has some byte.  None of
  failures or losses.
- `Infeed`: weak fairness of the reading thread once it has data or an error, of
  each inserter, and of the end of each script.  None of kills, forks, timeouts or
  of making another fifo.  Only two inserters wait for a lock, so weak fairness
  of `flock()` is enough.
- `Lifecycle`: weak fairness of the main and the npemwin thread of a process that
  was started, of the end of its scripts, and of a helper whose input has ended.
  None of starts, signals, kills or the operator.

## Proofs

The theorems hold for every value of the constants that the named assumptions
of the modules allow: the types of the constants, and that the values for "no
file", "no process" and the like are none of the files or processes.

| module | theorem | states |
|---|---|---|
| `QRunnerStepProofs` | `TypeCorrect` | `Spec => []TypeOK` |
| `QRunnerProofs` | `Invariance` | `Spec => []IInv` |
| | `InOrder` | `Spec => []PublishedInOrder` |
| | `NeverTruncated` | `Spec => []PublishedWhole` |
| | `PartialStays` | `Spec => []PartialBlockStaysInTmp` |
| | `PostfilteredOnce` | `Spec => []FilteredOnce` |
| | `SparesOpen` | `Spec => ScriptSparesOpenProducts` |
| `ClientProofs` | `QueueExclusionHolds` | `Spec => []QueueExclusion` |
| | `QueueCountHolds` | `Spec => []QueueCount` |
| | `StreamIsKept` | `Spec => StreamKept`: `ClientThread` implements `PacketStream` |
| `NetProofs` | `TablesParallelHolds` | `Spec => []TablesParallel` |
| | `ClientLimitHolds` | `Spec => []ClientLimit` |
| | `OneConnectionPerIpHolds` | `Spec => []OneConnectionPerIp` |
| `NetResourceProofs` | `ResourcesAccountedHolds` | `Spec => []ResourcesAccounted` |
| `DaemonProofs` | `OneSourceOpenHolds` | `Spec => []OneSourceOpen` |
| | `SleepsWhenAllRefusedHolds` | `Spec => SleepsWhenAllRefused` |
| `InfeedProofs` | `Invariance` | `Spec => []InfeedInv` |
| | `InsertsApartHolds` | `Spec => []InsertsApart` |
| | `RefusedIsTornHolds` | `Spec => []RefusedIsTorn` |
| | `PartsAreTheFile` | the parts of a file of any size cover it without overlap |
| `LifecycleProofs` | `Invariance` | `Spec => []LifecycleInv` |
| | `OneDaemonHolds` | `Spec => []OneDaemon` |
| | `PidFileHolds` | `Spec => []PidFileNamesDaemon` |

### The spool

A product goes from the save in progress to the .t file, to the .q file, to the
script's task; each of them names a key.  `PublishedInOrder` is not inductive: to
know what the script assembles one must know that nobody else is storing blocks
under its key.  `IInv` says, for each key that is not tainted, that at most one of
the four has it (`SaveInv`, `TInv`, `QInv`, `TaskInv`; a save shares it with the .t
file of its own name), that block `i` of the key's own name is at place `i`, and
that the count its holder knows is at least the number of different blocks
stored.  The last clause is what makes the exchanged fields harmless: the script
takes the count `r` for the number of parts, and requires parts `1..r`; at most
`r` different blocks are stored, so they are exactly those; the last block of
some product is among them (`ReleasedWith`); so a file made of one product ends
with its last block.  While the parts are put together (`CatInv`) those before
`idx` are in the assembly and the others still in the data directory.

Two more clauses carry the other invariants.  A block written in part leaves
`tmp` only by the rename that follows a complete write, so none is in the data
directory; that the public directory has none either needs `CatWhole`, that an
assembly whose last command succeeded has none, since `cat` may fail half way and
only the return code tells.  `FilteredOnce` needs `QueuedIsPublic`: what waits for
the postfilter is in the public directory already, where the script finds it when
the same file comes again, and does not queue it twice.

`QRunnerStepProofs` has the types, action by action, and shows that receiving,
saving and restarting, and then the script, the purge and a kill, preserve the
invariant of one key; both rest on frame lemmas for the keys an action does not
touch.  `QRunnerProofs` puts them together and adds the clauses about contents.

### A client

That the sections exclude each other does not follow from the mutex alone, since
`cleanup()` unlocks it for whoever has it.  `ClientInv` says why it does no harm
(`Ownership`): a sender in its section without the mutex is there only when the
thread has been through its cleanup handler and will not come back.  `Release`
ties the release of the element to the sender and to the end of the thread, and
`Counting` says what the counter is while one of the two is between the data
base and the counter.  With `InHand`, what the thread has taken and not yet
written, `ClientInv` is inductive, and each step of `ClientThread` is one of
`PacketStream` or leaves its variables alone: the queue of the abstract stream is
what is in the data base and in hand.

### The network server

`NetInv` keeps, beside the two arrays, that the first entry is the listening
socket and no other is, that `nclients` is one less than the length, that the
loops' bound `numentries` is the length of the table whenever it is used, and that
the address of a connection about to be added is not in the table.  The last is
what `poll_restore_connection` establishes, and it needs uniqueness: only one
entry is removed.  Every change of the table but the addition is a removal of one
client or an edit of one entry (`RemovalShrinks`, `EditShrinks`), and the loops go
on in one of four ways (`TurnStep`, `EnterStep`, `LeaveStep`, `StayStep`); an
action's lemma puts one of each together.

`ResourcesAccounted` needs more than `NetInv`: that no two entries have the same
descriptor or queue, or else closing one would close the other's.  `ResInv` says,
relative to `NetInv`, that the entries after the first own exactly the open
descriptors, the threads not joined and the open queues, each its own, and that
a connection between `accept()` and its entry owns its descriptor (`FdRes`,
`ThreadRes`, `QueueRes`, `AcceptedRes`).  `accept()` gives the lowest free
descriptor, which is therefore new (`LowestIsFree`); a removal shifts the entries
and keeps them apart (`RemovalMap`).

### The daemon and its life

`DaemonInv` says that an open source is the current one and is marked as
connected, which is what `get_next_server()` looks at before it closes one
(`Alone`), and that the servers that refused follow one another around the list
and number `refused_connections` (`Cycle`): one more than the servers there are
means that all of them did.

`LifecycleInv` says where a process may be while it has the pid file
(`LockPlaces`, `LockFile`), a thread or the port (`ThreadPlaces`) and a helper
(`HelperPlaces`): a thread that has not called `exit()` keeps `cleanup()` at its
join, and so the pid file; one that has is in `cleanup()` itself, or waits in
`exit()`, and has the file or is at the stop script.  From these places, and
because the file is made with `O_EXCL`, `OneDaemon` follows.

### The fifo

What is saved is what was written only if nothing is mixed on the way, and the
way has three parts: what `readn()` has of a packet, what is in the fifo, and what
an inserter has still to write.  `InfeedInv` is about the first two as one
sequence, `Stream`, which a read does not change.  While the fifo is open it starts
where the last packet saved ends (`Heads`); after the last piece of a part comes
the next part or the first of a file not seen before (`Links`); from any piece the
rest of its packet follows, unless its inserter was killed (`Runs`); and a packet
that is not finished is the one the holder of the lock is writing, or was left by
an inserter that was killed (`Unfinished`, `Writers`).  `Locks` says that a lock is
held from the first part to the last.  The invariant follows the stream and not
the calls, so it does not matter where `write()` and `read()` cut a packet.  A
full buffer is the first packet of the stream: by `Runs` it is whole or its
inserter was killed, which is `RefusedIsTorn`; when it is saved, `Heads` and `Links`
say that it continues the packets saved, which is `InsertsApart`.  A new fifo is
empty and nobody has it open, so that the invariant begins anew.

`PartsAreTheFile` is about `get_parts_total()` and `get_last_part_size()`, for
files and parts of any size: with it, what `DoneIsSaved` says of the bytes of a
file follows from what it says of its parts.

### What is only model-checked

TLC agrees with every inductive invariant on the small instances: `IInv` and
`LifecycleInv` are invariants of runs, and `ClientInv`, `NetInv`, `ResInv`,
`DaemonInv` and `InfeedInv` hold in all states of `client`, `net`, `daemon` and
`infeed`.  Of the invariants that the runs check, `SavedIsSent` and `InSync` of
`PacketReader` have no proof.  They hold of the sources of the run, not of every
one: a wrong packet whose sum agrees by chance, or data that looks like a header
at every place, would refute them.  A condition on the sources that excludes
just those is about sums and encodings, which are folds, and what a fold or a
recursive function computes for every input needs induction over data, which is
out of the prover's reach; for the same reason `Framing` stays with TLC.
`PublishedUnmixed`, `AllReceivedIsAssembled`, `WritesToOpenFd` and `SignalEnds` are
violated.  Liveness under fairness and `ENABLED` are out of the prover's reach,
and all liveness stays with TLC.

Some liveness properties leave out a case in which the code does not do what they
say, and name it: `KeepsDelivering` false marks (`emwin.c:369`), `ReloadIsServed` a
hangup between the test and the reset of the flag (`npemwin.c:474`), `DoneIsSaved`
a fifo that is given up (`infeed.c:72`), `TerminatedEnds` and `ShutdownCompletes` a
second `exit()`.  `ReleasedIsDrained` is checked without kills of the script.

## What is not modelled

- The fields of a packet's header, other than by what the code decides from
  them; zlib, which `compress` in `Framing` stands for.
- The identification the daemon sends to a ByteBlaster server, and the flag with
  which `periodic()` asks for it: a write, whose failure is the failure of a read.
- The WX14's message headers and signal status.
- Sockets and serial ports, seen as calls that succeed or fail.
- The times of `periodic()`: what is done every so many seconds may happen at any
  turn of the main loop.
- Configuration, log files, statistics, access control (its two answers are in
  `NetServer`); the replacement of `daemon()` for Solaris.
- The memory of the daemon: what is not freed on an error path, and the name of
  the stop script, which `cleanup()` uses after it has freed it (`init.c:209`).
- The Tcl filters, the web server and the operator's scripts.

`PROJECT.json` lists each with its reason.

## Plan

1. A composition of `Daemon`, `NetServer` and the clients' queues on one packet:
   what is queued for a client while the source changes and the list is reloaded.
2. A condition on sources, stated without folds, under which `InSync` can be
   proved for sources of any length.
