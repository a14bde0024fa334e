# A TLA+ model of wfedd

`wfedd` is one C process that serves a static page with libwebsockets (lws) and
bridges every websocket a browser opens to a unix-domain socket of a local
daemon. This directory holds TLA+ modules for its parts, TLC runs over small
instances, and TLAPS proofs for all instances. Paths below are relative to the
repository, which is at `src/`.

## 1. Inventory

| component | code | state it keeps | operations |
|---|---|---|---|
| connections | `main/backend.c` 97-247, 353-609 | `conn_t`: descriptor, two message queues; `filedict`, a dictionary by descriptor | `conn_new/open/close/del`, `conn_putmsg_*`, `conn_getmsg_*`, `conn_hasmsg_*`, `conn_readraw_local`, `conn_writeraw_local`, `dict_*` |
| service loop | `main/backend.c` 260-349 | `irq`, the lws context, `lws_rc` | `backend_run`, `backend_inthandler` |
| callbacks | `main/frontend.c` | per session: `conn_handle`, `lwsi`; per vhost: `pss_list`; in lws: which wsi waits for POLLOUT | `frontend_ws_callback`, `frontend_cli_callback`, `frontend_start/stop`, `frontend_createmsg` |
| message queue | `main/mq.c` | a STAILQ of heap messages | `msg_new/free`, `mq_putmsg`, `mq_getmsg` |
| socket list | `main/socklist.c` | a sorted array of (websocket name, socket path) | `socklist_addmap`, `socklist_search`, `socklist_newclient` |
| protocol table | `main/main.c` 308-346, callbacks of `main/frontend.c` | `protocols[]`, per-vhost data, slots initialised | `wfedd`, PROTOCOL_INIT, upgrade of a websocket by name |
| process | `main/main.c` | parsed options, allocated strings | `main`, `wfedd` |
| client options | `main/cliopt.c` | `master`, three flags | `cliopt_init`, `cliopt_isverbose/isdebug/isquiet` |
| hash table | `local_lib/uthash.h` (vendored) | buckets, handles, application order | find, add, replace, delete, clear, sort, select, iterate |
| debug, HTTP dummy, build files | `include/debug.h`, ... | none | not modelled, see section 8 |

**Interaction.** `main` fills the socket list and calls `wfedd`, which builds
the lws protocol table (one protocol per name) and calls `backend_run`. That
creates the lws context and calls `lws_service` until `irq` is set by SIGINT.
From inside `lws_service`, in the same thread, lws calls back:
ESTABLISHED looks up the daemon, makes a socket and a `conn_t`, connects and
hands the descriptor to lws, which makes it a *child* wsi of the websocket.
RECEIVE queues browser data for the child, and RAW_RX_FILE queues daemon data
for the websocket; each asks for a writeable callback of the other side, which
drains the queue. RAW_CLOSE_FILE (daemon gone, or the parent going) closes the
descriptor; CLOSED unlinks the session.

**What is hard here.** There is a single thread, so the hazards are not data
races but orders of callbacks: which peer goes first, what is still queued,
who holds a pointer to what has been freed, descriptor numbers that come back
in another session, wake-ups that must be asked for, a `write()` that blocks
the whole process or loses data, a signal between two instructions, and
ladders of `goto` and fall-through `case` labels. `PROJECT.json` lists them at
their lines.

**What makes each part correct.**
- connections: a descriptor is closed once, by its owner; no callback gets a
  freed `conn_t` (`FdOwnership`, `ConnAlive`).
- callbacks: two lossless ordered streams per session (`ImplementsDuplex`,
  `UpLossless`, `DownLossless`), which under failures lose but never reorder,
  repeat or mix (`InOrder`), no forgotten message (`NoLostWakeup`,
  `UpDelivered`, `DownDelivered`), no session outliving its peers
  (`SocketReclaimed`).
- loop: a SIGINT that is seen ends it, and nothing stays open
  (`ShutdownCompletes`, `StopsWhenSeen`, `AllReleased`).
- queue: a FIFO, no pointer into a freed block (`ImplementsFifo`, `NoDangling`).
- socket list: sorted, write-once (`SortedTable`, `ImplementsNameMap`).
- protocol table: a name leads to its own daemon or to none (`OwnDaemonOnly`).
- memory: failures leave nothing behind (`HeapAccount`); only a daemon, or lws
  without memory, can bring the program down (`OnlyDaemonsCrash`).
- process: every exit path frees what it allocated, but for the strings of the
  socket list and a path of `--tls` (`CleanExit`), and nothing runs before what
  it reads has been made (`Prepared`).
- hash table: an ordered dictionary (`ImplementsOrderedDict`) over two linked
  lists that agree (`HashIntact`), which finds what it holds (`FindsAll`) in
  chains of bounded length (`ChainsBounded`).

## 2. Modules

| module | models | remarks |
|---|---|---|
| `Conn` | connection objects, `filedict`, descriptor table | operators only; composed by `Bridge` |
| `Bridge` | the callbacks, the service loop, daemons and browsers | `Spec`, fairness, safety properties, inductive invariant |
| `Duplex` | what a bridge promises: two streams per session | abstract |
| `BridgeStreams` | payload properties, refinement to `Duplex`, liveness, refuted claims | |
| `Service` | the calls of `lws_service` around the callbacks of `Bridge`: when one returns | composed with `BridgeStreams` |
| `Socklist` / `NameMap` | the sorted table / a write-once map | detailed / abstract |
| `Startup` | `Socklist` composed with the protocol table and the way from a name to a callback and a daemon | |
| `Mq` / `Fifo` | STAILQ pointers / a queue | detailed / abstract |
| `Wfedd` | `main`, what it hands to `cliopt.c`, `wfedd`, the frame of `backend_run`, SIGINT | |
| `Uthash` / `OrderedDict` | buckets, handles and pointers / a sequence of items | detailed / abstract |
| `MCBridge`, `MCService`, `MCStartup`, `MCMq`, `MCWfedd`, `MCUthash` | instances for TLC | |
| `BridgeProofs`, `BridgeStreamsProofs`, `StartupProofs`, `WfeddProofs`, `MqProofs`, `UthashProofs` | theorems | |
| `UthashLists` | lemmas on linked lists, buckets and expansion | no model |
| `SeqFacts` | lemmas on induction, recursive functions and `FlattenSeq` | no model |

Definitions marked "Mutation" are faulty variants of the definition that
follows them. No specification uses them; they are there to show that a
property fails when the code is wrong in that way.

### Conn and Bridge

A session is named by a model value and owns at most one `conn_t`, one socket
and one child wsi. `owner[f]` is the descriptor table: whose client socket
number `f` names now. Callbacks reach a socket only through
`owner[fd_ds[s]]` (`Peer`), so a stale number reads, writes or closes another
session's socket, as it would in the process.

- One action is one callback, with all its calls. The writeable callbacks are
  split at each turn of their `while` loop (`CliPop`, `CliWrite`, `CliReturn`;
  `WsWrite`, `WsChoke`, `WsReturn`), since daemons and browsers act while a
  `write()` goes on, and ESTABLISHED in two (`Establish`, `Adopt`), since its
  `connect()` waits while a daemon's backlog is full. `busy` keeps every other
  callback out meanwhile.
- A daemon may shut down its writing half only (`dsock = "half"`): the socket is
  then readable for ever, `read()` returns 0 and `CliReceive` does nothing.
- `item` is the dictionary item of a connection, allocated beside its `conn_t`.
- `Adopt` may get NULL from lws, which `lws_set_opaque_user_data` writes
  through: `loop = "crash"`.
- `CliHangup` is what lws does for POLLHUP: one RAW_RX_FILE if there is
  something to read, then RAW_CLOSE_FILE. lws closes the descriptor once more
  within the same callback; nothing can have taken the number in between, so
  that second `close()` is EBADF and left out.
- `filedict` is modelled as written: `dict_new` has no `HASH_ADD`, so nothing
  is ever found in it and no `conn_t` is freed. That is a leak, and at the same
  time all that keeps the websocket's pointer to the `conn_t` valid after
  `conn_del`: with `HASH_ADD` alone added (`DictNewHashed`), `ConnAlive` fails.
- `WantWriteable` on a freed `lwsi` is undefined behaviour: it does nothing,
  reaches some other wsi, or crashes.
- `msg.size` and the payload are kept apart, as `frontend_createmsg` adds
  `LWS_PRE` to the one and not to the other; `Frame` shows what `lws_write`
  sends. `TooShort` is the comparison with its conversion to `size_t`, of width
  `SizeMod`.
- A choke in the middle of a drain leaves the loop with the `rc` that an earlier
  `lws_write` of the same callback has set; `WsResult` is the `return rc` that all
  ways out of the callback share, and with -1 lws closes the websocket.
- `Nonblocking` says whether adopting the descriptor sets `O_NONBLOCK`, which
  depends on the version and platform of lws. Both are run.
- Units `<<s, n>>` are the n-th unit that one end of session `s` sends. `websent`,
  `dsent`, `dgot` and `wgot` are history variables.

`Bridge` has no notion of a call of `lws_service`: callbacks follow each other until
`LoopEnd`. `Service` adds it with one variable, `returns`: the call has served
something, or its poll was interrupted, and will therefore come back. `ServiceAgain`
is the loop that finds `irq` clear and calls again, `ServiceLast` the one that finds
it set. `ServiceSignal` leaves `returns` as it is when the signal falls between the
test of `irq` and the poll: such a call waits for the next event, and nothing in the
model says that one comes.

### Socklist, Startup, Mq, Wfedd

`Socklist` follows `socklist_addmap` check by check; names are integers, whose
order is that of `strcmp`. `At`/`Bound` is the refinement mapping to `NameMap`.
`Startup` adds what becomes of the list: `ProtocolTable` is `protocols[]`,
`ProtocolInit` the PROTOCOL_INIT of one slot, `Upgrade` a websocket that asks for
a name. Names may be those of the two built-in slots, `Http` and `Cli`; lws takes
the first slot with the name (`SlotOf`). `main` looks at no result of
`socklist_addmap`, so `WfeddStarts` may follow any sequence of calls.
`Mq` keeps every pointer cell of the STAILQ macros; a freed block keeps its
contents, and `malloc` may return any free block.
`Wfedd` has one step per allocation or decision and a set of allocated blocks.
`args` is what `arg_parse` has counted, any combination of it; `OutputArgs` is
the order in which verbose, quiet and debug undo each other, and `opts` what the
getters of `cliopt.c` read (`NoOpts` while `master` is NULL). `bailout` is `main`'s
own flag, which alone decides whether `wfedd` is run: `exitcode` stays 0 on some of
the failures. A `-S` argument without ':' kills the process in `MainSocklist`, with
the list allocated, as `AddMalformed` does in `Socklist`.
`lws_service` waits for events (`ServiceEvent`); `SigintInPoll` is the EINTR of a
waiting poll, `SigintHandled` at step "service" a signal before it or in a callback.

### Uthash

A hash is the application's head pointer, the table, and the handles of the items,
each field of them a function from the items; every field a macro reads or writes is
there but `key`, `keylen` and `hashv` (`KeyOf` and the function `hashf`, which is any
function at all) and `nonideal_items`, which only one macro uses. Each operation is
an operator from hash to hash, in the order of the macro's assignments where it
matters. A loop is a function from numbers to the state after so many turns
(`RehashAll`, `Select`, `Turns`), and a cycle would show as a walk that does not end
at NULL. What is freed is `Wild` in every
field, so that use after free shows. The application of the model adds keys once,
keeps its selection while it looks at it, and may delete the item at hand in a
HASH_ITER loop, as uthash's documentation asks. wfedd itself reaches only
HASH_FIND_INT, HASH_DEL and HASH_ITER, on a table that stays empty (`Conn`).

## 3. Runs that pass

| run | what it asks | bounds |
|---|---|---|
| `bridge_safety` | descriptors, lifetimes, wake-ups, release, heap, crashes and order under every order of callbacks, hang-ups, half-closes, failing mallocs and adoptions, short writes, connects that wait or are refused, SIGINT | 2 sessions, 2 descriptors, 2 units in all, up or down, buffers of 1, `LWS_PRE` 2, non-blocking |
| `bridge_streams` | what is delivered | 1 session, 3 units each way, reads and fragments of up to 2, socket of 2, choke at 1 |
| `bridge_live` | delivery and reclaiming under fairness | 1 session, 2 units each way, reads and sockets of 1 |
| `bridge_stop` | SIGINT ends the loop, also from within `connect()` to a full backlog and `write()` to a full socket | 2 sessions, 2 descriptors, fragments of up to 2, 2 units up in all, sockets of 1, no units down |
| `startup` | sorted write-once table; a name leads to its own daemon | 4 names, two of them built in, 2 paths, table of 3 |
| `wfedd_life` | clean exits, SIGINT at each step, nothing used before it is made | every combination of flags, ports -1, 0, 1, 65535, 65536 |
| `mq` | FIFO, no dangling pointer | 4 blocks |
| `uthash` | ordered dictionary, intact lists, bounded chains | 5 items, 4 keys, hash values 0, 1, 8, 1 bucket at first, threshold 1, doubling begins with at most 16 |

**Why these bounds are enough to be interesting.** Two sessions are the least with which a number is reused while the websocket that
had it is still open, and with which a stale wsi pointer can hit another session.
`bridge_safety` gives them one budget of units (CONSTRAINT `FewUnits`): two units
of one stream, where a lost first one may not be overtaken, or one each of two
streams, where one may land in the other's socket. More would repeat these cases
at many times the states; the theorems of section 6 have no such bound.
`bridge_stop` has a like budget (`MCService!FewUnits`) against sockets of one unit: one
message of two blocks after its first half, two messages of one block at the second,
and in two sessions one can be blocked while the other has something queued. A
constraint may hide behaviours from a liveness property; here it only stops browsers
from sending, which no fairness asks of them.
Three units with reads of two and a socket of two give a full socket, a partial
write, a message read in two parts and a choke in the middle of a drain. Four
names against a table of three reach "full" with insertions at the front, in the
middle and at the end. Four blocks let a queue run empty and fill again with
reused blocks. `SizeMod` is larger than any message, as 2^32 is. A threshold of
one item and a single bucket make the hash double from its first addition on;
the values 0 and 8 collide until there are sixteen buckets, so that expansions
are ineffective and `noexpand` is set. Two items have one key, for replacement,
and ranks tie, for the stability of the sort. Of the hash functions the run takes
those that map the first key to 0 (CONSTRAINT `FirstAtZero`), a third of them.
The safety properties of all these runs are also proved for all bounds
(section 6); `ImplementsDuplex` gets several sessions there.

`CHECK_DEADLOCK FALSE` in all of them, because the program really stops (exit,
crash) and because the peers may fall silent for ever. Whether the program gets
stuck is the question of the liveness properties.

## 4. Fairness

- `CallbackFairness` (WF): a callback that has begun goes on. `CliWrite` is
  disabled while a blocking `write()` has no room, so this assumes nothing
  about daemons.
- `PollFairness` (SF): `lws_service` polls all descriptors and serves those
  that are ready in turn. Strong, because readiness comes and goes with `busy`
  while the poll set is complete on each round.
- `DestroyFairness` (WF): `lws_context_destroy` closes one wsi after the other, and
  `backend_run` then returns.
- `ServiceFairness` (SF on `ServiceLast`): a call of `lws_service` that has a reason
  to return (`returns`) serves the finitely many descriptors its poll reported and
  does so. Strong, as `busy` comes and goes with each callback of the call. Nothing is
  assumed of a call without a reason, as one that a SIGINT just missed.
- `DaemonFairness`, `BrowserFairness` (WF): daemons keep reading, browsers keep
  draining. They are assumptions about other programs, and are named where used:
  `Service!StopSpec` has neither, `Service!StopSpecDaemons` has the first,
  `Bridge!FairSpec` both.
- `Wfedd!FairSpec`: WF on the steps of the program that need no outside event; so
  none on the return of `lws_service`.

A `connect()` that waits is the daemon's to end (`DaemonAccepts` or
`DaemonRefuses`, in `DaemonFairness`). No fairness on opening a websocket,
sending, hanging up or SIGINT.

## 5. Where code and comments disagree

Each run shows one statement of a comment or document violated by the code.

| run | statement | what happens |
|---|---|---|
| `claim_transparent` | frontend.c:223 "We allowed for LWS_PRE in the payload" | `msg->size` includes `LWS_PRE`, so every frame has `LWS_PRE` bytes of other memory at its end |
| `claim_writeerror` | frontend.c:228 "ERROR %d writing to ws" | `-1 < msg->size` is false in `size_t`, so a failed `lws_write` is no error |
| `claim_tls` | README.md:91 "--tls" | success of `asprintf` is taken for failure |
| `claim_sigint` | backend.c:315 "Configure an IRQ in order to stop wfedd asynchronously" | a signal between the test of `irq` and the poll is acted on only at the next event |

The model shows more, without a run of its own:

- frontend.c:237 "This message will be written to corresponding daemon socket":
  after a hang-up the websocket stays, and its messages are queued for nobody,
  with a writeable callback asked of a freed `lwsi` (`WantWriteable`). This and a
  NULL from adoption are the only ways to crash (`OnlyDaemonsCrash`).
- main.c:145 "with no command line options induces brief help": `-S` has a
  minimum count of 1, so no argument at all is an error of `arg_parse`, and the
  test for `argc==1` comes after errors have ended the program (`MainArgs`).
- main.c:257 `return exitcode`: it is 0 after a failed `malloc` of the resource
  or URL string, and whatever `backend_run` and `wfedd`'s own `exitcode` say
  (`MainRsrc`, `WfeddFinish`).
- main.c:198 "acceptable range (1-65535)": `port >= 0 || port >= 65536` refuses the
  whole range and takes negative ports only (`PortRefused`).
- socklist.c:77: `socklist_deinit` frees the list but not the strings of its
  entries ("names" in `CleanExit`).
- uthash.h:1190 "tail hh in app order": HASH_SELECT never moves the tail of the
  hash it fills, so a HASH_ADD to that hash would lose the items after the first.
  `SelectedIntact` therefore says nothing of the tail.
- uthash.h:905: chains are bounded, but the buckets are not: they are never given
  back, and colliding keys that come and go can double them again and again
  (bounded by `MaxBuckets` here).

- backend.c:100 "Connections are stored in a hash table.": `dict_new` has no
  `HASH_ADD`; that the dictionary stays empty is part of the proved invariant
  (`DictEmpty`).
- frontend.c:94 "write the message onto the raw socket and free it": with
  `Nonblocking = TRUE`, `bridge_streams` finds `UpLossless` violated; a short
  write loses the rest of the message.
- backend.c:315 "stop wfedd asynchronously", once more: with `StopSpec` in place of
  `StopSpecDaemons`, `ShutdownCompletes` is violated; a daemon that does not accept,
  or does not read while `Nonblocking = FALSE`, holds wfedd in `connect()` or
  `write()`, which `signal()` restarts.
- frontend.c:173 "must be accepted to be adopted": `Establish` adopts a refused
  connection as well; it hangs up at once and `SocketReclaimed` holds.
- socklist.c:132, `return -3` for a string without ':': comes after
  `strchr(NULL + 1, 0)`, see `AddMalformed`.
- README.md:96 "you can't bridge a socket to multiple websockets":
  `socklist_addmap` only compares names, so `NameMap` does not promise it.

## 6. Proofs

`BridgeProofs` (about 1200 obligations), from `ConnAssumption` and
`BridgeAssumption`, for any sets of sessions and descriptors and any bounds:

- `TypeCorrect`: `Spec => []TypeOK`
- `DescriptorsOwned`: `Spec => []FdOwnership`
- `ConnectionsAlive`: `Spec => []ConnAlive`
- `WakeupsKept`: `Spec => []NoLostWakeup`
- `ExitReleases`: `Spec => []AllReleased`
- `HeapAccounted`: `Spec => []HeapAccount`
- `CrashNeedsDaemon`: `Spec => []OnlyDaemonsCrash`

The first five follow from `Invariance`: `Spec => []IInv`. None of the safety
properties is inductive alone. `FdOwnership` breaks if the dictionary closes a
descriptor (`DictEmpty`) or a writeable callback outlives its wsi (`BusyInv`);
`NoLostWakeup` needs that a wsi whose queue is filled exists (`LifeCycle`);
`AllReleased` needs that no wsi is live after the loop (`ExitInv`). `ConnAlive`
and `AllReleased` then follow from `IInv` without a further step.
The step is proved action by action; the two closing paths are lemmas
(`CloseClientInv`, `CloseSessionInv`), as several actions share them.
The last two are a second layer, `FailInv`, inductive where `IInv` holds:
`OrphanInv` says that a raw wsi that has gone before its websocket was made to go
by its daemon, which is what a crash in RECEIVE needs.

`StartupProofs` (about 800 obligations) has two parts. Of `Socklist`, from
`SocklistAssumption` and `EntryAssumption`, for any names, paths and table length:

- `TableTyped`, `TableSorted`: from lemma `Insertion`, which says what the
  downward shift leaves behind;
- `TableImplementsNameMap`: `Spec => ImplementsNameMap`. `AtIndex` (a sorted
  table has one entry per name) turns the CHOOSE of the mapping into an index,
  `InsertionBinds` shows that an insertion adds one binding and moves the
  others unchanged.

Of `Startup`, from its assumptions too: `StartupIsSocklist` (each
step of the composition is a step of `Socklist` or leaves it alone) carries the
theorems above over (`StartupImplementsNameMap`); `DaemonOfItsName` needs that
the table of protocols is that of the final list, and that the two built-in slots
come first.

The second part also proves `StartupTyped` (`StartupTypeOK`), for which the agreement of the
parts has to say that nothing is set up or served before there is a vhost.

`WfeddProofs`, from `WfeddAssumption`, for any port arguments: `ProcessTyped`,
`LaddersMatch` (`CleanExit`) and `PreparedBeforeUse` (`Prepared`). The invariant
says at which steps each block may be on the heap and at which it must (`HeapInv`),
and which result each step finds (`FlowInv`); a ladder is right when the blocks that
may be there at its label, with that result, are those it frees. `Prepared` needs
`Made` (what `main` has made by each of its own steps) and that `bailout` is cleared
only when all of it is there.

`MqProofs` (about 600 obligations), from `MqAssumption` (the blocks are finitely
many, as memory is), for any number of blocks: `PointersTyped` (`TypeOK`),
`NothingDangles` (`NoDangling`) and `QueueIsFifo` (`Spec => ImplementsFifo`). The
pointers determine the queue only together with the fact that a walk from
`stqh_first` ends: the invariant is that there *is* a sequence `q` of distinct
allocated blocks that the pointers run through, with `stqh_last` at the cell of the
last (`Linked(q)`). It is unique, the mapping's recursive walk computes it, an
insertion appends to it and a removal takes its head.

`SeqFacts` holds what those and the next proofs need of sequences, once for any
elements: a principle of induction over the naturals for the set of counterexamples
(from the least element of a set, as the library's induction theorems take an
operator), what a function defined by recursion and `FlattenSeq` are, and how
flattening goes with appending and taking the tail (`GatherAppend`, `GatherTail`).

`BridgeStreamsProofs` (about 2100 obligations), from the assumptions of `Bridge`,
for any sessions, sizes and capacities:

- `UpstreamKept`: `Spec => []UpLossless`
- `DownstreamKept`: `Spec => []DownLossless`
- `BridgeIsDuplex`: `Spec => ImplementsDuplex`

They assume `~AllocFails` and `~Nonblocking`. Both are constants of the model, the
values `bridge_streams` gives them, and what the properties are about: with either
failure the code does lose data (section 5). The invariant, `StreamInv`
(`StreamInvariance`), sits on top of `IInv` and `FailInv`. `Span(x, s, a, b)` says
that `x` is units `a + 1` to `b` of session `s`; `UpInv` that what the daemon has
read, the socket, the `write()` under way and `mqlocal` are adjacent spans that end
at `websent`, `DownInv` the same of the way down. The last two spans on the way up
are given up once the daemon is gone, the last two on the way down with the
browser. `NothingOut` (no rest of a message outside its callback) keeps a rest from
being taken for the next session's, and `LastRead` says that the one `read()` made
with a hang-up empties the socket, if it can. Each action cuts a span from one place
and joins it to the next (`SpanCut`, `SpanJoin`); that a descriptor still is its
session's comes from `FdOwnership` (`OwnPeer`), and `FrameKeepsData` shows that the
`LWS_PRE` stray bytes are all that `lws_write` adds.

The second part of `BridgeStreamsProofs` (about 1100 obligations) drops both
hypotheses: `OrderKept`: `Spec => []InOrder`. A gap leaves numbers that still rise, so the
spans become `Rise(x, s, a, b)`, and the places a `Chain` with four links. Whatever
is read, queued, sent, forgotten by a short `write()`, not queued for want of memory
or thrown away with a dead peer takes the front of one place and joins it to the
next, or loses it (`ChainLast`, `ChainThird`, `ChainSecond`, `ChainLoss`).

`UthashProofs` (about 4800 obligations) on `UthashLists` (about 2000), from
`UthashAssumption` (the items are finitely many, hash values are naturals, ranks
are integers, as a `cmpfcn` has to order the items, the threshold is not 0), for any
items, keys, ranks, hash function and bound:

- `TypeCorrect`: `Spec => []TypeOK`
- `Intactness`: `Spec => []HashIntact`
- `Finding`: `Spec => []FindsAll`
- `ChainLength`: `Spec => []ChainsBounded`
- `Selection`: `Spec => []SelectedIntact`
- `HashIsOrderedDict`: `Spec => ImplementsOrderedDict`

None of the invariants is inductive: what an unlinking does to `prev` and `next` depends on
the whole list the item is in. The invariant `IInv` says that there is an
application order `l` with `Source(src, l)`: `prev` and `next` string its items
(`Strung`), each bucket's chain is strung by `hh_prev` and `hh_next`, an item is in
the bucket of its hash and no other (`Held`), the counts are right, keys are unique,
`tail` is the last item, `noexpand` has been set by two ineffective expansions
(`GivenUp`) and chains are within their limits (`Bounded`). The second hash is `Good`
for an order of its own, of the items up to a rank, and a running loop is at the k-th
item of `l` and its `tmp` at the one after.
`UthashLists` shows what insertion and removal at any place do to a strung list
(`InsStrung`, `DelStrung`) and to the buckets (`ChainIn`, `ChainOut`), that a walk
along a strung list returns it (`WalkAlong`) and, turn by turn, that an expansion puts
every item into its new bucket though it destroys the old chains as it goes
(`RehashAllFacts`). `UthashProofs` has one lemma per operation. For the mergesort,
`Merging` says where the items are in the middle of a merge: those emitted, strung
but for the last one's `next`; what is left of the run at `p`, whose end may lead
anywhere; and the rest of the list at `q`. The turns of a loop are followed with
`LoopRuns` and `LoopKeeps` of `SeqFacts`, as a recursive function is known to exist
only once its values are known to stay in a set.

For the refinement each lemma also says which order an operation leaves: `Ins` or
`Del` at a place, which `InsIs`, `DelIs` and `DictAdds` identify with what
`OrderedDict` does by `Append`, `InsertAt` and `RemoveAt`. A sort is stable because
(`Stable`) of the two runs in a merge each is in order already and all of the first
was ahead of the second at first (`Runs`), so that the `Rank[s.p] > Rank[s.q]` of
`MergeTurn` sends the right one of two items first (`ReadyP`, `ReadyQ`). What is
merged is a run twice as long (`StableEnd`, `PairedOn`), and there are as many passes
as needed for one run only (`Between`). A loop is right as the list from `tmp` on is
the same after the deletion of the item at hand (`NextKept`, `TodoIs`).

**Only model-checked**: the liveness properties (`UpDelivered`, `DownDelivered`,
`SocketReclaimed`, `ShutdownCompletes`, `StopsWhenSeen`), as TLAPS proves nothing
under fairness. Every other property of the runs of section 3 is a theorem.

## 7. Plan

Done, in this order: `Conn` and `Bridge` with their proofs, `BridgeStreams` and
`Duplex`, `Socklist` and `NameMap` with their proofs, `Wfedd`, `Mq`; then
half-close, blocking `connect()`, failing adoption and the heap account in
`Bridge`, the composition `Startup` with its proofs, arguments and options in
`Wfedd` with its proofs, `Uthash` and `OrderedDict`; then the proofs of `Mq`, of the
two streams and of their order under failures, the types of `Startup`, the
invariants of `Uthash`, and that it implements `OrderedDict`; then `Service`, the
window before the poll (`claim_sigint`) and `Prepared`.

## 8. Not modelled

- Parsing of arguments by argtable3 (its result is an input), and what is
  printed; debug macros and build files, which have no state.
- Serving of static files and TLS, inside lws: `frontend_http_callback` only
  calls the lws dummy. How `lws_write` keeps the part of a frame the socket did
  not take; `Choked` shows only that it has one.
- `frontend_wait` and `frontend_inthandler`: dead code under "Remove below".
- `utlist.h`, `utarray.h`, `utstring.h`, `utstack.h`, `utringbuffer.h`: no source
  of wfedd includes them. Of `uthash.h`, the hash functions (any function is
  tried), the Bloom filter, NO_DECLTYPE and HASH_NONFATAL_OOM variants, which are
  not compiled; a failed `malloc` there ends the process.
- Several signals, several vhosts and clients other than browsers are outside
  the program's own configuration.
