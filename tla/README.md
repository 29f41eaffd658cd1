# A TLA+ model of hub4com

hub4com relays data between serial ports, TCP connections and connectors. A
*hub* owns *ports* (plugins), moves *messages* between them along *routes*, and
passes each message through *filters* (plugins) on the way. This directory models
its control: who is connected, who may send, who is told what, and in what order.

    tlc -config tcp_relay.cfg MCTcpHub.tla      # or any other .cfg
    tlapm SerialPortProof.tla                   # or any other ...Proof.tla

There are three models, each of the part of the program whose hazards it shows:

| Model | Modules | Atomicity | Question |
|---|---|---|---|
| TCP ports, listeners and the hub between them | `TcpHub`, `ServerPorts`, `TcpHubServers`, proofs `TcpHubProof`, `TcpHubServersProof`, `TcpHubStackProof`, `TcpHubCountersProof`, `TcpHubConnectProof`, `TcpHubFlowProof` | a step is a part of a handler between two calls out | do the counters, queues and flags survive nested callbacks, late completions and failures? |
| one serial port and its device | `SerialPort`, proofs `SerialPortProof` | the same | does a port that opens and closes on demand lose its handle, its data or its settings? |
| the whole hub, with filters | `FilteredHub`, with `HubConfig`, `HubMessages`, `ConnectFilters`, `LineFilters`, `EscCodec`, `TagCodec`, `TelnetComPort`, `TelnetFilter`, proofs `FiltersProof` | a step is one read of a port, with all that it causes | does what goes in at one end come out at the other, through any filters and however it is cut? |

## 1. The system

### How it runs

One thread does all the work. It sleeps in `SleepEx(INFINITE, TRUE)`
(`hub4com.cpp:687`) and runs one completion routine (APC) at a time, to its end:
an overlapped read or write that has completed, a network event, a timer. A
routine calls `pOnRead`, which calls the `Write` of each destination port, which
may call `pOnRead` again, or a listener, which may accept a connection, which
calls `pOnRead` ... so what looks sequential is a set of deeply nested callbacks in
which a port sees calls while it is in the middle of its own. The only other
threads are the system's wait threads: they lock an event object against deletion
and queue an APC (`tcp/comio.cpp:487`).

Nothing is persisted. A failure is a call that fails, a connection that ends or is
reset, or a read or write that completes late, after its socket was closed.

### Components

| Component | State | Operations | Interaction | What is hard | What makes it correct |
|---|---|---|---|---|---|
| **TCP port** `plugins/tcp/comport.*`, `comio.*` | socket, `isConnected`, `isDisconnected`, one overlapped read, three overlapped writes and a buffer, `writeQueued`, `writeSuspended`, `countXoff`, `connectionCounter`, reconnect timer | `Write` of LINE_DATA, CONNECT, ADD_XOFF_XON; `OnRead`, `OnWrite`, `OnEvent`, `OnConnect`, `OnDisconnect`, `Accept`, the timer's tick | messages to and from the hub; Winsock completions and events | late completions, FD_CLOSE before the last data, failed calls, nested calls | every queued byte is accounted for; flow control protects the queue; counters match the senders; connections end and come again |
| **TCP listener** `plugins/tcp/comport.*` | priority queue of idle ports, the listening socket's backlog | `OnEvent(FD_ACCEPT)`, `OnDisconnect`, `Accept` | called by ports inside their own callbacks | FD_ACCEPT is signalled once; `top()` ... `pop()` around callbacks; ports that stay busy | a port is in the queue exactly when it may accept; no waiting connection is forgotten |
| **Hub** `comhub.*`, `port.*` | ports, two route maps | `OnRead`, `OnFakeRead`, `StartAll` | calls filters and every destination's `Write` | message chains, failures of filters, negotiation of options in rounds | each destination gets each message once, in order |
| **Routes** `route.cpp`, `hub4com.cpp` | multimaps | `AddRoute`, `SetFlowControlRoute` | used by the hub | no-routes and defaults that depend on each other | flow control goes back where data comes from |
| **Filter chain, messages** `filters.*`, `hubmsg.*` | filter instances per port, lists of messages | `InMethod`, `OutMethod`, echo, insert, replace, merge | between ports and hub | an IN method's echo passes the OUT methods of the filters it skips | order and ownership of messages |
| **Timers** `timer.cpp` | one waitable timer each | set, cancel, tick as a fake message | filters and ports own them | a tick that comes after what made it needless | a tick reaches only its owner |
| **Serial port** `plugins/serial` | device handle, open and closing state, overlapped calls, queue as in TCP, pins and options | open, close, start, purge, `Write`, comm events | hub, other users of the device | closing waits for overlapped calls; purge accounting; share mode | a handle is closed once, queue accounted |
| **Connector** `plugins/connector` | counters | forwards LINE_DATA, CONNECT, XOFF | ties two hub ports together | cycles | 0 and non-0 of its counters forwarded once |
| **Telnet** `plugins/telnet` | decoder state, option states, COM-PORT-OPTION state | encode, decode, negotiate, suspend and resume | filter on a TCP port | split reads, negotiation loops, state lost with the connection | negotiation ends; who is suspended is resumed |
| **awakseq, pin2con, linectl** | a matcher, a delayed disconnect, counters | make, delay and drop CONNECT | filters | a CONNECT made twice or lost | destinations see CONNECT(TRUE) and (FALSE) alternate |
| **escparse, escinsert, tag, crypt** | parser states | code a stream | filters | any splitting of the stream | decode inverts encode |
| **pinmap, lsrmap, purge, echo** | last inputs and outputs | map one message to others | filters | initial states | outputs follow inputs from the start |
| **trace** | - | prints what passes | filter | - | not modelled |
| **Main, plugins, utils, parameters** | routes, filters of each port | command line, files, DLLs | before the hub runs | defaults that depend on other options | the configuration that was asked for |

The hazards of this code, each at its line, are in `PROJECT.json`, with the
properties that cover them, or the reason why none does.

## 2. The TCP model: `TcpHub`

`TcpHub` composes the TCP ports, their listeners and the hub's routing in one
module, because they share one call stack. Its parameters are the command line:
any set of ports, servers and clients, listeners, priorities, the signs `*`
(`Permanent`), `!` (`RejectZero`) and `/` (`BusyTill`), reconnect times, routes,
`writeQueueLimit`; and the environment: `Lens`, `MaxRx`, `MaxBacklog`,
`SyscallsFail`, `Resets`.

**The call stack.** `stack` holds what the running routine still has to do. Its
head is the code that runs next. Calling a port or the hub pushes frames; the frame
below it is the rest of the caller. An APC starts only when the stack is empty
(`Quiescent`), so that routines never interleave, but every nested call sees the
half-done state of its callers, as in the code.

| Frame | Code it stands for |
|---|---|
| `deliver` (port, msg, to) | the loop of `ComHub::OnRead`; the destinations `to` are still to be written, in any order (the multimap's order among them is that of configuration) |
| `readEnd`, `readNext` | `ComPort::OnRead` after its `pOnRead` |
| `disconnect`, `disconnected`, `release` | the three parts of `ComPort::OnDisconnect` between its calls to the hub |
| `connect` | `ComPort::OnConnect` |
| `push`, `listen` | `Listener::OnDisconnect` and its loop |
| `accept`, `pop` | `ComPort::Accept` and the `ports.pop()` after it; `ports` remembers the queue that `top()` saw |

**State.** The fields keep their names. `hSock` is `"none"`, `"connecting"` or
`"up"`; `reading` is `countReadOverlapped` (never above 1: `StartRead` returns
early); `writing[p][i]` is the length that WriteOverlapped `i` is sending, 0 when it
is in `writeOverlappedBuf`; data are lengths, since no property is about bytes.
`idle[l]` is a listener's `priority_queue` as a set, with `Top` for what `top()`
may return among equals. `peer`, `shut`, `rx`, `watch`, `backlog` and `fdAccept` are
the system's side: what the peer did, whether we shut our side down, unread bytes,
whether a WaitEventOverlapped exists, connections waiting, FD_ACCEPT signalled.

**Actions.** One per handler, or per part of a handler between two calls out:
`HubWrite` (the five cases of `ComPort::Write`), `ReadDone`/`ReadEnd`/`ReadNext`,
`WriteDone`, `DisconnectClose`/`DisconnectReport`/`DisconnectRelease`,
`ListenerPush`/`ListenerLoop`/`ListenerEvent`/`AcceptCall`/`ListenerPop`,
`OnConnect`, `Connected`/`ConnectFailed`/`Closed` (the wait events), `Tick`
(`FakeReadFilter`). The environment is `PeerAccepts`, `PeerSends`, `PeerCloses`,
`ConnectionArrives`, `ConnectionGivesUp`.

**What the system may do.** With `SyscallsFail`, any `Socket`, `connect`,
`ReadFileEx`, `WriteFileEx` or `WSAEventSelect` may fail at once; without it they
fail only where they must (no socket, not connected, after `shutdown(SD_SEND)`) or
may (after a reset). A read ends with 0 bytes on a closed or reset connection. A
write may complete at any time, also long after its socket was closed. After a
deferred accept the system may or may not signal FD_ACCEPT again.

**Faults.** An operator whose comment starts with "Fault" is not part of the
model. It is a likely mistake in the operator after it; substituting it makes TLC
refute the property listed with it in `PROJECT.json`, which shows that the property
depends on the code and not on the shape of the model.

**Abstracted.** Bytes, names, log output, `writeLost` (a statistic that nothing
reads), memory exhaustion, SET_OUT_OPTS (a warning), and filters: messages go from
port to port unchanged.

### What the listeners promise: `ServerPorts`

`ServerPorts` is the abstract specification of the server side: a port is idle,
taken or busy; connections wait; an idle port takes one waiting connection, has it
until it ends, and is busy until it is idle again. There is no queue, no FD_ACCEPT
and no call stack in it. Its fairness promises that what waits is served (taken,
rejected or given up) while a port of the listener is idle.

`TcpHubServers` maps `TcpHub` to it: a port with a socket is taken; without one it is
idle when it is in the listener's queue and busy otherwise (while its frames are
still on the stack, or while a `/` port waits for its counter); the waiting
connections are the backlog. `AcceptCall` is `Take` (or `Lose`, when the port rejects
or the call fails), `DisconnectClose` is `Disconnect`,
`ListenerPush` is `Return`; every other step is invisible or the network's.
`ServesSafely` is the implementation of its safety part, `Serves` of all of it.

### Its runs

All use `MCTcpHub`. Sizes are chosen so that what the properties are about happens:
`Limit = 2` with messages of 1 byte makes the XOFF mark 1 and the XON mark 0, so
that three overlapped writes and the buffer cross both; `Limit = 1` without flow
control overruns. Two ports are enough for what a port does with a peer; three are
needed for a listener with priorities. `MaxRx = 1` bounds the bytes in flight
and `MaxBacklog` the waiting connections; all else is bounded by the code. In
`tcp_listener` no bytes are sent (`MaxRx = 0`), since ports with `Limit = 0` discard
them.

| Run | Instance | Checks |
|---|---|---|
| `tcp_relay` | server and client, routes both ways, calls fail, resets; 280 000 states | `TypeOK`, `XoffMatches`, `NoOverrun` |
| `tcp_overrun` | server to a permanent client, no flow control route (what `SetFlowControlRoute` makes of a one-way data route), timer reconnects, calls fail, resets; 310 000 states | `QueueAccounted`, `BufferedOnlyWhenBusy`, `QueueBounded`, `NothingKeptForNext`, `ConnectsOnce` |
| `tcp_listener` | three servers on one listener, priorities 1, 0, -1, one with `!`, one with `/`, all routed to all, `Limit = 0` (data off), two waiting connections, fairness; 14 000 states | `CounterMatches`, `QueueExact`, `NoLostAccept`, `PopsTheAccepted`, `BusyOnlyWhileCounted`, `Serves` |
| `tcp_progress` | a permanent client and one that is connected while the first is, fairness, no resets; 51 000 states | `ReadsWhenAllowed`, `KeepsTrying`, `Resumes`, `Closes`, `Reconnects` |
| `tcp_reset` | the same with resets | refutes `Reconnects` |
| `tcp_unneeded` | server and client | refutes `UnneededIsClosing` |
| `tcp_priority` | three servers on one listener | refutes `UsesHighestPriority` |

**What the passing runs show.** The queue and both counters are right at every
step of every nested callback, through overruns, failed writes, completions after a
close and reconnects. `ConnectsOnce` is checked where FD_CLOSE comes before the last data and
the reconnect timer ticks late: without the reset of `isDisconnected` in `OnRead`, or the test
of `hSock` in `StartConnect`, TLC refutes it. `NoOverrun` needs the flow control routes: it holds with one
source per port, whose outstanding read fits between the mark and the limit. The
listener's `top()`/`pop()` around callbacks is safe only because no CONNECT(TRUE)
releases a port (`PopsTheAccepted` and its fault show the dependency).

**What the failing runs show** (findings of `PROJECT.json`):

* `tcp_reset`. FD_CLOSE leaves the disconnect to the end of an outstanding read. If
  that read returns data or the port is stopped, and the next `StartRead` fails
  because the connection was reset, nothing calls `OnDisconnect` any more. A
  permanent client stays dead. `Closes` fails in the same way.
* `tcp_unneeded`. CONNECT(FALSE) while the client is still connecting has no effect
  on the connection that comes afterwards.
* `tcp_priority`. The disconnect is reported before the port is back in the queue, so
  that a `/` port of lower priority may take the waiting connection.

**Fairness** (`FairSpec`). `WF(Run)`: a routine that runs runs to its end. Strong
fairness for each port's read, write and socket events and for each listener's
event: the thread returns to its alertable wait after each routine, and the system
queues an APC for each completion, so none is passed over for ever; strong, since
the running of other routines disables them all in between. A connect ends, and a
peer whose connection we shut down closes its side: without that a peer may keep
us connected for ever, and no code could do anything about it. Nothing is assumed
about a peer that sends, connects or closes on its own.

`KeepsTrying` and the progress properties are not checked with `SyscallsFail`: a
`StartConnect` that fails at once is never retried (see the hazards).

## 3. The serial model: `SerialPort`

One port with its `ComIo` and its device, and a hub that may call `Write` with
anything, also from inside `pOnRead` (`MaxNesting`). The stack is the one of `TcpHub`:
`update`, `start`, `onWrite`, `onRead`, `onCommEvent` are what is left of the routine
of that name, `report` and `status` are messages that it has still to send, `hub` is a
call of `pOnRead`.

**State.** `handle`, `handleClosing`, `notifyOnFree` and `started`
(`countStartedOverlaps`) are `ComIo`'s; `baud`, `lc`, `pinStateValue` and
`pinStateMask` are the settings that it keeps over a close. The fields of `ComPort` keep
their names. `dev` is the device: its settings, the pins it drives, the modem line it
sees. `told` is the last that `pOnRead` was told of each kind (of the LINE_DATA that the escape
mode sends at the start only that it is sent), `phase` how far the
hub's start is, and `readFailed`, `gaveUp` and `unchecked` remember
failures that the code only logs, so that properties can except them.

**Actions.** `WriteData`, `WriteConnect`, `WritePins`, `WriteBaud`, `WriteLc`,
`WritePurge`, `WriteXoffXon`, `WriteOutOpts` (the cases of `ComPort::Write`),
`GetInOpts` (`FakeReadFilter`), `FirstStart` (`Start(TRUE)`); `Update`, `Restart`
(`Start(FALSE)`), `Report`, `Status`, `OnWrite`, `OnRead`, `OnCommEvent`; the three
completions, each with what `ComIo::Close` does at the last one of a handle that is
closing; `ModemChanges`. When the device is opened again another program may have left
it with any settings (`Found`).

**Bounds.** `MaxCounter`, `MaxXoff` and `MaxNesting` are 1, messages have two bytes, all
or none of them XON/XOFF, and `Limit = 2` puts the marks at 1 and 0: three
overlapped writes and one buffered message fill the queue, and a second one overruns it.
One CONNECT is enough, since only 0 and more than 0 differ; a port that is wanted again
while it closes needs no second.

| Run | Checks |
|---|---|
| `serial_share`: share mode, --ix=on, `SyscallsFail`, a device that refuses settings | `TypeOK`, `OverlapsCounted`, `QueueAccounting`, `QueueBounded`, `XoffMatches`, `ConnectMatchesHandle`, `WantedIsOpening`, `ReadsWhenAllowed`, `ModemStatusKnown`, `DeviceFollows`, `NoSilentOption` |
| `serial_stranded`: no failing calls | refutes `NothingStranded` |

`serial_share` shows that a handle is freed exactly when its last call is over and then
opened again if it was wanted; that a purge, which drops the buffer and lets aborted
writes complete later, keeps the account; that the device follows the settings made
while it was closed, and the hub the device, but for the older remote setting of section 5; and that no input option that a filter asked for is lost between
the escape mode, the port and FAIL_IN_OPTS.

`serial_stranded` refutes the assertion at `serial/comport.cpp:863`: data written while
the old handle closes stay in `pWriteBuf` when the port opens again with all
overlapped writes free, until other data are written, which then overtake them.

`XoffMatches` excepts `unchecked`: with --ix=on, `Write` returns at `comport.cpp:868`
before `FlowControlUpdate` when it has purged the queue and nothing is left of its own
data, so that the sources stay stopped until the next write.

## 4. The filter model: `FilteredHub`

Here the data are bytes and the messages are those of the program. A configuration
(`Cases`) is what `HubConfig!InitHub` makes of the options of a command line: the
drivers of the ports, the filter instances of each, the routes and the connections
between connectors. So the routes that are checked are the ones that `AddRoute` and
`SetFlowControlRoute` make.

**The world** `w` is what the program keeps: the state of every filter instance, what
every port was told, and the words that the pointers in negotiation messages point to.
`OnRead` takes a world to the next, as `ComHub::OnRead` does: IN methods, the echo back
through the OUT methods of the filters before, a copy along each route through the OUT
methods of the destination, and then the destination's `Write`, which for a connector
calls `OnRead` again. The modules of the filters have, for each plugin, what `Create`
and `CreateInstance` make and its IN and OUT methods as functions of the filter, its
state and the message.

| Module | Plugins and files |
|---|---|
| `HubMessages` | `hubmsg.cpp`, the message routines of `export.cpp`, `plugins_api.h` |
| `ConnectFilters` | awakseq, pin2con |
| `LineFilters` | linectl, lsrmap, purge, pinmap, echo |
| `EscCodec` | escparse, escinsert |
| `TagCodec` | tag, tag-sync, crypt |
| `TelnetComPort`, `TelnetFilter` | telnet: `opt_comport.cpp`; `telnet.cpp`, `opt_termtype.cpp`, `filter.cpp` |
| `HubConfig` | `route.cpp`, `filters.cpp`, the options of `hub4com.cpp`, the connector's parameters |

**One action, one read.** Nothing interleaves with a read, so it is one action; the
nested callbacks that matter inside one are those of `TcpHub` and `SerialPort`. The
start of the hub is a list of calls (`todo`): those of `StartAll`, as often as
`COUNT_REPEATS` says, and then the parts of each serial port's `Start`, for a driver
that may have no escape mode or refuse some of it. The negotiated escape mode decides
what the driver puts into the data. After that the environment sends bytes (`Send`,
`ReadData` in pieces of any size of `chunks`), changes the line (`LineChange`),
connects and breaks (`Establish`, `OnConnect`, `Break`, `OnDisconnect`: each end of a
link learns of it by itself, in any order), lets timers tick (`TimerTick`),
fills and drains a port's queue (`FlowControl`), and loses a byte of a trunk line
(`LoseByte`).

**Here the drivers are simple.** Ports accept all data at once; XOFF stops a port's
reads. What the drivers do beyond that is in the other two models; the serial
driver's reports of a changed rate or line control are here, since they send messages
back.

**Bounds.** `fuel` bounds the changes of line, connection and flow of each
configuration, and the streams are finite; everything that the program does in answer
is unbounded. Four changes are a connection, a change of the line, a break and another
connection. Streams hold the bytes that matter: the escape character, IAC, CR, tags and
the sync byte.

### Its runs

`hub_filters` (`MCFilteredHub`), eight configurations:

| Configuration | Of | What happens |
|---|---|---|
| `EscBreaks`, `EscRefused`, `EscData` | `examples/com2tcp-esc.bat` at both ends of a connection, with crypt | the connection breaks and comes again while the line changes; the driver has no escape mode or refuses some; data with the escape character |
| `MuxCase`, `LossCase` | the multiplexer of the tag filter's help, its trunk looped back | two channels whose data are tags and sync bytes; the trunk loses a byte |
| `FanCase` | a connector to two others, with an echo | two destinations stop and resume |
| `PinCase` | `examples/com2tcp.bat` with a delay | the pin comes and goes while the timer runs and the connection breaks |
| `AwakCase` | the help of awakseq | the sequence, also split over reads |

* `Mirrored`: when all that was sent has been read, the far port's pins, break, rate and
  line control are those of the near line, and the near port is stopped exactly while
  the far one is.
* `Negotiated`: after the start, decoder and driver agree on the escape mode, and no
  status comes both ways.
* `StreamsKept`: the bytes that come out are a prefix of those that went in, and all of
  them in the end.
* `InPhase`: sender and receiver of a tagged stream agree on what is a tag, again so
  after a sync byte when one byte was lost.
* `StoppedWhileNeeded`: a port is stopped exactly while one that it leads to wants it.
* `PinFollowed`: the wanted connection is that of the pin, with its return before the
  delay is over.

`hub_awak` refutes `DisconnectsOnDsrOff`: pin2con and awakseq on one port, as in the
help of awakseq. When the connection ends by itself, the sequence is waited for again;
found, it adds a second CONNECT(TRUE), and DSR OFF takes away only one.

`telnet` (`MCTelnet`) has `examples/com2tcp-rfc2217.bat` at both ends
(`TelnetBreaks`, `TelnetDataCase`, `TelnetCuts`), a server with a client that asks for
all it can (`ServerPeer`), and a client with a server that refuses the Com Port option,
suspends and resumes it (`ClientPeer`). `Mirrored` and `StreamsKept` hold through
encoder, decoder and the Com Port option both ways. `Settles` is the liveness: in the
end everything is read, both ends agree on every option, every request is answered,
and no setting goes round between the two serial ports.

**Fairness** (`FairSpec`). The main thread serves what waits for it: the start goes on,
queued reads, connects and disconnects are handled, and a queue that is full drains.
Sending, line changes, keep-alive ticks and breaks are the environment's, with no
fairness. `FairSpec` is weak fairness of `<<Serves>>_vars` with its ENABLED replaced by
`CanServe`, which is the same in words of the state: TLC would otherwise compute every
successor of a state, with all its filters, once more to find out whether one exists.

## 5. Proofs

Every invariant that the runs check of `TcpHub` and of `SerialPort` is proved, and that
`TcpHub` implements the safety part of `ServerPorts`: for any ports, listeners, routes,
options, limits, message sizes and bounds that the assumptions allow. Of the filters it is
proved what their calls keep true, and what two of them make of each other. The theorems
and their properties are in `PROJECT.json`; here is the argument of each.

### Assumptions

| Assumption | Says | Because |
|---|---|---|
| `PortsAssumption`, `RoutesAssumption`, `BoundsAssumption` | the constants have their types; a message has at least one byte | they are the command line |
| `FiniteAssumption` | there are finitely many ports | the hub keeps them in a vector; the counters are cardinalities |
| `LensAssumption` | a read returns no more than some number of bytes | `readBufSize`; without it no queue is bounded |
| `SerialAssumption` | the constants of `SerialPort` have their types; some rate and some line control exist | they are the command line and the device |

Three theorems have a hypothesis besides. `TriesAgain` and `ReadsGoOn` assume
`~SyscallsFail`: what they say is false when `connect` or `ReadFileEx` fails at once, and
the code has no answer to that (see the hazards). `NothingOverrun` assumes `OneSource`:
flow control goes back the way the data come, and no port gets data from two others.
With two sources each may have a read in progress, and their data together pass the limit.

### The TCP ports

Each module extends the one before:

* **`TcpHubProof`: the queue.** `WriteInvariant` is the invariance of
  `FieldsOK /\ QueueAccounted /\ NothingKeptForNext /\ BufferedOnlyWhenBusy`.
  `QueueAccounted` needs the types only. `BufferedOnlyWhenBusy` is not inductive alone:
  `OnWrite` gives its WriteOverlapped back and leaves the buffer when there is no socket,
  and `OnConnect` makes the connection usable later, so that a port without a socket has
  to have an empty buffer, and `OnConnect` to empty it when it can. The exception for
  `Closing` is the state between the mark of a deferred disconnect and the close, in one call.
* **`TcpHubServersProof`: the listeners.** `QueueExact` speaks of the moments when no
  routine runs. So `ServerInv` says where a port is *while* routines run: it is in the
  queue, or exactly one frame of the stack brings it back (`AwayOK`, `StackOK`), or it is
  marked busy. That `pop()` removes the right port needs the shape of the stack: above a
  `pop` there are only `OnConnect` and deliveries of CONNECT(TRUE), XOFF and XON, none of
  which reaches a listener (`PopOK`). A disconnect starts only on a socket that is there
  and not already marked (`CallsOK`, `SocketOK`), so that a port is never on its way back
  twice. `Invisible` covers the steps that only push such calls; each remaining action
  has a lemma that keeps `ServerInv` and names the step of `ServerPorts` that it is.
* **`TcpHubStackProof`: who calls whom.** `Above(x, f)` says which frame may run above
  which, and `Shaped(stack)` that all do. It has a lemma per action: the new stack is
  shaped, and what is *owed* (`Owed`: messages not delivered, ends of reads and
  connections not reached) changed in this way. All that follows speaks of what is owed,
  as a set, and never of positions in the stack.
* **`TcpHubCountersProof`: the counters.** A counter is not the number of connected
  ports: in the middle of a delivery some of its destinations know, and some do not.
  `Counts` says that it is the number of ports of which it *was told*, `ReportOK` and
  `FlowOK` that what is still being told is so, and `ConnOK` that only OnDisconnect stands
  between the closing of a socket and its CONNECT(FALSE). `ChangeTold` is the step that
  begins a delivery, `WriteCounts` the one that makes it, and everything else leaves both
  alone. That a port has at most one report and one signal on its way is the shape of the
  stack. The types of the counters (`TypesHold`) follow: a cardinality is not negative.
* **`TcpHubConnectProof`: connections come again.** `BusyOK`: a port kept busy is a
  counted server. `AcceptOK`: while connections wait and a port is idle, FD_ACCEPT is
  signalled or the listener's loop runs. `RetryOK`: a client that should be connected has
  a socket or a timer, or OnDisconnect has still to decide.
* **`TcpHubFlowProof`: flow control.** `QueueBounded` with its factor 4 is not inductive:
  it says nothing of what a new message finds. `Fits` bounds every overlapped write, every
  two of them, and all of them, and the buffer by a message unless the whole queue is
  near the limit. `NoOverrun` needs that flow control is in time: `MarkOK` (a port that
  is not suspended is below its upper mark), `DataStopOK` (data are on their way only from
  the read that runs, to ports that have stopped nobody) and `ReadsOK` (a port that was
  stopped reads no more, once that read has ended).
  Its last part is that reads go on, with `GoesOK`, `LiveOK` and `EndsOK`: a connected port
  that nobody has stopped reads unless its OnDisconnect is at work, a port that reads has a
  live connection or is in its `OnRead`, and a routine that ends a connection whose read is
  in progress is that read's own.

### The serial port

`SerialPortProof` proves the eleven invariants of `serial_share`. Its first part is the
types with the shape of the stack (`FieldTypes`): `update`, `start` and the report of a
change are *prompt*, they run before anything else can be called, so they are only at the
head; the end of a completion routine is only at the bottom. `Left(stack)` is what is left
to do, without the hub's calls, and a lemma per action says what it becomes. Then:

* `QueueAccounting` and `QueueBounded` need the types and `DataMoves`, which is what a
  `Write` does to the queue, in short; `XoffOK` says between which marks the queue is
  while `FlowControlUpdate` is still to come.
* `OverlapOK`: `started` counts the calls in flight, and a call whose completion routine
  runs is still one until the routine starts it again or gives it back (`CallsFlying`
  counts bits, one for each slot, the read and the wait). `CloseOK`: a closed handle waits
  to be freed exactly while there are any. `HandleOK` relates the handle to the updates
  and starts on the stack.
* `ConnectOK`, `WantedOK`, `ReadOK` and `WaitOK` are the properties without `Quiescent`:
  each holds all the time, or the frame that makes it hold is on the stack.
* `OptionsOK`: the filters ask before the port starts, and `Start(TRUE)` accounts for
  each option.
* `ModemOK`: the hub knows the status, or a report is on the stack, or an event has fired,
  or the callback of one runs that has missed a change.
* `DeviceOK`, `AgreeOK`, `KnownOK`: an open device has the port's settings; a change that
  is still to be reported is of the setting as it is, since no other call comes in between
  (`WatchedRuns`); and the hub knows a setting, or a report of it is left to do.

The last of these failed at first, and rightly. A port that is asked for the local and the
remote setting reports a change twice (`comport.cpp:938-953`). If the hub sets another
rate while it is told the local one, the inner call reports the newer rate both ways, and
then the outer call reports the older one as the remote setting. `DeviceFollows` therefore
says nothing of a remote setting that is asked for together with the local one.

### The filters

A filter has no steps of its own: it is a state and two functions, `InMethod` and
`OutMethod`. So `FiltersProof` has no temporal theorem. Each of its theorems speaks of one
call (or of a sequence of calls, one after the other), for any configuration of the filter,
any state that its invariant allows and any message, and says that the invariant holds
again after it. The runs check the same filters inside the hub, on the configurations of
section 4.

* **pin2con** (`PinConnects`). `Pin2ConOK`: a timer runs exactly while the connection
  outlives its pin. It makes the CONNECTs that leave the filter the changes of `connect`,
  so that they alternate.
* **awakseq** (`AwakSeqConnects`). `connectSent` is what the last CONNECT that left the
  filter said; this needs that the CONNECT(FALSE) in front of the data and the
  CONNECT(TRUE) behind the sequence are never made by one call. Nothing is assumed of the
  CONNECTs that come in: with several sources there are several in a row. `hub_awak` shows
  that this is not enough on a port that also has pin2con.
* **pinmap** (`PinsStart`, `PinsFollow`). `PinMapOK`: each output is that of its input;
  `PortFollows`: so is the port's pin. `PinsStart` makes both true of anything, since
  SET_OUT_OPTS sets every output, and `PinsFollow` keeps them: a SET_PIN_STATE of another
  filter loses the pins that are mapped. Assumed is that no output is given twice, which
  `Filter::Parse` refuses ("Duplicated option"): with two inputs for one output neither
  theorem holds.
* **telnet** (`OptionsAgree`). For an option, the end that asks (DO, DONT) and the end that
  offers (WILL, WONT) follow the same rule, `Turns` and `Reply`, each in one table of its
  own. `Bargain` says which words may be on their way with which states; its states are
  numbered by `Left`, the words that are still to be heard, at most three. Every word that
  is heard makes it smaller, so that a negotiation ends, and with nothing on its way both
  tables say the same. An engine is assumed with an empty output, as it is between calls.
* **escparse and escinsert** (`SequencesEnd`, `CharacterRead`, `RateRead`). `ParserOK` says
  how many bytes of a sequence were read and that they fit into `data`; `ToCome` counts the
  rest. `RateRead` takes the parser through the six bytes that `InsertRBR` writes, one call
  of `ConvertByte` for each, and `CharacterRead` through a byte of the data: two for the
  escape character, one for any other.
* **crypt** (`CryptStreams`). `InStep`: both ends have read the same of the key stream. A
  byte is decrypted by its place alone (`PieceDecrypted`), and two messages are encrypted
  as one would be (`WritesJoined`), so that it does not matter where the stream is cut. Of
  the key stream it is used only that it is one of bytes, determined by the secret and the
  place; no induction is needed, since the model says of each place what becomes of it.

These proofs found that arms of some CASE expressions overlapped: TLA+ leaves open which
of two true arms is taken, TLC takes the first, and a proof can use neither. The arms of
`ConvertEscaped` exclude each other now, and in `TelnetComPort` and in the choice of a
method in `FilteredHub` an IF comes first.

### What is only model-checked

* Liveness: `Resumes`, `Closes`, `Reconnects`, `Settles` and the fairness of `Serves`. It
  rests on fairness and ENABLED, which the prover does not do.
* `FilteredHub` with all filters: `OnRead` is RECURSIVE, since connectors call it from
  inside. Its invariants are also of the configurations that are checked, and not of every
  one.
* Whole streams of escparse, tag and telnet: that a decoder undoes an encoder for every
  text, however it is cut (`StreamsKept`, `InPhase`), is an induction over the text, and
  these filters read it with folds. Sequences and words of a bounded length are proved,
  byte by byte, as above; of crypt the stream itself is.
* Numbers made of bits (`ByteOf`, `NamesOf`), for which the provers have no theory: that the
  modem status comes out of its byte again is in `Mirrored`.

## 6. Not modelled

* **Two threads.** The locks of `SafeDelete` (`tcp/comio.h:118`) are a plain `int` that
  the wait thread and the main thread change. All models have one thread.
* **The trace filter**, which prints, and the statistics of lost data, which nothing
  reads (`LostReport`, `writeLost`).
* **Parameters**: texts of numbers, ports and lists; files of options; loading of DLLs.
  Wrong parameters end the program.
* **Running out of memory**, which the code handles by dropping messages.
* **Telnet option 255**, for which `options` has no entry (`telnet.h:97`).
* **The cipher** of crypt: a key stream that the key and the place determine.
* **Three TCP ports with queues**, all routed to all: beyond TLC. No cycle of ports that
  wait for each other is lost by that: an XOFF stops only reads, and a queue drains by the
  writes of its own port alone.

### Met on the way

Differences between the code and what one may expect that no run states:

* `FAIL_IN_OPTS` is tested by its `u.val` where the options are in `u.pv.val`, so that the
  warnings of filters whose options failed are never printed. No state depends on it.
* `name.IN` and `name.OUT` in --add-filters are separate instances with separate states:
  crypt.OUT alone never sees the CONNECT that gives it a key.
* The connector does not pass LOOP_TEST on through its connections in `Write`: it marks
  the message and compares it, so that only direct cycles are found.
* hub4com's client never sends SET-LINESTATE-MASK, so that line errors never pass
  between two hubs by telnet.
* A Com Port server answers only when its port reports a changed setting: a refused or
  unchanged one stays unanswered, and two SET-BAUDRATE decoded in one read get one answer,
  with the first rate.
* A peer that suspends the port and then loses the connection leaves the sources stopped:
  the engine that would resume them is deleted (`opt_comport.cpp:194`).
* An escape sequence begun on one connection swallows the first bytes of the next
  (`torn` in `Mirrored`).

## 7. Plan

All components that keep state are modelled, the invariants of the ports are proved, and
so are the rules of the filters that one call decides. What could follow:

1. `LineFilters` and `TagCodec`: the counters of linectl, and that the tag decoder keeps the
   tag it reads for, call by call. What a whole message becomes is a fold over its bytes.
2. `FilteredHub` without connectors, whose `OnRead` needs no recursion: the routes and the
   order of the filters as a theorem about any configuration.
3. Two threads for `SafeDelete`, once it is known which writes of an `int` the
   compiler keeps.
