# A verification of libiridium

TLA+ models of libiridium, a C++ library that exchanges short burst data with
Iridium satellites: over TCP with the Iridium gateway (DirectIP), and over a
serial line with an Iridium modem. This directory holds the models, the TLC
configurations that check them, and proofs for the TLA+ proof system.

## The system

| Component | State | Operations | Interacts with |
|---|---|---|---|
| `JobUnitQueue` (`include/iridium/JobUnitQueue.hpp`) | a list, a mutex, a condition variable | `put`, `get`, `unget`, `wait_for`, `notify_one`, `clear` | one consumer, any producer |
| `SbdTransmitter` (`src/SbdTransmitter.cpp`) | a queue of messages, the states `m_prevState`/`m_state` of a session, the message in transit, a socket, a resolver, a back-off timer, a thread | `start`, `stop`, `post`, `dropMessages`; the worker thread; a completion handler for each asynchronous operation | takes messages from its queue; the gateway; reports to the client by signals |
| `SbdReceiver` (`src/SbdReceiver.cpp`) | an acceptor, a socket for the next connection, the sentinel that keeps the io_service running | `start`, `stop`, the accept handler | creates one `IncomingSbdSession` per connection |
| `IncomingSbdSession` (`src/IncomingSbdSession.cpp`) | a stream buffer, the announced length | `run`, the read handler | `Codec`; reports through a weak pointer to its receiver |
| `Codec`, `Message`, information elements (`src/Codec.cpp`, `src/Message.cpp`, `src/IE*.cpp`) | none: values, and the position of a reader in a message | `factory`, `messageCategory`, `parse`, `serialize`; `packInto`/`unpack` of each element | used by both ends of DirectIP |
| `Modem` (`src/Modem.cpp`) | a serial port, a mutex and a condition variable, a timer | `Open`, `Close`, one method per AT command, a read with a timeout | the device; its client's threads |
| `LockFile` (`examples/modem/*/LockFile.cpp`) | a file; whether this object created it | `present`, `create`, destructor | the modem programs, through the file |
| Modem programs (`examples/modem/`) | `shutdown`, a timer, a set of signals, the modem | `main`, the handlers of the timer and of signals, `worker`, `loop` | `LockFile`, `Modem` |
| DirectIP programs (`examples/directip/`) | the transmitter or the receiver, options | posting, starting and stopping; printing | the library |

### Behaviours that are hard, and what makes each component right

* **Transmitter.** Three threads - the client, the worker, and the one that
  runs the io_service - share its fields without a lock. A message leaves the
  queue in one handler and is confirmed, or returned, in another. Sessions fail
  at any step and are retried after a back-off; the client posts, drops, stops
  and restarts at any moment. It is right if every posted message is in exactly
  one place and in posting order, if a session always has one and only one
  thing that moves it on, if messages are delivered at last, and if `stop()`
  returns.
* **Queue.** `wait_for` reports whether it timed out, not whether there is a
  job; `get` on an empty list makes a job up. Notification and wakeup race.
* **Receiver.** `stop()` races with an accepted connection; sessions outlive
  the receiver. A message must be framed alike however its bytes are cut up,
  with one outcome for every session.
* **Modem.** The wait for a reply gives up the mutex that should keep the
  commands apart; replies come late, after the read was given up.
* **Codec.** What is packed must be unpacked to the same value, and unpacking
  must consume what was packed. `messageCategory()` and `parse()` step through
  the same bytes by different reckonings, and each relies on the other.
* **Modem programs.** They look for the lock file and create it in two steps;
  one that is killed leaves it behind; a signal may come while the program waits
  for the file, while it waits for its timer, or when the timer has expired.

`PROJECT.json` lists the hazards with their lines under "hazards".

## Modules

| Module | What it is |
|---|---|
| `JobUnitQueue` | the queue: every method is one action, `wait_for` is three (`HasJobs`, `Block`, `LeaveWait`) |
| `SbdTransmitter` | the transmitter with its three threads; uses `JobUnitQueue` as `m_messageQueue` |
| `MtOutbox` | abstract: what a client is promised, an outbox delivered in posting order |
| `MCSbdTransmitter` | the instance that TLC checks; the `tx_*.cfg` files give it its constants |
| `SbdTransmitter_proofs` | type correctness of `SbdTransmitter` under every interleaving |
| `SbdSession_proofs` | the inductive invariant of a session, that the transmitter is an outbox, and what each `stop()` costs |
| `IncomingSbdSession` | the sessions that receive a message, one for each connection |
| `SbdReceiver` | the receiver with its sessions: extends `IncomingSbdSession` by the acceptor |
| `MoInbox` | abstract: the stream of each connection has one answer, whatever the chunks |
| `MCIncomingSbdSession`, `MCSbdReceiver` | the instances that TLC checks, with the streams that peers may send; `rx_*.cfg` |
| `IncomingSbdSession_proofs` | the invariant of a session, that it waits for nothing beyond its message, and that sessions are an inbox |
| `Modem` | the modem's commands over a serial port, with the callers' threads and those that run the reads |
| `MCModem` | the instance that TLC checks; `modem_*.cfg` |
| `Modem_proofs` | with one caller, reads clean up behind themselves and the port is closed only at rest |
| `ModemAnswers_proofs` | with one caller, how far the answers that commands get lag behind |
| `SbdReceiver_proofs` | the invariants of the accept loop, and that the receiver is an inbox too |
| `InformationElement` | the information elements, and how each is packed and unpacked: pure definitions |
| `Codec` | a message is packed, or comes from elsewhere, is classified and parsed; uses `InformationElement` |
| `MCCodec` | the messages that TLC checks; `codec_*.cfg` |
| `Codec_proofs` | that `parse()` follows `messageCategory()`, how far it reads beyond a message, and that what was packed is unpacked and understood, whatever its elements |
| `LockFile` | the lock file, and what each program knows of it |
| `ModemPrograms` | the programs that share a modem: extends `LockFile` |
| `MCModemPrograms` | one program of each kind; `modem_programs.cfg` |
| `ModemPrograms_proofs` | that the lock file has one owner, however many programs there are |

A definition called a *faulty variant* stands before the definition that it
varies; it is a plausible mistake, used to see that the properties notice it,
and takes no part in the specification.

### SbdTransmitter

*State.* The fields of the class, under their names. Messages are the numbers
`1 .. MaxPosts` in posting order, 0 is a default-constructed message. `m_buf` is
`NoBuf` (a null pointer) or the number of units in the stream buffer, where a
confirmation is `ConfirmationSize` units; a surplus of any length counts as one
unit. `m_running` is whether the worker thread was started and has not ended.
`ops[k]` is the number of asynchronous operations of kind `k` under way and
`ready` the queue of handlers of ended operations. `pc` and `target` say where
the worker and the io thread stand; `client` where the client stands in
`post()` or `stop()`. `confirmed` and `dropped` record what left the outbox.

*Steps.* One step is one access to shared fields that another thread can
separate from the next. A handler makes its checks in one step, in which the
outcome of its operation is chosen; then there is the step `Assign`
(`m_prevState = m_state; m_state = s`) and one step for the case of
`StateMachine()` that it calls (two for `eNotConnected`, which a worker that has
seen the new state can overtake). The signals are emitted between the checks and
the assignment, so the client's calls interleave at those points too.

| Code | Actions |
|---|---|
| `start`, `dropMessages` | `start`, `dropMessages` |
| `stop` | `stop`, `StopCancelsTimer`, `StopCancelsSocket`, `StopJoins` |
| `post` | `post`, `PostNotifies` |
| `worker` | `WorkerBegins`, `MessageFound`, `WorkerBlocks`, `WorkerWakes`, `WaitTimesOut`, `WorkerExits` |
| `StateMachine`, by case | `NotConnected` and `Reset`, `Resolving`, `Connecting`, `Sending`, `ReceivingHeader`, `ReceivingConfirmation`, `ConfirmationRefused` and `ConfirmationParsed`, `Failing`, `Succeeding` |
| handlers | `StaleCompletion`, `OperationFailed`, `Resolved`, `Connected`, `Written`, `HeaderReceived`, `ConfirmationReceived`, `DelayExpired` |
| a null `m_buf` dereferenced | `NullBuffer`, after which nothing happens |

*boost::asio*, which is not part of the repository, is modelled by what the code
relies on: handlers run one at a time, in the order in which their operations
ended; cancelling or closing aborts the operations that have not ended, whose
handlers return at once, and has no effect on handlers already queued;
`async_connect` over several endpoints closes the socket first and may survive a
cancellation by going on to the next endpoint; `expires_from_now` cancels the
earlier wait.

*Abstracted.* The contents of messages, the texts of errors, the values of the
timeouts, the endpoints. The model has one client that makes one call at a
time; several clients, or a client that calls `stop()` from a handler as
`examples/directip/sender` does, are not modelled. The polling sleep of the
worker is no step: it changes nothing.

*Specifications.* `Spec` has every interleaving. `SerialSpec` leaves out the
steps of one of the worker and the io thread while the other is between its
first write of `m_state` and the end of `StateMachine()`: these are a race in
the code, which the run `tx_handoff` exhibits, and properties of the protocol
are stated where it does not strike.

### IncomingSbdSession and SbdReceiver

*State.* `stream[c]` is what the peer of connection `c` sends before it closes,
fixed at the start: a number of headers that announce no bytes, a header, the
message it announces, and anything. A session knows of it what it has received:
`m_inBuf[c]` is the number of bytes in its buffer, `offset[c]` the number of
those it consumed; `receiver` is whether the weak pointers to the receiver are
alive. `reports[c]` records the signals emitted. Of the receiver there are
`m_acceptor` (open or not), `m_sentinel` and `m_socket` (the connection accepted
last, until it is moved to a session); `accepts` counts the operations under
way, `ready` holds the results of ended ones whose handlers have yet to run.

*Steps.* Calls and handlers are steps: a program calls the receiver on the
thread of its io_service or before it runs, as `examples/directip/receiver` does.

| Code | Actions |
|---|---|
| `IncomingSbdSession::run` | `run`, within `ConnectionAccepted` or `Begin` |
| `onRead`, by its returns | `ReadFails`, `HeaderRefused`, `ReadOn`, `MessageRefused`, `MessageReported` |
| `SbdReceiver::start`, `stop`, destructor | `start`, `stop`, `Destroy` |
| the accept handler | `ConnectionAccepted`, `AcceptFailed`; `doAccept` is `AsyncAccept` |
| the network and `boost::asio` | `Connect`, `AcceptEnds`, `AcceptFails` |

*boost::asio* is modelled as of version 1.62, which `CMakeLists.txt` asks for: the
connection is in `m_socket` when the operation ends, before its handler runs; an
accept into an open socket closes the connection and fails; closing the acceptor
resets the connections not yet accepted and aborts the operations under way.
Handlers of aborted operations return at once and so are no step. A handler that
finds its acceptor closed starts an accept that fails at once, whose handler does
the same: that loop leaves the state as it is, and `rx_stop` shows it.

*Abstracted.* The bytes, and whether a message is MO and parsable, which the
stream says (`body`). A `start()` that throws changes nothing. A client that destroys the
receiver while an accept handler is queued has undefined behaviour and is not
modelled: `Destroy` requires that none is.

### Modem

*State.* `port` is `isOpen()`. A command is a sequence of writes and reads, of
which `todo[c]` is what remains to be done by the caller `c`; `phase[c]` is where it
is within a read or in `Close()`, and `buf`, `failed`, `complete` are the locals `buf`,
`ec`, `complete`. `op[c]` is its `async_read_until`: under way ("reading"), or with a
handler that waits to run, of a chunk ("data") or of an abort. `timer` is whether a
wait is under way, `fired` the number of timer handlers waiting. `runners` are the
threads in `m_ioService.run()`, `stopped` the flag that `reset()` clears. `pending` is what
the modem is going to send and `line` what it has sent, as pieces that end in a line
end and carry the number of the command they answer. History: `heard` is the number of
the command whose answer the caller took, `cutShort` counts the commands that left without
having read all of their answer.

*Steps.* `read_until_timeout()` is `StartRead` (up to the wait, which unlocks the
mutex), `Wakes` (locked again, `complete` seen), and `Return` (joined, reset,
unlocked, and what the command makes of the result); the handlers, and the return
of `run()`, are steps of a runner.

| Code | Actions |
|---|---|
| the commands | `Give`, then by `Program`: `WriteDone`, `WriteFails`, reads, and `DataRead`, `DataFails` for the reads of `ReadMessage` without a time limit |
| `Open` | as a command; `OptionRefused`, and `GiveUp`, which closes the port |
| a read that failed | `ReadFailed`: the command fails (`GiveUp`), unless it does not look (`ReadIgnored`): `ReadMessage` returns its message though its last read failed, `WriteMessage` a code from whatever is in the buffer |
| `Close` | `CloseBegins` (cancels the timer), `CloseEnds` (has the mutex) |
| `read_until_timeout` | `StartRead`, `Wakes`, `Return`; `ReadHandler`, `TimerHandler`, `Leaves` |
| `boost::asio`, the modem | `DataArrives`, `ReadBreaks`, `Expires`; `DeviceSends` |

`async_read_until` reads chunk by chunk, and cancelling aborts only a chunk that
is still waited for; `cancel()` on a closed port throws, which ends the process since
the thread of `read_until_timeout()` catches nothing. Of handlers that wait to run,
any may be first: each order is that of some order of the events behind them.

*Abstracted.* The text of commands and answers, how a reply is parsed into numbers
(a reply that cannot be parsed fails the command without further reads), the
payload, the lengths of time. A command on a port that is not open returns at
once and is no step. Bytes that the modem sends while the port is closed are lost.

### InformationElement and Codec

*State.* An element is an id and its fields, each a sequence of bytes as they stand
in the memory of a little-endian host. `elements` are those of a message to be packed,
of which `packed` were; `raw` are the bytes of the message, `beyond` those that follow
it in memory. A reader waits for one category (`wanted`), as `IncomingSbdSession` and
`SbdTransmitter` do; `currPos` is where it stands, `category` and `walked` what
`messageCategory()` found and saw, `out` what `parse()` has made.

*Steps.* A turn of a loop is a step. Between the two ends a message arrives as it was
packed, cut short, or with one byte altered; others come from elsewhere (`Streams`).

| Code | Definitions |
|---|---|
| the headers of the elements | `Ids`, `ElementLength`, one definition for the fields of each type (`IEMoHeader`, ...), `Layout` |
| `packInto` | `Normal` (a payload truncated, a priority put right), `Pack` |
| `unpack` | `Accepts`, `Consumes`, `Unpacked` |
| `factory` | `Valid`, `factory` |
| `MtMessage::serialize` | `PackElement` |
| `messageCategory` | `ElementSeen`, `MessageUnknown`, `Classified` |
| `parse` | `ElementParsed`, `ParseFails`, `Parsed` |

`Convert` does what the byte order functions do: `htons()` applied to the unsigned
int of the location's flags keeps two of its four bytes, and `MtMessageFlags::get()`
keeps the bits it knows.

*Abstracted.* The protocol's version in the header of a message, three bytes that a
reader takes off before it calls the codec. How elements are found by accessors,
iterated over and printed. `beyond` has three bytes because no more are ever read,
which is proved.

### LockFile and ModemPrograms

*State.* `file` is whether the lock file exists, `m_created` the programs whose
object created it, `stale` whether it was left behind by one that was killed. `pc[p]` is
where program `p` stands in `main()`: looking for the file (`check`), waiting for it in
`io_service.run()` (`waiting`), about to create it (`absent`), at `Open()` (`opening`), in the
commands (`working`), in the main `run()` (`running`), leaving, or closing the modem.
`timer` is whether its timer is armed, `ready` the handlers that are queued, `signal`
how far a signal came.

| Code | Actions |
|---|---|
| `LockFile`: `present`, `create`, destructor | the guards of `Waits`, `WaitsNoMore`; `create` in `Creates`; `Destroy` in `Leaves` |
| `main`, to the commands | `Waits`, `WaitsNoMore`, `Creates`, `Opens` |
| commands; `worker`, `loop` | `Works`, which arms the timer again |
| the handlers | `SignalHandled`, `TimerHandled` |
| the return of `run()` and of `main()` | `OutOfWork`; `Leaves`, `Closes` |
| the system, users, `iridium-send.sh` | `Launch`, `SendSignal`, `Kill`, `Operator` |

`io_service` queues handlers in the order in which their events come, and a handler
that is queued cannot be cancelled. The modem has an io_service of its own and keeps the
program's from running out of work while it is open; that service runs nothing
during the commands, so they are one step.

*Abstracted.* What the commands do, which `Modem` has. A program that cannot open the
modem, or gives up, leaves. The file's contents: nobody reads them. Two programs may use
the modem at once, since `create()` does not say that the file was there, or that it could
not be created; `LockOwned`
is about the file only.

## What is checked

| Run | Specification | Properties | Shows |
|---|---|---|---|
| `tx_session` | `LiveSpec`: serial, never stopped, fair | `Accounted`, `Ordered`, `OneActivity`, `ResourcesHeld`, `ImplementsOutbox`, `Delivered` | over failures, retries, drops and posts at any moment every message is in one place, in order; a session is moved on by exactly one thing; the transmitter implements the outbox; every message is delivered at last |
| `tx_restart` | `SerialSpec`, stopped and restarted twice | `LossPerStop` | however the handlers left over from one run disturb the next, a stop costs one message at most |
| `tx_threads` | `RaceSpec`: every interleaving, a stop and a restart | `TypeOK`, `StopReturns` | fields keep to their ranges in spite of the race; `stop()` returns unless the process died |
| `tx_handoff` | `Spec` | `NoLoss`, violated | the race of the worker with the io thread loses a message with no stop, drop or error |
| `rx_framing` | `SessionLiveSpec` | `Prompt`, `ImplementsInbox`, `Answered` | however a stream is cut into chunks, and wherever it is cut off, its session ends with one answer, a message exactly if there is one, and waits for no byte beyond it |
| `rx_service` | `LiveSpec` of the receiver | `OneAccept`, `ChainPerStop`, `SocketAwaited`, `Served` | over stops, restarts and failures, `m_socket` is never overwritten, each stop leaves one chain of accepts more at most, and every connection that was not closed before it had a session is answered |
| `rx_stop` | `LiveSpec` of the receiver | `SentinelTells`, violated | after `stop()` a handler that was queued accepts again on the closed acceptor, without end |
| `modem_commands` | `LiveSpec` of the modem, one caller | `AtRest`, `OwnAnswer`, `Returns` | whatever the modem answers, and when, a read leaves nothing behind that could disturb the next, and returns unless it outlived its time limit (`Untimed`, see below); answers are taken for those of later commands, but lag by no more than the number of commands cut short |
| `modem_close` | `Spec`, two callers | `CloseWaits`, violated | `Close()` does not wait for a read under way in another thread, and closes the port under it |
| `codec_messages` | `Spec` of the codec | `RoundTrip`, `AnnouncedLength`, `Understood`, `OwnElements`, `Overread` | elements are unpacked as they were packed, whatever follows them; a message that arrives is parsed to its elements or refused, as it ought to be; a damaged one never yields an element of another kind, and is never read beyond by more than three bytes |
| `codec_location` | `Spec` of the codec | `FullElementSize`, violated | unpacking a location consumes three bytes more than the element has, so that what follows is misread |
| `modem_programs` | `Spec` of the programs | `LockOwned`, `StopEnds`, `NotStuck` | over starts, signals and kills at any moment nobody removes another's lock file, nobody waits for one that is gone, and a signal ends a program unless its timer had just expired |

Some properties are worded so as to except what the code is known to do:

* `stop()` in mid-session loses the message in transit, although `SbdTransmitter.hpp`
  says that it returns to the queue; `LossPerStop` counts one message for each stop.
* A session opened after a spurious wakeup, or for a message dropped in the
  meantime, sends an empty message; `Accounted` and `Ordered` leave it aside.
* A timer of the modem that expires when a chunk has just come aborts nothing, and the
  read goes on without a limit; `Returns` excepts it, as the next section says.
* An empty payload is packed but not unpacked, a location takes more bytes than it
  has, and disposition flags are swapped when packed and not when unpacked;
  `Faithful` leaves them out of `RoundTrip`.
* A signal whose handler runs when that of the timer is queued behind it does not
  cancel it: `worker()` or `loop()` then runs on the closed modem, arms the timer again,
  and the program does not end (`TooLate`).

### A time limit that is not kept

`Modem.hpp:122-123` says of `read_until_timeout()`: "По истечению таймаута операция
прерывается и считается завершившейся неудачно" - at the timeout the operation is aborted
and counts as failed. The code does not keep this. `Returns` without its exception,

    \A c \in Callers : phase[c] = "wait" ~> phase[c] # "wait"

is violated by the first command of a single caller, if the modem sends part of an answer,
or a refusal, which has no `OK`, and nothing more:

1. `StartRead`: the timer is set, the read waits for a chunk;
2. `Expires`: the timer has expired, and its handler is queued (`fired`);
3. `DataArrives`: a chunk without the delimiter comes, and its handler is queued too;
4. `TimerHandler`: `m_io.cancel()` (`Modem.cpp:597`) finds no operation that waits, for
   the chunk's has ended;
5. `ReadHandler`: the delimiter is not there, and `async_read_until` starts the next read,
   which nothing will abort any more.

The handler of the timer leaves no mark that step 5 could see. The caller sleeps in
250 ms turns (`Modem.cpp:610-611`) until the modem sends the delimiter, for ever if it does
not; `Close()` from another thread is the only way out. `Returns` is stated with just this
read excepted: `Untimed` asks that the wait and its handler are gone *and* that a chunk
came. So it shows that a modem that says nothing never holds a caller, and that this is
the only way for a read to lose its limit.

### Bounds

* `MaxPosts` (3, or 1 to 2): order and loss need two messages, one in transit and one
  behind; the third makes a message posted while an older one is returned to a
  queue that is not empty.
* `MaxStops` (2): the run after a restart meets what the first left behind,
  and one after that what both left behind.
* `MaxOps` and `MaxQueue` bound, as guards of the worker's decision to open a
  session, what piles up when two sessions run at once or leftovers of earlier
  runs return a message twice. In `tx_session` they are never reached:
  `OneActivity` shows that no operation is outstanding where a session begins.
* `MaxDelay` (2, or 1): the back-off is reset, doubled and capped.
* `ConfirmationSize` (1): a confirmation not there, there, or with a surplus.
* `MaxEmpty` (2), `MaxLength` (4), `MaxSurplus` (4): messages shorter than, as long
  as, and longer than a header, after none, one or several empty headers; a
  surplus that could hold another header. `MaxMessageSize` (4) is so small that a
  message with a surplus comes in several chunks even when they are full. Sessions
  share nothing, so `rx_framing` has one.
* Three connections in `rx_service`: one in `m_socket`, whose handler waits, one
  that a second chain of accepts collides with it, and one behind. Two streams
  suffice there, a message and a refused header, as `rx_framing` has them all.
  `MaxStops` (2): up to three chains of accepts.
* `MaxCommands` (3): one to open the port, one to be cut short, and one to take its
  answer; four were checked once with the same outcome. There is one command of
  each shape: `SbdGetStatus` stands for all that write once and read once.
* `MaxMoPayload` (4) and `MaxMtPayload` (2) instead of 1960 and 1890: payloads are empty,
  within the limit, at it, and one byte longer. Messages are all single elements, all
  pairs, and those of three that the gateway sends. `DamagedBytes` has a zero, small
  lengths and ids of other kinds, `Streams` the location as the gateway packs it and
  messages that end in mid-element.
* Three programs, one of each kind (`Programs`): one that has the file, one that
  waits, and one that takes it between the two steps of another.

### Fairness

The threads are scheduled (`RunsThreads`): the worker, a `stop()` under way and
the io thread keep taking steps, each by weak fairness; a spurious wakeup is not
among the steps the worker is owed. That an operation ends
(weak fairness of `Completion`) is an assumption about the network, since the
code sets no timeout. `Delivered` further assumes `NetworkRecovers`: of what is
attempted again and again, some attempt succeeds. This is strong fairness of the
outcomes only; that the attempts are made is what is checked. No fairness is
assumed of `start`, `post` or `dropMessages`.

On the receiving side the io_service runs handlers (weak fairness of
`AcceptHandler` and of `onRead`), peers send or close, so that every read ends, and
of the accepts attempted again and again one succeeds (strong fairness of
`AcceptEnds`). A peer that neither sends nor closes keeps its session for ever,
since the code sets no timeout; that is listed as a hazard and excluded by the
fairness of `onRead`. No fairness is assumed of `start`, `stop` or connections.

For the modem, threads are scheduled and timers expire (weak fairness of the
caller's steps in a read, of handlers, of `Expires` and `Leaves`). The modem owes
nothing: no fairness of `DeviceSends`, and any command may be answered with
nothing, a part of an answer, or an error. `Returns` excepts a read that outlived its time
limit (`Untimed`), and no other.

The modem programs are scheduled, commands return and timers expire (weak fairness of
`Acts` and `TimerExpires` for each program; a signal is sent at most once to a program, so
no step of it is put off for ever). `SignalSeen` is strongly fair: `io_service` looks
for signals whenever it has nothing else to do, and a program that waits for its timer
does so again and again. Nobody has to launch, signal or kill a program, or to remove a
file left behind.

Deadlock is checked in `tx_session`, where the transmitter always polls, and in
`modem_programs`, where a program can always be launched or killed. A message that was
parsed, a stopped transmitter that nobody starts again, a process that died, a receiver
whose sessions have all ended, or a modem that got its last command does nothing, so the other runs do not check it.

## What is proved

The proofs about the transmitter have no assumption but `ConstantsAssumption`,
which asks the bounds to be numbers, `MaxDelay` and `ConfirmationSize` not to be
zero.

`TypeCorrect`: `Spec => []TypeOK`. `TypeOK` is inductive by itself. It is split
by what the steps touch (queue, flags, fields, threads, operations, history): a
lemma for each helper says which parts it keeps, `FrameTyping` takes care of
what a step leaves alone, and there is one lemma for the worker, the client, the
handlers, and `StateMachine()`. Its content is the bound `2 * MaxDelay` on the
back-off, and that `m_confirmationLength` and the units in the buffer stay in
range under every overtaking.

`SbdSession_proofs` is about `SerialSpec`, as long as `stops = 0`: under `Spec`, or
after a stop, the properties are false, as `tx_handoff` shows; what a stop may cost is
`LossPerStop`, below. `Accounted` and `Ordered` are not inductive: that a message
may be put back by `unget()` depends on there being one session, in a state that
holds it. `SessionInv` adds `Control`, a disjunction of the four situations the
transmitter can be in:

* `BetweenSessions`: nothing is outstanding, the worker looks at the queue;
* `SessionBegins`: the worker writes `eResolving` and runs `StateMachine()`;
* `SessionWaits`: one operation is outstanding, whose handler expects `m_state`,
  and it has its buffer;
* `SessionMoves`: the io thread is in a handler, between two states that `Moves`
  relates.

One lemma per thread shows that its steps lead from one situation to another
(`ControlClient`, `ControlWorker`, `ControlHandler`, `ControlStateMachine`,
`ControlIo`, `ControlCompletion`). With `Control` at hand, one lemma per step that
moves a message (`PlacedPost`, `PlacedDrop`, `PlacedSending`, `PlacedConfirmation`,
`PlacedFailing`) shows that it is accounted for, stays in order, and that the step
is one of the outbox or none; `PlacedFrame` does the same for all other steps. From
the invariant follow `MessagesAccounted`, `MessagesOrdered`, `ResourcesKept` (with
it, that no null buffer is dereferenced), `OneThingMoves`, and the refinement
`TransmitterIsOutbox`, whose mapping is `Undelivered`: the message in transit in
front of the queue, without the empty message, which can only come first.

`LossesPerStop` (`SerialSpec => []LossPerStop`) is about any number of stops and
restarts. `Control` does not survive a stop: the handlers of a session that was cut off
still run, beside those of the next, and may move it. `StopInv` therefore keeps two
weaker things. `Stance` says where the threads may still stand: the worker waits and
opens a session only in `eNotConnected`, and the io thread still moves `m_state` as
`Moves` allows or back to `eNotConnected`. `Budget` counts. Each message that is gone was
dropped by a reset of `m_state`, and each reset comes from a delay that was armed, or
from the worker as it starts; the messages gone, the delays still to pass (armed, queued,
or just handled), a stop whose delay is not armed yet and a worker about to reset are
together no more than the stops, and one more while a failed session waits to try again.
That one is for free, since the state it resets is `eError`, in which the message is
back in the queue: this is why the second part of `Budget` says that such a session has a
delay left. So a delay left over from an earlier run may well reset a later session, but it
was paid for by the stop that left it.

`IncomingSbdSession_proofs` assumes `SessionAssumption`: streams are of
`StreamType`, and a message is not of size 0. `SessionInv` says where a session that
reads can stand: `BeforeHeader`, where it has consumed whole empty headers and has
fewer bytes in its buffer than a header unless nothing was announced, or
`AfterHeader`, where it has consumed the header, knows the length, and lacks bytes
of the message. It gives `SessionIsPrompt` directly. `SessionIsInbox` follows as
a session reports only in the step in which it ends, and each of its four
ends gives one of the `Answers` to its stream.

`SbdReceiver_proofs` assumes `ReceiverAssumption` as well. A step of the receiver is
a step of `SessionNext` or leaves the sessions alone, so `ReceiverIsInbox` follows
from the refinement above. `ReceiverInv` has, besides types, `Chains` (accepts and
waiting handlers, counted together, are at most one for each stop and one more, and
one less while the acceptor is closed), `FirstRun` (before the first stop the
accept loop is one chain, and nothing is lost), `Places` (a connection is in the backlog, in
`m_socket`, or in a session, never in two) and `SocketAwaited`. From it follow
`ChainsBounded`, `AcceptsOne` and `SocketNotOverwritten`.

`Modem_proofs` is about one caller (`OneCaller`), which is how the example programs
use the library; with two the properties are false. `ModemInv` says of each phase
what holds in it: at rest (`Resting`) nothing is outstanding, the service is not
stopped and the mutex is free; in a read (`Running`) the port is open, the runner is
there until the service has no work left, and `complete` is set just when the
operation has ended. From it follow `ReadsCleanUp`, with it that no handler finds the
port closed, and `ClosedAtRest`.

`ModemAnswers_proofs` has the same assumption and proves `AnswersLagBehind`
(`OwnAnswer`). A bound on the lag is not inductive: it depends on all that is still to
be heard. `LagInv` says that what is outstanding, which is what is left in the caller's
buffer, on the line and in the modem, can be given levels (`Leveled`): the level of a piece
is not above the command that is answered by it, rises behind each piece that ends an
answer, and is at least `Lowest`: the number of the last command, less those cut short, and
one more once that command expects nothing any more (`Slack`). A read that succeeds takes the
end of an answer, and with it the piece of the lowest level (`TakenFromFront`), just when
`Slack` rises; to cut a command short or to issue one leaves `Lowest` where it is; and what the
modem adds belongs to the last command (`AnsweredBehind`). A command cut short may still have
taken something for its answer (`ReadIgnored`): that came from the front of its buffer, and
is not below `Lowest` either (`FirstInBuffer`).

`Codec_proofs` assumes `ElementAssumption` (payload limits that two bytes can hold) and
`CodecAssumption`: messages are sequences of elements, whose fields have the sizes that
their types have; streams and what follows them are bytes. `CodecInv` has,
besides types, `Walk`: from each position that `messageCategory()` saw, the length found
there leads to another that it saw, or to where it stands; and `Follows`: `parse()` stands
at such a position, or at the end, until it meets a location. The lemma `Consumed` is
why: what `unpack()` consumes of an element that it accepts is what the length
announces, except for a location, and at most two bytes, or three, more than there
are. From it follow `ParsesOwnElements` (`OwnElements`) and `OverreadIsBounded`
(`Overread`), for every message, stream and damage.

That elements are unpacked as they were packed (`UnpacksWhatWasPacked`, for `RoundTrip`)
says the same of any content and any length of payload. The bytes of a message are
those of its elements put together, as many as there are, so what is to be known of
them needs induction: `EachFollowed` shows that a set of numbers which has 1, and with
each number the next, has them all (the order of the numbers is well-founded), and
serves as the induction over the number of parts put together. `FlattenPlaces` says
where each part stands, `FieldsPlaced` and `PackedBytes` where each field of an
element does, since the fields of a layout follow each other without a gap, and
`SwappedTwice` and `Converted` that the conversions undo themselves.

`AnnouncesLength` (`AnnouncedLength`) has the premise that the message is shorter than
64 KiB: `m_length` has two bytes, and what holds of every message is
`AnnouncedRemainder`, that it is the remainder of the message's length. A message that
long takes many payloads; the ones of the run are all shorter.

`UnderstandsOwnMessages` (`Understood`) assumes `PayloadsCounted`: the payloads that a
program composes a message of are shorter than 64 KiB. `packInto()` takes the length of a
longer one modulo 64 KiB: if what remains is within the limit, it cuts nothing off and
announces the remainder, and the reader loses its way. `factory()` refuses such payloads; a
program that adds the elements itself could pack them. The invariant `TraceInv` says of a
message that arrives as it was packed, and has no location, that its elements are
`Laid` one behind the other at positions `at`; that `messageCategory()` stands at one of
these, or at the end, and found the category of the elements before it (`Classifies`);
and that `parse()` stands behind as many elements as it has made, which are the ones
packed (`ParsesOn`). What a reader does at a position is what it would do to the element
packed there (`ParsesFaithful`, `EmptyRefused`). Messages with a location are left out by
the property itself, and the run `codec_location` shows why.

`ModemPrograms_proofs` assumes nothing of the programs. `LockOwned` is inductive with the
types of `file` and `stale`: a file is created only where there is none, and destroyed
only by the one who created it (`LockIsOwned`).

Not proved, only model-checked: the liveness properties (`Delivered`, `StopReturns`,
`Answered`, `Served`, `Returns`, `StopEnds`, `NotStuck`), which rest on fairness and are out
of the prover's reach. Every invariant that a passing run checks is a theorem, with the
premises named above.

## Plan

In this order:

1. `SbdTransmitter`, `JobUnitQueue`, `MtOutbox`, and the theorems above - done.
2. `SbdReceiver` with `IncomingSbdSession`, `MoInbox`, and their theorems - done.
3. `Modem`, and its theorems for one caller - done.
4. `InformationElement` and `Codec`, and the theorems about the reader - done.
5. `LockFile` and the modem programs - done.
6. What a stop costs (`LossesPerStop`), and how far answers lag in the modem
   (`AnswersLagBehind`) - done.
7. The bytes of messages (`UnpacksWhatWasPacked`, `AnnouncesLength`,
   `UnderstandsOwnMessages`) - done.

## Not modelled

* Of the DirectIP programs (`examples/directip/`), the parsing of options and the printing
  of messages have no behaviour that these models could check. Their calls of the library are
  those of the clients in `SbdTransmitter` and `SbdReceiver`, but for a client that calls
  `stop()` from a handler. `daemonize()` and `alreadyRunning()` are called nowhere.
* Exceptions in `SbdTransmitter::stop(false)` (`SbdTransmitter.cpp:51-66`). The `stop()` of
  the model is `stop(true)`, as the destructor calls it, which catches them; a `cancel()`
  that throws cancels nothing. With `stop(false)`, the default, one that is thrown leaves
  `stop()` before the `join()`. `m_delayTimer.cancel()` does not throw with `boost::asio` on
  POSIX; `m_socket.cancel()` may, if another thread closes the socket between `is_open()`
  and `cancel()`. The worker is then left to end by itself, with nobody to join it, and
  `StopReturns` says nothing of such a `stop()`.
* What two threads that give commands at once do to each other (`Modem.cpp:594`), beyond
  what `modem_close` shows of `Close()`: the model has both, but no property is stated.
* The accessors, iterators and printing of messages: they read values and change none.
* The build files.
