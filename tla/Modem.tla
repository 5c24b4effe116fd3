------------------------------- MODULE Modem -------------------------------
(***************************************************************************)
(* Modem: AT commands to an Iridium modem on a serial port (src/Modem.cpp, *)
(* Modem.hpp).                                                             *)
(*                                                                         *)
(* A command writes to the port and reads the answer up to a delimiter.    *)
(* read_until_timeout() reads by an asynchronous operation next to a timer *)
(* and starts a thread that runs the io_service of both until they have    *)
(* ended.  The caller's steps are those that another caller, the runner,   *)
(* or the modem can separate.                                              *)
(*                                                                         *)
(* What the modem sends is a sequence of pieces, each ending in a line end *)
(* and carrying the number of the command that it answers.                 *)
(***************************************************************************)
EXTENDS Integers, Sequences

CONSTANTS Callers,              \* threads that use the modem
          NoCaller,
          Commands,             \* the kinds of commands they give
          MaxCommands           \* bound: commands given

ASSUME ModemAssumption == /\ NoCaller \notin Callers
                          /\ MaxCommands \in Nat

VARIABLES
  port,                 \* isOpen()
  m_sentinel,           \* is there one?
  m_mutex,              \* who holds it
  call,                 \* the command of each caller, with its number
  todo,                 \* what remains to be done of it
  phase,                \* where the caller is within that
  buf, failed, complete,\* its locals buf, ec, complete
  op,                   \* its async_read_until
  timer, fired,         \* is a wait under way? the number of handlers waiting
  runners, stopped,     \* threads running m_ioService; has it stopped?
  terminated,           \* the process, by an uncaught exception
  pending, line,        \* pieces that the modem will send; that it has sent
  heard,                \* number of the command whose answer the caller took
  issued, cutShort      \* counters: commands; those left without all of their answer

locals == <<call, todo, phase, buf, failed, complete, heard>>
service == <<op, timer, fired, runners, stopped, terminated>>
device == <<pending, line>>
counters == <<issued, cutShort>>
vars == <<port, m_sentinel, m_mutex, locals, service, device, counters>>

-----------------------------------------------------------------------------
(* Commands: what they write, and the delimiters they read up to; "any"    *)
(* stands for a line end, "data" for a read without a time limit.          *)

\* NetGetStatus(), SbdGetStatus(), DoSbdSession() and the like.
Plain == <<"write", "OK">>

GetSignalQuality == <<"write", "any", "any", "OK">>

ReadMessage == <<"write", "any", "data", "OK">>

\* Faulty variant: the answer to the message is not read.
WriteMessageUnread == <<"write", "READY", "payload">>

WriteMessage == <<"write", "READY", "payload", "OK">>

Program(name) ==
  CASE name = "GetSignalQuality" -> GetSignalQuality
    [] name = "WriteMessage"     -> WriteMessage
    [] name = "ReadMessage"      -> ReadMessage
    [] OTHER                     -> Plain

Writes == {"write", "payload"}

\* An answer to what was written; the modem may not answer, or refuse.
Answers(name, written) ==
  {<<>>, <<"ERROR">>,
   CASE name = "GetSignalQuality"                     -> <<"line", "line", "OK">>
     [] name = "WriteMessage" /\ written = "write"    -> <<"READY">>
     [] name = "WriteMessage" /\ written = "payload"  -> <<"line", "OK">>
     [] name = "ReadMessage"                          -> <<"line", "data", "OK">>
     [] OTHER                                         -> <<"OK">>}

Pieces(n, answer) == [i \in DOMAIN answer |-> [n |-> n, text |-> answer[i]]]

Init ==
  /\ port = FALSE /\ m_sentinel = FALSE
  /\ m_mutex = NoCaller
  /\ call = [c \in Callers |-> [name |-> "none", n |-> 0]]
  /\ todo = [c \in Callers |-> <<>>]
  /\ phase = [c \in Callers |-> "run"]
  /\ buf = [c \in Callers |-> <<>>]
  /\ failed = [c \in Callers |-> FALSE]
  /\ complete = [c \in Callers |-> FALSE]
  /\ heard = [c \in Callers |-> 0]
  /\ op = [c \in Callers |-> "none"]
  /\ timer = FALSE /\ fired = 0
  /\ runners = {} /\ stopped = FALSE /\ terminated = FALSE
  /\ pending = <<>> /\ line = <<>>
  /\ issued = 0 /\ cutShort = 0

-----------------------------------------------------------------------------
(* boost::asio.  A handler that waits to run is beyond cancellation; which *)
(* of those that wait runs first makes no difference to what can follow.   *)

\* Reads under way end; those that ended already are not affected.
Abort == [c \in Callers |-> IF op[c] = "reading" THEN "aborted" ELSE op[c]]

\* Cancels the wait, whose handler is called then.
CancelTimer == /\ timer' = FALSE
               /\ fired' = IF timer THEN fired + 1 ELSE fired

\* Bytes that nobody read are lost.
ClosePort == /\ port' = FALSE
             /\ op' = Abort
             /\ line' = <<>>

Runs == runners # {} /\ ~ stopped

\* The delimiter is in the buffer.
Found(c) == \E i \in DOMAIN buf[c] : Head(todo[c]) \in {"any", buf[c][i].text}

\* async_read_some for more.
Continue == IF port THEN "reading" ELSE "aborted"

Idle(c) == phase[c] = "run" /\ todo[c] = <<>>

At(c, steps) == phase[c] = "run" /\ todo[c] # <<>> /\ Head(todo[c]) \in steps

-----------------------------------------------------------------------------
(* The caller: commands.                                                   *)

\* Without an open port, a command returns or throws at once.
Give(c, name) ==
  /\ Idle(c) /\ issued < MaxCommands
  /\ port = (name # "Open")
  /\ issued' = issued + 1
  /\ port' = TRUE
  /\ call' = [call EXCEPT ![c] = [name |-> name, n |-> issued']]
  /\ todo' = [todo EXCEPT ![c] = Program(name)]
  /\ buf' = [buf EXCEPT ![c] = <<>>]
  /\ heard' = [heard EXCEPT ![c] = 0]
  /\ UNCHANGED <<m_sentinel, m_mutex, phase, failed, complete, service, device, cutShort>>

\* Open(): the port opens, but set_option() throws and leaves it open.
OptionRefused(c) ==
  /\ Idle(c) /\ ~ port
  /\ port' = TRUE
  /\ UNCHANGED <<m_sentinel, m_mutex, locals, service, device, counters>>

\* A command fails: it throws or returns false, Open() closing the port.
GiveUp(c) ==
  /\ todo' = [todo EXCEPT ![c] = <<>>]
  /\ cutShort' = cutShort + 1
  /\ IF call[c].name = "Open" THEN ClosePort ELSE UNCHANGED <<port, op, line>>

WriteDone(c) ==
  /\ At(c, Writes) /\ port
  /\ \E answer \in Answers(call[c].name, Head(todo[c])) :
       pending' = pending \o Pieces(call[c].n, answer)
  /\ todo' = [todo EXCEPT ![c] = Tail(@)]
  /\ UNCHANGED <<port, m_sentinel, m_mutex, call, phase, buf, failed, complete, heard,
                 service, line, counters>>

WriteFails(c) ==
  /\ At(c, Writes)
  /\ GiveUp(c)
  /\ UNCHANGED <<m_sentinel, m_mutex, call, phase, buf, failed, complete, heard, timer,
                 fired, runners, stopped, terminated, pending, issued>>

\* boost::asio::read() of a message: what comes is taken for it.
DataRead(c) ==
  /\ At(c, {"data"}) /\ line # <<>>
  /\ heard' = [heard EXCEPT ![c] = Head(line).n]
  /\ \/ /\ Head(line).text = "data"
        /\ todo' = [todo EXCEPT ![c] = Tail(@)]
        /\ line' = Tail(line)
        /\ UNCHANGED <<port, op, cutShort>>
     \/ /\ Head(line).text # "data"     \* too short
        /\ line' = Tail(line)
        /\ UNCHANGED <<port, op, todo, cutShort>>
     \/ /\ Head(line).text # "data"     \* of the wrong checksum
        /\ todo' = [todo EXCEPT ![c] = <<>>]
        /\ cutShort' = cutShort + 1
        /\ line' = Tail(line)
        /\ UNCHANGED <<port, op>>
  /\ UNCHANGED <<m_sentinel, m_mutex, call, phase, buf, failed, complete, timer, fired,
                 runners, stopped, terminated, pending, issued>>

\* The port broke, or was closed.
DataFails(c) ==
  /\ At(c, {"data"})
  /\ GiveUp(c)
  /\ UNCHANGED <<m_sentinel, m_mutex, call, phase, buf, failed, complete, heard, timer,
                 fired, runners, stopped, terminated, pending, issued>>

-----------------------------------------------------------------------------
(* The caller: read_until_timeout().                                       *)

\* Up to the wait for cond, which gives up the mutex.  Setting the timer
\* cancels an earlier wait.
StartRead(c) ==
  /\ At(c, {"any", "OK", "READY"})
  /\ m_mutex = NoCaller
  /\ complete' = [complete EXCEPT ![c] = FALSE]
  /\ op' = [op EXCEPT ![c] = IF Found(c) THEN "data" ELSE Continue]
  /\ timer' = TRUE
  /\ fired' = IF timer THEN fired + 1 ELSE fired
  /\ runners' = runners \union {c}
  /\ phase' = [phase EXCEPT ![c] = "wait"]
  /\ UNCHANGED <<port, m_sentinel, m_mutex, call, todo, buf, failed, heard, stopped,
                 terminated, device, counters>>

\* By notification, or within 250 ms of it.
Wakes(c) ==
  /\ phase[c] = "wait" /\ complete[c]
  /\ m_mutex = NoCaller
  /\ m_mutex' = c
  /\ phase' = [phase EXCEPT ![c] = "join"]
  /\ UNCHANGED <<port, m_sentinel, call, todo, buf, failed, complete, heard, service,
                 device, counters>>

\* GetSignalQuality() reads on from the same buffer, unless there was an error.
ReadOn(c) ==
  LET lines == call[c].name = "GetSignalQuality" /\ Head(todo[c]) = "any"
      error == lines /\ Head(buf[c]).text = "ERROR"
  IN  /\ todo' = [todo EXCEPT ![c] = IF error THEN <<>> ELSE Tail(@)]
      /\ buf' = [buf EXCEPT ![c] = IF lines THEN Tail(@) ELSE <<>>]
      /\ heard' = [heard EXCEPT ![c] = Head(buf[c]).n]
      /\ m_sentinel' = (m_sentinel \/ call[c].name = "Open")
      /\ UNCHANGED <<port, op, line, cutShort>>

\* WriteMessage() and ReadMessage() do not look at the result of their last read.
Ignored(c) == call[c].name \in {"WriteMessage", "ReadMessage"} /\ todo[c] = <<"OK">>

\* They return all the same; WriteMessage() with a code from what is in the buffer.
ReadIgnored(c) ==
  /\ todo' = [todo EXCEPT ![c] = <<>>]
  /\ cutShort' = cutShort + 1
  /\ heard' = IF call[c].name = "WriteMessage" /\ buf[c] # <<>>
              THEN [heard EXCEPT ![c] = Head(buf[c]).n]
              ELSE heard
  /\ UNCHANGED <<port, m_sentinel, buf, op, line>>

ReadFailed(c) ==
  \/ Ignored(c) /\ ReadIgnored(c)
  \/ ~ Ignored(c) /\ GiveUp(c) /\ UNCHANGED <<m_sentinel, buf, heard>>

\* Faulty variant: the thread is detached.
Detached(c) == TRUE

Joined(c) == c \notin runners

\* Joined, the service reset, the mutex unlocked; and what the command makes of
\* the result.
Return(c) ==
  /\ phase[c] = "join" /\ Joined(c)
  /\ stopped' = FALSE
  /\ m_mutex' = NoCaller
  /\ phase' = [phase EXCEPT ![c] = "run"]
  /\ IF failed[c] THEN ReadFailed(c) ELSE ReadOn(c)
  /\ UNCHANGED <<call, failed, complete, timer, fired, runners, terminated, pending,
                 issued>>

-----------------------------------------------------------------------------
(* The caller: Close().                                                    *)

CloseBegins(c) ==
  /\ Idle(c)
  /\ CancelTimer
  /\ phase' = [phase EXCEPT ![c] = "close"]
  /\ UNCHANGED <<port, m_sentinel, m_mutex, call, todo, buf, failed, complete, heard, op,
                 runners, stopped, terminated, device, counters>>

CloseEnds(c) ==
  /\ phase[c] = "close"
  /\ m_mutex = NoCaller
  /\ m_sentinel' = FALSE
  /\ IF port THEN ClosePort ELSE UNCHANGED <<port, op, line>>
  /\ phase' = [phase EXCEPT ![c] = "run"]
  /\ UNCHANGED <<m_mutex, call, todo, buf, failed, complete, heard, timer, fired, runners,
                 stopped, terminated, pending, counters>>

-----------------------------------------------------------------------------
(* The runners and the modem.                                              *)

\* Faulty variant: only a success is announced.
CompleteOnSuccess(c) == [complete EXCEPT ![c] = op[c] = "data"]

Completed(c) == [complete EXCEPT ![c] = TRUE]

\* A handler of async_read_until: more is read until the delimiter is there.
ReadHandler(c) ==
  /\ Runs /\ op[c] \in {"data", "aborted"}
  /\ IF op[c] = "data" /\ ~ Found(c)
     THEN /\ op' = [op EXCEPT ![c] = Continue]
          /\ UNCHANGED <<failed, complete, timer, fired>>
     ELSE /\ op' = [op EXCEPT ![c] = "none"]
          /\ failed' = [failed EXCEPT ![c] = op[c] = "aborted"]
          /\ complete' = Completed(c)
          /\ CancelTimer
  /\ UNCHANGED <<port, m_sentinel, m_mutex, call, todo, phase, buf, heard, runners,
                 stopped, terminated, device, counters>>

\* The handler of the timer, whatever ended the wait.  m_io.cancel() throws if
\* the port is closed, and nothing in the thread catches it.
TimerHandler ==
  /\ Runs /\ fired > 0
  /\ fired' = fired - 1
  /\ IF port THEN op' = Abort /\ UNCHANGED terminated
             ELSE terminated' = TRUE /\ UNCHANGED op
  /\ UNCHANGED <<port, m_sentinel, m_mutex, locals, timer, runners, stopped, device,
                 counters>>

Expires ==
  /\ Runs /\ timer
  /\ timer' = FALSE
  /\ fired' = fired + 1
  /\ UNCHANGED <<port, m_sentinel, m_mutex, locals, op, runners, stopped, terminated,
                 device, counters>>

\* What there is, or some of it, is read.
DataArrives(c) ==
  /\ Runs /\ op[c] = "reading"
  /\ \E k \in DOMAIN line : /\ buf' = [buf EXCEPT ![c] = @ \o SubSeq(line, 1, k)]
                            /\ line' = SubSeq(line, k + 1, Len(line))
  /\ op' = [op EXCEPT ![c] = "data"]
  /\ UNCHANGED <<port, m_sentinel, m_mutex, call, todo, phase, failed, complete, heard,
                 timer, fired, runners, stopped, terminated, pending, counters>>

\* The port broke.
ReadBreaks(c) ==
  /\ Runs /\ op[c] = "reading"
  /\ op' = [op EXCEPT ![c] = "aborted"]
  /\ UNCHANGED <<port, m_sentinel, m_mutex, locals, timer, fired, runners, stopped,
                 terminated, device, counters>>

NoWork == ~ timer /\ fired = 0 /\ \A c \in Callers : op[c] = "none"

\* run() returns.
Leaves(r) ==
  /\ r \in runners
  /\ stopped \/ NoWork
  /\ runners' = runners \ {r}
  /\ stopped' = TRUE
  /\ UNCHANGED <<port, m_sentinel, m_mutex, locals, op, timer, fired, terminated, device,
                 counters>>

DeviceSends ==
  /\ pending # <<>>
  /\ pending' = Tail(pending)
  /\ line' = IF port THEN Append(line, Head(pending)) ELSE line
  /\ UNCHANGED <<port, m_sentinel, m_mutex, locals, service, counters>>

-----------------------------------------------------------------------------
Proceeds(c) == \/ WriteDone(c) \/ WriteFails(c) \/ DataRead(c) \/ DataFails(c)
               \/ StartRead(c) \/ Wakes(c) \/ Return(c) \/ CloseEnds(c)

RunnerSteps == \/ TimerHandler \/ Expires
               \/ \E c \in Callers : \/ ReadHandler(c) \/ DataArrives(c)
                                         \/ ReadBreaks(c) \/ Leaves(c)

Next == /\ ~ terminated
        /\ \/ RunnerSteps \/ DeviceSends
           \/ \E c \in Callers : \/ Proceeds(c) \/ CloseBegins(c) \/ OptionRefused(c)
                                 \/ \E name \in Commands : Give(c, name)

Spec == Init /\ [][Next]_vars

\* Threads are scheduled, and the timer expires; the modem owes nothing.
Fairness ==
  /\ WF_vars(~ terminated /\ TimerHandler)
  /\ WF_vars(~ terminated /\ Expires)
  /\ \A c \in Callers : /\ WF_vars(~ terminated /\ (Wakes(c) \/ Return(c)))
                        /\ WF_vars(~ terminated /\ ReadHandler(c))
                        /\ WF_vars(~ terminated /\ Leaves(c))

LiveSpec == Spec /\ Fairness

-----------------------------------------------------------------------------
\* read_until_timeout(): while nobody reads, nothing is left of earlier reads
\* that could use their locals, touch a closed port, or end the next read.
AtRest ==
  /\ ~ terminated
  /\ (\A c \in Callers : phase[c] \in {"run", "close"}) =>
       /\ NoWork /\ runners = {} /\ ~ stopped
       /\ m_mutex = NoCaller

\* An answer that comes after its command left is taken for that of a later one.  But
\* commands lag behind by no more than the number of those cut short, which either
\* failed or, WriteMessage() and ReadMessage(), returned as if their read had not.
OwnAnswer ==
  \A c \in Callers : heard[c] # 0 => call[c].n - heard[c] <= cutShort

\* A read that outlived its time limit: the timer's handler found no read to cancel,
\* for a chunk had just come, and the read went on without a timer.
Untimed(c) == op[c] = "reading" /\ ~ timer /\ fired = 0 /\ buf[c] # <<>>

\* "On timeout the operation is aborted and counts as failed" (Modem.hpp:122-123):
\* every read_until_timeout() returns, though the modem be silent.  The code does not
\* keep this for a read that outlived its time limit, and for no other.
Returns ==
  \A c \in Callers : phase[c] = "wait" ~> (phase[c] # "wait" \/ Untimed(c))

\* "waiting when read_until_timeout() complete" (Close()): the port is closed
\* only when no read is under way.
CloseWaits ==
  [][port /\ ~ port' => \A c \in Callers : op[c] = "none" /\ c \notin runners]_vars
=============================================================================
