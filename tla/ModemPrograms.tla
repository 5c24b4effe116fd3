---------------------------- MODULE ModemPrograms ----------------------------
(***************************************************************************)
(* The programs that use a modem (src/examples/modem/): each waits for the *)
(* lock file to go, creates its own, opens the modem and gives commands:   *)
(* the sender once, the receiver and the status program whenever a timer   *)
(* of theirs expires, until a signal stops them.                           *)
(*                                                                         *)
(* pc[p] is where program p is: "check" in the condition of the loop that  *)
(* waits, "waiting" in io_service.run() within it, "absent" before         *)
(* create(), "opening" in modem.Open(), "working" in the commands,         *)
(* "running" in the main io_service.run(), "leaving" before ~LockFile(),   *)
(* "closing" between that and ~Modem().                                    *)
(***************************************************************************)
EXTENDS LockFile

CONSTANT Kind           \* "sender", "receiver" or "stat"

ASSUME ProgramsAssumption == Kind \in [Programs -> {"sender", "receiver", "stat"}]

VARIABLES
  pc,
  shutdown,
  signal,               \* "none", "sent" to the process, or "seen" by its io_service
  timer,                \* is the timer armed?
  ready,                \* the handlers that io_service has queued
  device                \* is the modem open?

process == <<pc, shutdown, signal, timer, ready, device>>
vars == <<lock, process>>

Init ==
  /\ LockInit
  /\ pc = [p \in Programs |-> "ended"]
  /\ shutdown = [p \in Programs |-> FALSE]
  /\ signal = [p \in Programs |-> "none"]
  /\ timer = [p \in Programs |-> FALSE]
  /\ ready = [p \in Programs |-> <<>>]
  /\ device = [p \in Programs |-> FALSE]

Gone(p) == pc[p] = "ended"
Runs(p) == pc[p] \in {"waiting", "running"}
Goto(p, to) == pc' = [pc EXCEPT ![p] = to]

\* The process is gone, and what it had but the lock file.
Exit(p) ==
  /\ Goto(p, "ended")
  /\ shutdown' = [shutdown EXCEPT ![p] = FALSE]
  /\ signal' = [signal EXCEPT ![p] = "none"]
  /\ timer' = [timer EXCEPT ![p] = FALSE]
  /\ ready' = [ready EXCEPT ![p] = <<>>]
  /\ device' = [device EXCEPT ![p] = FALSE]

-----------------------------------------------------------------------------
\* The program is started, perhaps again (iridium-send.sh).
Launch(p) ==
  /\ Gone(p)
  /\ Goto(p, "check")
  /\ UNCHANGED <<lock, shutdown, signal, timer, ready, device>>

\* The lock file is looked for.
Waits(p) ==
  /\ pc[p] = "check" /\ file /\ ~ shutdown[p]
  /\ Goto(p, "waiting")
  /\ timer' = [timer EXCEPT ![p] = TRUE]
  /\ UNCHANGED <<lock, shutdown, signal, ready, device>>

WaitsNoMore(p) ==
  /\ pc[p] = "check" /\ (~ file \/ shutdown[p])
  /\ Goto(p, IF shutdown[p] THEN "leaving" ELSE "absent")
  /\ UNCHANGED <<lock, shutdown, signal, timer, ready, device>>

Creates(p) ==
  /\ pc[p] = "absent"
  /\ create(p)
  /\ Goto(p, "opening")
  /\ UNCHANGED <<shutdown, signal, timer, ready, device>>

Opens(p) ==
  /\ pc[p] = "opening"
  /\ \/ Goto(p, "working") /\ device' = [device EXCEPT ![p] = TRUE]
     \/ Goto(p, "leaving") /\ UNCHANGED device
  /\ UNCHANGED <<lock, shutdown, signal, timer, ready>>

\* The commands were given, with whatever result.
Works(p) ==
  /\ pc[p] = "working"
  /\ IF Kind[p] = "sender"
     THEN Goto(p, "leaving") /\ UNCHANGED timer
     ELSE Goto(p, "running") /\ timer' = [timer EXCEPT ![p] = TRUE]
  /\ UNCHANGED <<lock, shutdown, signal, ready, device>>

\* main() returns: ~LockFile() comes before ~Modem().
Leaves(p) ==
  /\ pc[p] = "leaving"
  /\ Destroy(p)
  /\ Goto(p, "closing")
  /\ UNCHANGED <<shutdown, signal, timer, ready, device>>

Closes(p) ==
  /\ pc[p] = "closing"
  /\ Exit(p)
  /\ UNCHANGED lock

-----------------------------------------------------------------------------
(* io_service.run().                                                       *)

SignalSeen(p) ==
  /\ Runs(p) /\ signal[p] = "sent"
  /\ signal' = [signal EXCEPT ![p] = "seen"]
  /\ ready' = [ready EXCEPT ![p] = Append(@, "signal")]
  /\ UNCHANGED <<lock, pc, shutdown, timer, device>>

TimerExpires(p) ==
  /\ Runs(p) /\ timer[p]
  /\ timer' = [timer EXCEPT ![p] = FALSE]
  /\ ready' = [ready EXCEPT ![p] = Append(@, "timer")]
  /\ UNCHANGED <<lock, pc, shutdown, signal, device>>

HandlerOf(p, what) ==
  /\ Runs(p) /\ ready[p] # <<>> /\ Head(ready[p]) = what
  /\ ready' = [ready EXCEPT ![p] = Tail(@)]

\* Those whose handler of the signal knows the timer under way.
Cancels(p) == pc[p] = "running" \/ Kind[p] = "receiver"

\* Faulty variant: the modem is not closed.
SignalHandledOpen(p) ==
  /\ HandlerOf(p, "signal")
  /\ shutdown' = [shutdown EXCEPT ![p] = TRUE]
  /\ timer' = [timer EXCEPT ![p] = @ /\ ~ Cancels(p)]
  /\ UNCHANGED <<lock, pc, signal, device>>

\* The handler of the signal.
SignalHandled(p) ==
  /\ HandlerOf(p, "signal")
  /\ shutdown' = [shutdown EXCEPT ![p] = TRUE]
  /\ timer' = [timer EXCEPT ![p] = @ /\ ~ Cancels(p)]
  /\ device' = [device EXCEPT ![p] = FALSE]
  /\ UNCHANGED <<lock, pc, signal>>

\* Faulty variant: io_service is not stopped.
TimerHandledOn(p) ==
  /\ HandlerOf(p, "timer")
  /\ Goto(p, IF pc[p] = "waiting" THEN "waiting" ELSE "working")
  /\ UNCHANGED <<lock, shutdown, signal, timer, device>>

\* The handler of the timer: it ends the wait, or is worker() or loop().
TimerHandled(p) ==
  /\ HandlerOf(p, "timer")
  /\ Goto(p, IF pc[p] = "waiting" THEN "check" ELSE "working")
  /\ UNCHANGED <<lock, shutdown, signal, timer, device>>

\* run() returns when nothing is left to wait for.
OutOfWork(p) ==
  /\ Runs(p) /\ ready[p] = <<>> /\ ~ timer[p] /\ shutdown[p] /\ ~ device[p]
  /\ Goto(p, IF pc[p] = "waiting" THEN "check" ELSE "leaving")
  /\ UNCHANGED <<lock, shutdown, signal, timer, ready, device>>

-----------------------------------------------------------------------------
(* Others.                                                                 *)

SendSignal(p) ==
  /\ ~ Gone(p) /\ signal[p] = "none"
  /\ signal' = [signal EXCEPT ![p] = "sent"]
  /\ UNCHANGED <<lock, pc, shutdown, timer, ready, device>>

Kill(p) ==
  /\ ~ Gone(p)
  /\ Lose(p)
  /\ Exit(p)

Operator == Clear /\ UNCHANGED process

Acts(p) == \/ Waits(p) \/ WaitsNoMore(p) \/ Creates(p) \/ Opens(p) \/ Works(p)
           \/ Leaves(p) \/ Closes(p)
           \/ SignalHandled(p) \/ TimerHandled(p) \/ OutOfWork(p)

Next == \/ \E p \in Programs : \/ Acts(p) \/ SignalSeen(p) \/ TimerExpires(p)
                               \/ Launch(p) \/ SendSignal(p) \/ Kill(p)
        \/ Operator

\* Processes are scheduled, commands return, timers expire, and io_service, each time
\* that it has nothing else to do, looks whether there was a signal.
Spec ==
  /\ Init /\ [][Next]_vars
  /\ \A p \in Programs : WF_vars(Acts(p)) /\ WF_vars(TimerExpires(p)) /\ SF_vars(SignalSeen(p))

-----------------------------------------------------------------------------
\* The timer expired, but its handler comes after that of the signal, which cannot
\* cancel it any more.
TooLate(p) == pc[p] = "running" /\ ready[p] = <<"signal", "timer">>

\* The handlers of signals: a program that is sent a signal ends, unless the signal
\* comes when the timer has expired: worker() or loop() then runs on the closed modem,
\* and arms the timer again, for ever.
StopEnds == \A p \in Programs : signal[p] = "sent" ~> (Gone(p) \/ TooLate(p))

\* The loop that waits: nobody waits for ever for a file that does not come back.
NotStuck ==
  \A p \in Programs : (<>[](pc[p] \in {"check", "waiting"})) => []<>file
=============================================================================
