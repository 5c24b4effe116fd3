---------------------------- MODULE Modem_proofs ----------------------------
(***************************************************************************)
(* With one caller, read_until_timeout() cleans up behind itself, and a    *)
(* port is closed only at rest.  With two, neither is so.                  *)
(***************************************************************************)
EXTENDS Modem, TLAPS

OneCaller == Callers # {} /\ \A a, b \in Callers : a = b

TypeOK ==
  /\ port \in BOOLEAN
  /\ phase \in [Callers -> {"run", "wait", "join", "close"}]
  /\ op \in [Callers -> {"none", "reading", "data", "aborted"}]
  /\ complete \in [Callers -> BOOLEAN]
  /\ todo = [c \in Callers |-> todo[c]]
  /\ timer \in BOOLEAN /\ fired \in Nat
  /\ runners \subseteq Callers
  /\ stopped \in BOOLEAN /\ terminated \in BOOLEAN

\* Nothing is outstanding, and the service is ready to run again.
Resting(c) == NoWork /\ c \notin runners /\ ~ stopped /\ m_mutex = NoCaller

\* The runner goes on until the operation and the timer have ended; the caller
\* is told when the operation has.
Running(c) ==
  /\ port
  /\ stopped <=> c \notin runners
  /\ stopped => NoWork
  /\ complete[c] <=> op[c] = "none"

CallerInv(c) ==
  /\ todo[c] # <<>> => port
  /\ phase[c] \in {"run", "close"} => Resting(c)
  /\ phase[c] = "close" => todo[c] = <<>>
  /\ phase[c] = "wait" => Running(c) /\ m_mutex = NoCaller
  /\ phase[c] = "join" => Running(c) /\ complete[c] /\ m_mutex = c

ModemInv == /\ TypeOK /\ ~ terminated
            /\ \A c \in Callers : CallerInv(c)

USE ModemAssumption

-----------------------------------------------------------------------------
LEMMA InvInit == Init => ModemInv
  <1> SUFFICES ASSUME Init PROVE ModemInv
    OBVIOUS
  <1>1. TypeOK
    BY DEF Init, TypeOK
  <1>2. ASSUME NEW c \in Callers PROVE CallerInv(c)
    BY DEF Init, CallerInv, Resting, NoWork
  <1> QED
    BY <1>1, <1>2 DEF ModemInv, Init

LEMMA InvGive ==
  ASSUME ModemInv, OneCaller, NEW c \in Callers, NEW name, Give(c, name)
  PROVE  ModemInv'
  BY DEF ModemInv, TypeOK, OneCaller, CallerInv, Resting, Running, NoWork, Give, Idle,
      service, device

LEMMA InvOptionRefused ==
  ASSUME ModemInv, OneCaller, NEW c \in Callers, OptionRefused(c)
  PROVE  ModemInv'
  BY DEF ModemInv, TypeOK, OneCaller, CallerInv, Resting, Running, NoWork, OptionRefused,
         Idle, locals, service, device, counters
LEMMA InvWriteDone ==
  ASSUME ModemInv, OneCaller, NEW c \in Callers, WriteDone(c)
  PROVE  ModemInv'
  BY DEF ModemInv, TypeOK, OneCaller, CallerInv, Resting, Running, NoWork,
         WriteDone, At, service, counters

\* At rest, giving up changes the port and what is left to do, at most.
LEMMA GivingUp ==
  ASSUME TypeOK, NEW c \in Callers, GiveUp(c), \A a \in Callers : op[a] = "none"
  PROVE  /\ op' = op /\ port' \in BOOLEAN
         /\ todo' = [todo EXCEPT ![c] = <<>>]
  BY DEF TypeOK, GiveUp, ClosePort, Abort

LEMMA InvWriteFails ==
  ASSUME ModemInv, OneCaller, NEW c \in Callers, WriteFails(c)
  PROVE  ModemInv'
  <1>1. /\ op' = op /\ port' \in BOOLEAN
        /\ todo' = [todo EXCEPT ![c] = <<>>]
    BY GivingUp DEF WriteFails, At, ModemInv, CallerInv, Resting, NoWork
  <1> QED
    BY <1>1 DEF ModemInv, TypeOK, OneCaller, CallerInv, Resting, Running, NoWork,
                WriteFails, At

LEMMA InvDataRead ==
  ASSUME ModemInv, OneCaller, NEW c \in Callers, DataRead(c)
  PROVE  ModemInv'
  BY DEF ModemInv, TypeOK, OneCaller, CallerInv, Resting, Running, NoWork, DataRead,
         At

LEMMA InvDataFails ==
  ASSUME ModemInv, OneCaller, NEW c \in Callers, DataFails(c)
  PROVE  ModemInv'
  <1>1. /\ op' = op /\ port' \in BOOLEAN
        /\ todo' = [todo EXCEPT ![c] = <<>>]
    BY GivingUp DEF DataFails, At, ModemInv, CallerInv, Resting, NoWork
  <1> QED
    BY <1>1 DEF ModemInv, TypeOK, OneCaller, CallerInv, Resting, Running, NoWork,
                DataFails, At

LEMMA InvStartRead ==
  ASSUME ModemInv, OneCaller, NEW c \in Callers, StartRead(c)
  PROVE  ModemInv'
  BY DEF ModemInv, TypeOK, OneCaller, CallerInv, Resting, Running, NoWork,
         StartRead, Continue, At, device, counters

LEMMA InvWakes ==
  ASSUME ModemInv, OneCaller, NEW c \in Callers, Wakes(c)
  PROVE  ModemInv'
  BY DEF ModemInv, TypeOK, OneCaller, CallerInv, Resting, Running, NoWork, Wakes,
         service, device, counters

\* The runner has ended, so nothing is outstanding, and the reset makes the
\* service as before the read.
LEMMA InvReturn ==
  ASSUME ModemInv, OneCaller, NEW c \in Callers, Return(c)
  PROVE  ModemInv'
  <1>1. port /\ NoWork /\ c \notin runners
    BY DEF ModemInv, CallerInv, Running, Return, Joined
  <1>2. /\ op' = op /\ port' \in BOOLEAN
        /\ todo' = [c1 \in Callers |-> todo'[c1]]
        /\ todo'[c] # <<>> => port'
    <2>1. CASE GiveUp(c)
      BY <2>1, <1>1, GivingUp DEF ModemInv, TypeOK, NoWork
    <2>2. CASE ReadIgnored(c)
      BY <2>2, <1>1 DEF ModemInv, TypeOK, ReadIgnored
    <2>3. CASE ReadOn(c)
      BY <2>3, <1>1 DEF ModemInv, TypeOK, ReadOn
    <2> QED
      BY <2>1, <2>2, <2>3 DEF Return, ReadFailed
  <1>3. NoWork'
    BY <1>1, <1>2 DEF NoWork, Return
  <1>4. TypeOK'
    BY <1>2 DEF ModemInv, TypeOK, Return
  <1>5. CallerInv(c)'
    BY <1>1, <1>2, <1>3 DEF ModemInv, TypeOK, CallerInv, Resting, Return
  <1> QED
    BY <1>4, <1>5 DEF ModemInv, OneCaller, Return

LEMMA InvCloseBegins ==
  ASSUME ModemInv, OneCaller, NEW c \in Callers, CloseBegins(c)
  PROVE  ModemInv'
  BY DEF ModemInv, TypeOK, OneCaller, CallerInv, Resting, Running, NoWork,
         CloseBegins, CancelTimer, Idle, device, counters

LEMMA InvCloseEnds ==
  ASSUME ModemInv, OneCaller, NEW c \in Callers, CloseEnds(c)
  PROVE  ModemInv'
  <1>1. Resting(c) /\ todo[c] = <<>>
    BY DEF CloseEnds, ModemInv, CallerInv
  <1>2. op' = op /\ port' \in BOOLEAN
    BY <1>1 DEF CloseEnds, ClosePort, Abort, Resting, NoWork, ModemInv, TypeOK
  <1> QED
    BY <1>1, <1>2 DEF ModemInv, TypeOK, OneCaller, CallerInv, Resting, Running, NoWork,
                      CloseEnds

LEMMA InvReadHandler ==
  ASSUME ModemInv, OneCaller, NEW c \in Callers, ReadHandler(c)
  PROVE  ModemInv'
  <1>1. /\ phase[c] = "wait" /\ Running(c) /\ ~ complete[c]
        /\ m_mutex = NoCaller
    BY DEF ReadHandler, ModemInv, TypeOK, CallerInv, Resting, Running, NoWork
  <1>2. c \in runners /\ ~ stopped
    BY <1>1 DEF Running, ReadHandler, Runs
  <1>3. TypeOK'
    <2>1. op' \in [Callers -> {"none", "reading", "data", "aborted"}]
      BY DEF ReadHandler, Continue, ModemInv, TypeOK
    <2>2. complete' = complete \/ complete' = [complete EXCEPT ![c] = TRUE]
      BY DEF ReadHandler, Completed
    <2>3. complete' \in [Callers -> BOOLEAN]
      BY <2>2 DEF ModemInv, TypeOK
    <2>4. timer' \in BOOLEAN /\ fired' \in Nat
      <3>1. timer' = timer \/ timer' = FALSE
        BY DEF ReadHandler, CancelTimer
      <3>2. fired' = fired \/ fired' = fired + 1
        BY DEF ReadHandler, CancelTimer
      <3>3. timer' \in BOOLEAN
        BY <3>1, Zenon DEF ModemInv, TypeOK
      <3>4. fired' \in Nat
        BY <3>2 DEF ModemInv, TypeOK
      <3> QED
        BY <3>3, <3>4
    <2> QED
      BY <2>1, <2>3, <2>4 DEF ReadHandler, ModemInv, TypeOK
  <1>4. complete'[c] <=> op'[c] = "none"
    <2>1. CASE op[c] = "data" /\ ~ Found(c)
      <3>1. complete' = complete /\ op'[c] # "none"
        BY <2>1 DEF ReadHandler, Continue, ModemInv, TypeOK
      <3> QED
        BY <3>1, <1>1
    <2>2. CASE ~ (op[c] = "data" /\ ~ Found(c))
      BY <2>2 DEF ReadHandler, Completed, ModemInv, TypeOK
    <2> QED
      BY <2>1, <2>2
  <1>5. CallerInv(c)'
    BY <1>1, <1>2, <1>4 DEF ReadHandler, CallerInv, Running, ModemInv, TypeOK
  <1> QED
    BY <1>3, <1>5 DEF ModemInv, OneCaller, ReadHandler

LEMMA InvTimerHandler ==
  ASSUME ModemInv, OneCaller, TimerHandler
  PROVE  ModemInv'
  BY DEF ModemInv, TypeOK, OneCaller, CallerInv, Resting, Running, NoWork,
         TimerHandler, Runs, Abort, locals, device, counters

LEMMA InvExpires ==
  ASSUME ModemInv, OneCaller, Expires
  PROVE  ModemInv'
  <1> PICK c \in Callers : c \in runners
    BY DEF Expires, Runs, ModemInv, TypeOK
  <1>1. ~ stopped /\ phase[c] \in {"wait", "join"} /\ Running(c)
    BY DEF Expires, Runs, ModemInv, TypeOK, CallerInv, Resting
  <1>2. TypeOK'
    <2>1. timer' \in BOOLEAN
      BY Zenon DEF Expires
    <2>2. fired' \in Nat
      BY DEF Expires, ModemInv, TypeOK
    <2> QED
      BY <2>1, <2>2 DEF Expires, locals, ModemInv, TypeOK
  <1>3. Running(c)'
    <2>1. /\ complete' = complete /\ op' = op /\ port' = port /\ runners' = runners
          /\ stopped' = stopped
      BY DEF Expires, locals
    <2> QED
      BY <1>1, <2>1 DEF Running
  <1>4. CallerInv(c)'
    <2>1. /\ todo' = todo /\ phase' = phase /\ complete' = complete
          /\ m_mutex' = m_mutex /\ port' = port
      BY DEF Expires, locals
    <2>2. CallerInv(c)
      BY DEF ModemInv
    <2> QED
      BY <1>1, <1>3, <2>1, <2>2 DEF CallerInv
  <1> QED
    BY <1>2, <1>4 DEF ModemInv, OneCaller, Expires

LEMMA InvDataArrives ==
  ASSUME ModemInv, OneCaller, NEW c \in Callers, DataArrives(c)
  PROVE  ModemInv'
  BY DEF ModemInv, TypeOK, OneCaller, CallerInv, Resting, Running, NoWork,
         DataArrives, Runs, counters

LEMMA InvReadBreaks ==
  ASSUME ModemInv, OneCaller, NEW c \in Callers, ReadBreaks(c)
  PROVE  ModemInv'
  BY DEF ModemInv, TypeOK, OneCaller, CallerInv, Resting, Running, NoWork,
         ReadBreaks, Runs, locals, device, counters

LEMMA InvLeaves ==
  ASSUME ModemInv, OneCaller, NEW c \in Callers, Leaves(c)
  PROVE  ModemInv'
  BY DEF ModemInv, TypeOK, OneCaller, CallerInv, Resting, Running, NoWork, Leaves,
         locals, device, counters

LEMMA InvDeviceSends ==
  ASSUME ModemInv, OneCaller, DeviceSends
  PROVE  ModemInv'
  BY DEF ModemInv, TypeOK, OneCaller, CallerInv, Resting, Running, NoWork,
         DeviceSends, locals, service, counters

LEMMA InvStep == ASSUME ModemInv, OneCaller, [Next]_vars PROVE ModemInv'
  <1>1. CASE RunnerSteps
    BY <1>1, InvTimerHandler, InvExpires, InvReadHandler, InvDataArrives, InvReadBreaks,
       InvLeaves DEF RunnerSteps
  <1>2. ASSUME NEW c \in Callers, Proceeds(c) PROVE ModemInv'
    BY <1>2, InvWriteDone, InvWriteFails, InvDataRead, InvDataFails, InvStartRead,
       InvWakes, InvReturn, InvCloseEnds DEF Proceeds
  <1>3. CASE UNCHANGED vars
    BY <1>3 DEF vars, locals, service, ModemInv, TypeOK, CallerInv, Resting, Running,
                NoWork
  <1> QED
    BY <1>1, <1>2, <1>3, InvDeviceSends, InvCloseBegins, InvOptionRefused, InvGive DEF Next

LEMMA ModemInvariant == ASSUME OneCaller PROVE Spec => []ModemInv
  <1>1. ModemInv /\ [Next]_vars => ModemInv'
    BY InvStep
  <1> QED
    BY <1>1, InvInit, PTL DEF Spec

-----------------------------------------------------------------------------
(* The theorems.                                                           *)

\* read_until_timeout(), with one caller: when it has returned, no operation,
\* handler or thread is left that could use its locals or disturb the next read;
\* and the process survives Close().
THEOREM ReadsCleanUp == ASSUME OneCaller PROVE Spec => []AtRest
  <1>1. ModemInv => AtRest
    <2> SUFFICES ASSUME ModemInv, \A a \in Callers : phase[a] \in {"run", "close"}
                 PROVE  /\ NoWork /\ runners = {} /\ ~ stopped
                        /\ m_mutex = NoCaller
      BY DEF AtRest, ModemInv
    <2> PICK c \in Callers : \A a \in Callers : a = c
      BY DEF OneCaller
    <2>1. Resting(c)
      BY DEF ModemInv, CallerInv
    <2> QED
      BY <2>1 DEF Resting, ModemInv, TypeOK
  <1> QED
    BY <1>1, ModemInvariant, PTL

\* Close() and a failing Open(), with one caller: the port is closed only when
\* no read is under way.
THEOREM ClosedAtRest == ASSUME OneCaller PROVE Spec => CloseWaits
  <1>1. ASSUME ModemInv, [Next]_vars, port, ~ port', NEW a \in Callers
        PROVE  op[a] = "none" /\ a \notin runners
    <2> PICK c \in Callers : WriteFails(c) \/ DataFails(c) \/ Return(c) \/ CloseEnds(c)
      BY <1>1 DEF Next, vars, RunnerSteps, Proceeds, TimerHandler, Expires, ReadHandler,
              DataArrives, ReadBreaks, Leaves, DeviceSends, WriteDone, DataRead, StartRead,
              Wakes, CloseBegins, OptionRefused, Give
    <2>1. CASE WriteFails(c) \/ DataFails(c) \/ CloseEnds(c)
      <3>1. Resting(c)
        BY <1>1, <2>1 DEF ModemInv, CallerInv, WriteFails, DataFails, CloseEnds, At
      <3> QED
        BY <3>1, OneCaller DEF OneCaller, Resting, NoWork
    <2>2. CASE Return(c)
      BY <1>1, <2>2, OneCaller
      DEF ModemInv, CallerInv, Running, NoWork, Return, Joined, OneCaller
    <2> QED
      BY <2>1, <2>2
  <1> QED
    <2>1. ModemInv /\ [Next]_vars =>
            [port /\ ~ port' => \A c \in Callers : op[c] = "none" /\ c \notin runners]_vars
      BY <1>1
    <2> QED
      BY <2>1, ModemInvariant, PTL DEF Spec, CloseWaits
=============================================================================
