------------------------ MODULE ModemPrograms_proofs ------------------------
(***************************************************************************)
(* However many programs there are, and whatever their order of steps, the *)
(* lock file is removed by none but its creator, although several may use  *)
(* the modem.                                                              *)
(***************************************************************************)
EXTENDS ModemPrograms, TLAPS

LockInv == LockOwned /\ file \in BOOLEAN /\ stale \in BOOLEAN

\* create() succeeds only if there is no file, so that there is no creator.
LEMMA CreateKeepsLock ==
  ASSUME LockInv, NEW p, create(p)
  PROVE  LockInv'
  <1>1. CASE ~ file /\ file' = TRUE /\ m_created' = m_created \union {p} /\ UNCHANGED stale
    <2>1. m_created = {} /\ stale = FALSE
      BY <1>1 DEF LockInv, LockOwned
    <2> QED
      BY <1>1, <2>1 DEF LockInv, LockOwned
  <1>2. CASE UNCHANGED lock
    BY <1>2 DEF LockInv, LockOwned, lock
  <1> QED
    BY <1>1, <1>2 DEF create

\* Of several objects the creator's removes the file, and the others leave it alone.
LEMMA DestroyKeepsLock ==
  ASSUME LockInv, NEW p, Destroy(p)
  PROVE  LockInv'
  <1>1. CASE p \in m_created
    <2>1. m_created = {p} /\ ~ stale
      BY <1>1 DEF LockInv, LockOwned
    <2>2. file' = FALSE /\ m_created' = {} /\ stale' = stale
      BY <1>1, <2>1 DEF Destroy
    <2> QED
      BY <2>1, <2>2 DEF LockInv, LockOwned
  <1>2. CASE p \notin m_created
    <2>1. file' = file
      BY <1>2 DEF Destroy, LockInv
    <2>2. m_created' = m_created /\ stale' = stale
      BY <1>2 DEF Destroy
    <2> QED
      BY <2>1, <2>2 DEF LockInv, LockOwned
  <1> QED
    BY <1>1, <1>2

\* The file of a program that is killed stays, and is nobody's.
LEMMA LoseKeepsLock ==
  ASSUME LockInv, NEW p, Lose(p)
  PROVE  LockInv'
  <1>1. CASE p \in m_created
    <2>1. m_created = {p} /\ file
      BY <1>1 DEF LockInv, LockOwned
    <2>2. stale' = TRUE /\ m_created' = {} /\ file' = file
      BY <1>1, <2>1 DEF Lose
    <2> QED
      BY <2>1, <2>2 DEF LockInv, LockOwned
  <1>2. CASE p \notin m_created
    <2>1. stale' = stale
      BY <1>2 DEF Lose, LockInv
    <2>2. m_created' = m_created /\ file' = file
      BY <1>2 DEF Lose
    <2> QED
      BY <2>1, <2>2 DEF LockInv, LockOwned
  <1> QED
    BY <1>1, <1>2

\* LockFile: at most one program has the file, it is there as long as one has it or
\* one that had it was killed, and none removes that of another.
THEOREM LockIsOwned == Spec => []LockOwned
  <1>1. Init => LockInv
    BY DEF Init, LockInit, LockInv, LockOwned
  <1>2. LockInv /\ [Next]_vars => LockInv'
    <2> SUFFICES ASSUME LockInv, [Next]_vars
                 PROVE  LockInv'
      OBVIOUS
    <2>1. ASSUME UNCHANGED lock
          PROVE  LockInv'
      BY <2>1 DEF lock, LockInv, LockOwned
    <2>2. ASSUME NEW p \in Programs, Acts(p)
          PROVE  LockInv'
      <3>1. CASE Creates(p)
        BY <3>1, CreateKeepsLock DEF Creates
      <3>2. CASE Leaves(p)
        BY <3>2, DestroyKeepsLock DEF Leaves
      <3>3. CASE Waits(p) \/ WaitsNoMore(p) \/ Opens(p) \/ Works(p) \/ Closes(p)
        BY <2>1, <3>3 DEF Waits, WaitsNoMore, Opens, Works, Closes
      <3>4. CASE SignalHandled(p) \/ TimerHandled(p) \/ OutOfWork(p)
        BY <2>1, <3>4 DEF SignalHandled, TimerHandled, OutOfWork
      <3> QED
        BY <2>2, <3>1, <3>2, <3>3, <3>4 DEF Acts
    <2>3. ASSUME NEW p \in Programs,
                 SignalSeen(p) \/ TimerExpires(p) \/ Launch(p) \/ SendSignal(p)
          PROVE  LockInv'
      BY <2>1, <2>3 DEF SignalSeen, TimerExpires, Launch, SendSignal
    <2>4. ASSUME NEW p \in Programs, Kill(p)
          PROVE  LockInv'
      BY <2>4, LoseKeepsLock DEF Kill
    <2>5. CASE Operator
      BY <2>5 DEF Operator, Clear, LockInv, LockOwned
    <2>6. CASE UNCHANGED vars
      BY <2>1, <2>6 DEF vars
    <2> QED
      BY <2>2, <2>3, <2>4, <2>5, <2>6 DEF Next
  <1>3. LockInv => LockOwned
    BY DEF LockInv
  <1> QED
    BY <1>1, <1>2, <1>3, PTL DEF Spec
=============================================================================
