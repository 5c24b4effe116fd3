------------------------------ MODULE LockFile ------------------------------
(***************************************************************************)
(* LockFile: the file that tells the modem programs that another one has   *)
(* the modem (src/examples/modem/*/LockFile.cpp).  Each program has a      *)
(* LockFile object, which remembers whether it created the file.           *)
(***************************************************************************)
EXTENDS Integers, Sequences

CONSTANT Programs       \* the running modem programs, all with one device

VARIABLES
  file,                 \* is there a lock file?
  m_created,            \* those whose object created it
  stale                 \* was it left behind by a program that was killed?

lock == <<file, m_created, stale>>

\* No object; a file may have been left behind.
LockInit == file \in BOOLEAN /\ stale = file /\ m_created = {}

\* Faulty variant: the creation is not exclusive.
createAnyway(p) ==
  file' = TRUE /\ m_created' = m_created \union {p} /\ UNCHANGED stale

\* LockFile::create(), which does not say that it failed: the file is there, or
\* open() refuses for another reason.
create(p) ==
  \/ /\ ~ file
     /\ file' = TRUE /\ m_created' = m_created \union {p} /\ UNCHANGED stale
  \/ UNCHANGED lock

\* LockFile::~LockFile().
Destroy(p) ==
  /\ file' = (file /\ p \notin m_created)
  /\ m_created' = m_created \ {p}
  /\ UNCHANGED stale

\* The program is killed, and its object is not destroyed.
Lose(p) ==
  /\ stale' = (stale \/ p \in m_created)
  /\ m_created' = m_created \ {p}
  /\ UNCHANGED file

\* An operator removes a file that was left behind.
Clear ==
  /\ stale /\ m_created = {}
  /\ file' = FALSE /\ stale' = FALSE /\ UNCHANGED m_created

\* present(), create(), ~LockFile(): the file is there exactly if one program has it,
\* or none and a program was killed; nobody removes that of another.
LockOwned ==
  /\ \A p, q \in m_created : p = q
  /\ file <=> (m_created # {} \/ stale)
  /\ stale => m_created = {}
=============================================================================
