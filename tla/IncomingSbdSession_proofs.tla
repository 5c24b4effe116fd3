--------------------- MODULE IncomingSbdSession_proofs ---------------------
(***************************************************************************)
(* A session answers as MoInbox says, and no later than it must, for any   *)
(* connections, streams and ways to cut them up.                           *)
(***************************************************************************)
EXTENDS IncomingSbdSession, SequenceTheorems, TLAPS

Signals == {"message", "error"}

SessionTypeOK ==
  /\ stream \in [Connections -> Streams]
  /\ session \in [Connections -> {"none", "reading", "ended"}]
  /\ m_inBuf \in [Connections -> Nat]
  /\ offset \in [Connections -> Nat]
  /\ m_messageLength \in [Connections -> Nat]
  /\ receiver \in BOOLEAN
  /\ reports \in [Connections -> Seq(Signals)]

\* Only empty headers were taken off the stream.
BeforeHeader(c) ==
  /\ m_messageLength[c] = 0
  /\ \E k \in 0 .. stream[c].empty : offset[c] = HeaderSize * k
  /\ stream[c].empty = 0 => m_inBuf[c] < HeaderSize

\* The message's header was, and the message is not complete.
AfterHeader(c) ==
  /\ stream[c].proto
  /\ m_messageLength[c] = stream[c].length
  /\ offset[c] = HeaderSize * (stream[c].empty + 1)
  /\ m_inBuf[c] < stream[c].length

Fresh(c) == /\ m_messageLength[c] = 0 /\ m_inBuf[c] = 0 /\ offset[c] = 0
            /\ reports[c] = <<>>

Reading(c) == /\ BeforeHeader(c) \/ AfterHeader(c)
              /\ Received(c) <= stream[c].sent
              /\ reports[c] = <<>>

SessionInv == /\ SessionTypeOK
              /\ \A c \in Connections : /\ session[c] = "none" => Fresh(c)
                                        /\ session[c] = "reading" => Reading(c)

USE SessionAssumption

-----------------------------------------------------------------------------
\* A stream has numbers where the arithmetic below needs them.
LEMMA StreamTyping ==
  ASSUME SessionTypeOK, NEW c \in Connections
  PROVE  /\ stream[c].empty \in Nat
         /\ stream[c].proto \in BOOLEAN
         /\ stream[c].length \in Nat /\ stream[c].length > 0
         /\ stream[c].sent \in Nat
  <1>1. stream[c] \in StreamType
    BY DEF SessionTypeOK
  <1> QED
    BY <1>1 DEF StreamType

\* What the handler computes from a chunk of n bytes, by cases.
LEMMA HandlerTyping ==
  ASSUME SessionInv, NEW c \in Connections, session[c] = "reading",
         NEW n \in Chunks(c)
  PROVE  /\ n \in Nat /\ n > 0
         /\ Received(c) \in Nat /\ Received(c) + n <= stream[c].sent
         /\ Size(c, n) \in Nat /\ Length(c, n) \in Nat
         /\ HeaderBytes(c, n) \in {0, HeaderSize}
         /\ Size(c, n) = m_inBuf[c] + n - HeaderBytes(c, n)
         /\ Received(c) + n - Size(c, n) = offset[c] + HeaderBytes(c, n)
  <1>1. /\ m_inBuf[c] \in Nat /\ offset[c] \in Nat /\ m_messageLength[c] \in Nat
    BY DEF SessionInv, SessionTypeOK
  <1>2. /\ stream[c].empty \in Nat /\ stream[c].length \in Nat /\ stream[c].sent \in Nat
    BY StreamTyping DEF SessionInv
  <1>3. Prepared(c) \in Nat
    BY DEF Prepared, HeaderSize
  <1>4. n \in Nat /\ n > 0 /\ Received(c) + n <= stream[c].sent
    BY <1>3 DEF Chunks
  <1>5. Received(c) \in Nat
    BY <1>1 DEF Received
  <1>6. HeaderBytes(c, n) \in {0, HeaderSize} /\ Size(c, n) \in Nat
    BY <1>1, <1>4 DEF HeaderBytes, Size, HeaderComes, HeaderSize
  <1>7. Length(c, n) \in Nat
    BY <1>1, <1>2 DEF Length, HeaderAt
  <1>8. Received(c) + n - Size(c, n) = offset[c] + HeaderBytes(c, n)
    BY <1>1, <1>4, <1>6 DEF Size, Received, HeaderSize
  <1> QED
    BY <1>4, <1>5, <1>6, <1>7, <1>8 DEF Size

\* A complete message starts where the stream's message does.
LEMMA CompleteMeansReceived ==
  ASSUME SessionInv, NEW c \in Connections, session[c] = "reading",
         NEW n \in Chunks(c), Accepted(c, n), Complete(c, n)
  PROVE  /\ stream[c].proto
         /\ Length(c, n) = stream[c].length
         /\ Received(c) + n = HeaderSize * (stream[c].empty + 1) + Size(c, n)
         /\ Inbox!MessageEnd(stream[c]) + (Size(c, n) - Length(c, n)) <= stream[c].sent
  <1>1. /\ stream[c].empty \in Nat /\ stream[c].length \in Nat /\ stream[c].sent \in Nat
        /\ stream[c].proto \in BOOLEAN
    BY StreamTyping DEF SessionInv
  <1>2. /\ m_inBuf[c] \in Nat /\ offset[c] \in Nat
    BY DEF SessionInv, SessionTypeOK
  <1>3. Reading(c)
    BY DEF SessionInv
  <1>4. /\ n \in Nat /\ Size(c, n) \in Nat /\ Received(c) + n <= stream[c].sent
        /\ Received(c) + n - Size(c, n) = offset[c] + HeaderBytes(c, n)
        /\ Received(c) \in Nat
    BY HandlerTyping
  <1>5. /\ stream[c].proto
        /\ Length(c, n) = stream[c].length
        /\ offset[c] + HeaderBytes(c, n) = HeaderSize * (stream[c].empty + 1)
    <2>1. CASE AfterHeader(c)
      <3>1. ~ HeaderComes(c, n)
        BY <2>1, StreamTyping DEF SessionInv, AfterHeader, HeaderComes
      <3> QED
        BY <2>1, <3>1, <1>1, <1>2 DEF AfterHeader, Length, HeaderBytes, HeaderSize
    <2>2. CASE BeforeHeader(c)
      <3>1. HeaderComes(c, n)
        BY <2>2 DEF BeforeHeader, Complete, Length
      <3>2. HeaderAt(c).length > 0 /\ HeaderAt(c).proto
        BY <3>1 DEF Complete, Length, Accepted
      <3>3. ~ (offset[c] < HeaderSize * stream[c].empty)
        BY <3>2 DEF HeaderAt
      <3>4. offset[c] = HeaderSize * stream[c].empty
        BY <3>3, <2>2, <1>1, <1>2 DEF BeforeHeader, HeaderSize
      <3> QED
        BY <3>1, <3>2, <3>3, <3>4, <1>1 DEF HeaderAt, Length, HeaderBytes, HeaderSize
    <2> QED
      BY <2>1, <2>2, <1>3 DEF Reading
  <1>6. Received(c) + n = HeaderSize * (stream[c].empty + 1) + Size(c, n)
    BY <1>1, <1>2, <1>4, <1>5 DEF HeaderBytes, HeaderSize
  <1> QED
    BY <1>1, <1>4, <1>5, <1>6 DEF Inbox!MessageEnd, HeaderSize

-----------------------------------------------------------------------------
\* The first report of a connection is its answer, if there is anyone to tell.
LEMMA FirstReport ==
  ASSUME SessionTypeOK, NEW c \in Connections, reports[c] = <<>>,
         NEW signals \in Seq(Signals), Report(c, signals)
  PROVE  /\ reports' \in [Connections -> Seq(Signals)]
         /\ \A d \in Connections \ {c} : reports'[d] = reports[d]
         /\ \/ reports' = [reports EXCEPT ![c] = signals]
            \/ reports' = reports
  <1>1. <<>> \o signals = signals
    BY ConcatEmptySeq
  <1>2. reports[c] \o signals = signals
    BY <1>1
  <1>3. reports \in [Connections -> Seq(Signals)]
    BY DEF SessionTypeOK
  <1> QED
    BY <1>2, <1>3 DEF Report

\* What the handler consumes, and what is left in the buffer.
LEMMA Consuming ==
  ASSUME SessionInv, NEW c \in Connections, session[c] = "reading",
         NEW n \in Chunks(c), NEW rest \in Nat, rest <= Size(c, n), Consume(c, n, rest)
  PROVE  /\ m_inBuf' \in [Connections -> Nat] /\ offset' \in [Connections -> Nat]
         /\ m_inBuf'[c] = rest
         /\ offset'[c] = Received(c) + n - rest
         /\ \A d \in Connections \ {c} : m_inBuf'[d] = m_inBuf[d] /\ offset'[d] = offset[d]
  <1>1. m_inBuf \in [Connections -> Nat] /\ offset \in [Connections -> Nat]
    BY DEF SessionInv, SessionTypeOK
  <1>2. Received(c) + n - rest \in Nat
    BY HandlerTyping, <1>1 DEF HeaderBytes, HeaderSize, Size
  <1> QED
    BY <1>1, <1>2 DEF Consume

\* A connection that no step is about stays as it was.
LEMMA OtherConnections ==
  ASSUME SessionInv, SessionTypeOK', stream' = stream, NEW c \in Connections,
         \A d \in Connections \ {c} :
            /\ session'[d] = session[d] /\ reports'[d] = reports[d]
            /\ m_inBuf'[d] = m_inBuf[d] /\ offset'[d] = offset[d]
            /\ m_messageLength'[d] = m_messageLength[d],
         session'[c] = "none" => Fresh(c)',
         session'[c] = "reading" => Reading(c)'
  PROVE  SessionInv'
  <1>1. ASSUME NEW d \in Connections \ {c}
        PROVE  /\ (session[d] = "none" => Fresh(d))'
               /\ (session[d] = "reading" => Reading(d))'
    BY <1>1 DEF SessionInv, Fresh, Reading, BeforeHeader, AfterHeader, Received
  <1> QED
    BY <1>1 DEF SessionInv

-----------------------------------------------------------------------------
(* The steps.                                                              *)

LEMMA InvInit == SessionInit => SessionInv
  <1> SUFFICES ASSUME SessionInit PROVE SessionInv
    OBVIOUS
  <1>1. SessionTypeOK
    BY DEF SessionInit, SessionTypeOK
  <1> QED
    BY <1>1 DEF SessionInit, SessionInv, Fresh

LEMMA InvBegin ==
  ASSUME SessionInv, NEW c \in Connections, Begin(c)
  PROVE  SessionInv'
  <1>1. session[c] = "none" /\ session' = [session EXCEPT ![c] = "reading"]
    BY DEF Begin, run
  <1>2. SessionTypeOK'
    BY <1>1 DEF SessionInv, SessionTypeOK, Begin, run, buffer
  <1>3. Reading(c)'
    <2>1. Fresh(c)
      BY <1>1 DEF SessionInv
    <2>2. stream[c].empty \in Nat /\ stream[c].sent \in Nat
      BY StreamTyping DEF SessionInv
    <2> QED
      BY <2>1, <2>2 DEF Begin, buffer, Fresh, Reading, BeforeHeader, Received, HeaderSize
  <1>4. session \in [Connections -> {"none", "reading", "ended"}]
    BY DEF SessionInv, SessionTypeOK
  <1> QED
    BY <1>1, <1>2, <1>3, <1>4, OtherConnections DEF Begin, buffer

\* A step that ends a session after reporting it.
LEMMA InvEnd ==
  ASSUME SessionInv, NEW c \in Connections, session[c] = "reading",
         End(c), NEW signals \in Seq(Signals), Report(c, signals),
         stream' = stream, receiver' = receiver,
         m_inBuf' \in [Connections -> Nat], offset' \in [Connections -> Nat],
         m_messageLength' \in [Connections -> Nat],
         \A d \in Connections \ {c} :
            /\ m_inBuf'[d] = m_inBuf[d] /\ offset'[d] = offset[d]
            /\ m_messageLength'[d] = m_messageLength[d]
  PROVE  SessionInv'
  <1>1. reports[c] = <<>> /\ SessionTypeOK
    BY DEF SessionInv, Reading
  <1>2. /\ reports' \in [Connections -> Seq(Signals)]
        /\ \A d \in Connections \ {c} : reports'[d] = reports[d]
    BY <1>1, FirstReport
  <1>3. /\ session' \in [Connections -> {"none", "reading", "ended"}]
        /\ session'[c] = "ended"
        /\ \A d \in Connections \ {c} : session'[d] = session[d]
    BY <1>1 DEF End, SessionTypeOK
  <1>4. SessionTypeOK'
    BY <1>1, <1>2, <1>3 DEF SessionTypeOK
  <1> QED
    BY <1>2, <1>3, <1>4, OtherConnections

\* The signals of the handler.
LEMMA SignalsTyping == /\ <<"error">> \in Seq(Signals) /\ <<"message">> \in Seq(Signals)
                       /\ <<"message", "error">> \in Seq(Signals)
  BY DEF Signals

LEMMA InvRead ==
  ASSUME SessionInv, NEW c \in Connections, onRead(c)
  PROVE  SessionInv'
  <1>0. /\ session[c] = "reading" /\ stream' = stream /\ receiver' = receiver
    BY DEF onRead, ReadFails, BytesReceived
  <1>1. /\ m_inBuf \in [Connections -> Nat] /\ offset \in [Connections -> Nat]
        /\ m_messageLength \in [Connections -> Nat]
        /\ session \in [Connections -> {"none", "reading", "ended"}]
    BY DEF SessionInv, SessionTypeOK
  <1>2. CASE ReadFails(c)
    BY <1>0, <1>1, <1>2, InvEnd, SignalsTyping DEF ReadFails, buffer
  <1>3. CASE BytesReceived(c)
    <2> PICK n \in Chunks(c) : \/ HeaderRefused(c, n) \/ ReadOn(c, n)
                               \/ MessageRefused(c, n) \/ MessageReported(c, n)
      BY <1>3 DEF BytesReceived
    <2>1. /\ n \in Nat /\ n > 0 /\ Size(c, n) \in Nat /\ Length(c, n) \in Nat
          /\ Received(c) + n <= stream[c].sent
          /\ Received(c) + n - Size(c, n) = offset[c] + HeaderBytes(c, n)
          /\ Size(c, n) = m_inBuf[c] + n - HeaderBytes(c, n)
      BY <1>0, HandlerTyping
    <2>2. CASE HeaderRefused(c, n)
      <3>1. /\ m_inBuf' \in [Connections -> Nat] /\ offset' \in [Connections -> Nat]
            /\ \A d \in Connections \ {c} : m_inBuf'[d] = m_inBuf[d] /\ offset'[d] = offset[d]
        BY <1>0, <2>1, <2>2, Consuming DEF HeaderRefused
      <3> QED
        BY <1>0, <1>1, <2>2, <3>1, InvEnd, SignalsTyping DEF HeaderRefused
    <2>3. CASE MessageRefused(c, n)
      <3>1. /\ m_inBuf' \in [Connections -> Nat] /\ offset' \in [Connections -> Nat]
            /\ \A d \in Connections \ {c} : m_inBuf'[d] = m_inBuf[d] /\ offset'[d] = offset[d]
        BY <1>0, <2>1, <2>3, Consuming DEF MessageRefused
      <3> QED
        BY <1>0, <1>1, <2>1, <2>3, <3>1, InvEnd, SignalsTyping DEF MessageRefused
    <2>4. CASE MessageReported(c, n)
      <3>1. /\ Size(c, n) - Length(c, n) \in Nat
            /\ Size(c, n) - Length(c, n) <= Size(c, n)
        BY <2>1, <2>4 DEF MessageReported, Complete
      <3>2. /\ m_inBuf' \in [Connections -> Nat] /\ offset' \in [Connections -> Nat]
            /\ \A d \in Connections \ {c} : m_inBuf'[d] = m_inBuf[d] /\ offset'[d] = offset[d]
        BY <1>0, <3>1, <2>4, Consuming DEF MessageReported
      <3> QED
        BY <1>0, <1>1, <2>1, <2>4, <3>2, InvEnd, SignalsTyping DEF MessageReported
    <2>5. CASE ReadOn(c, n)
      <3>1. /\ m_inBuf' \in [Connections -> Nat] /\ offset' \in [Connections -> Nat]
            /\ m_inBuf'[c] = Size(c, n) /\ offset'[c] = offset[c] + HeaderBytes(c, n)
            /\ \A d \in Connections \ {c} : m_inBuf'[d] = m_inBuf[d] /\ offset'[d] = offset[d]
        BY <1>0, <2>1, <2>5, Consuming DEF ReadOn
      <3>2. /\ m_messageLength' \in [Connections -> Nat]
            /\ m_messageLength'[c] = Length(c, n)
            /\ \A d \in Connections \ {c} : m_messageLength'[d] = m_messageLength[d]
        BY <1>1, <2>1, <2>5 DEF ReadOn
      <3>3. SessionTypeOK'
        BY <1>0, <3>1, <3>2, <2>5 DEF ReadOn, SessionInv, SessionTypeOK
      <3>4. Reading(c)'
        <4>1. /\ stream[c].empty \in Nat /\ stream[c].length \in Nat /\ stream[c].sent \in Nat
              /\ stream[c].length > 0
          BY StreamTyping DEF SessionInv
        <4>2. m_inBuf[c] \in Nat /\ offset[c] \in Nat
          BY <1>1
        <4>3. Reading(c)
          BY <1>0 DEF SessionInv
        <4>4. (reports[c] = <<>> /\ Received(c) <= stream[c].sent)'
          BY <4>1, <4>2, <4>3, <1>0, <2>1, <2>5, <3>1 DEF Reading, ReadOn, Received
        <4>5. CASE ~ HeaderComes(c, n)
          <5>1. /\ HeaderBytes(c, n) = 0 /\ Length(c, n) = m_messageLength[c]
            BY <4>5 DEF HeaderBytes, Length
          <5>2. offset'[c] = offset[c] /\ m_inBuf'[c] = m_inBuf[c] + n
            BY <5>1, <2>1, <3>1, <4>2
          <5>3. CASE BeforeHeader(c)
            <6>1. m_messageLength'[c] = 0 /\ m_inBuf'[c] < HeaderSize
              BY <5>1, <5>2, <5>3, <3>2, <4>2, <4>5, <2>1 DEF BeforeHeader, HeaderComes, HeaderSize
            <6> QED
              BY <6>1, <5>2, <5>3, <1>0, <4>4 DEF BeforeHeader, Reading
          <5>4. CASE AfterHeader(c)
            <6>1. Length(c, n) = stream[c].length
              BY <5>1, <5>4 DEF AfterHeader
            <6>2. m_inBuf'[c] < stream[c].length
              BY <6>1, <2>1, <2>5, <3>1, <4>1 DEF ReadOn, Complete
            <6> QED
              BY <6>1, <6>2, <5>2, <5>4, <3>2, <1>0, <4>4 DEF AfterHeader, Reading
          <5> QED
            BY <5>3, <5>4, <4>3 DEF Reading
        <4>6. CASE HeaderComes(c, n)
          <5>1. /\ HeaderBytes(c, n) = HeaderSize /\ Length(c, n) = HeaderAt(c).length
                /\ HeaderAt(c).proto
            BY <4>6, <2>5 DEF HeaderBytes, Length, ReadOn, Accepted
          <5>2. BeforeHeader(c)
            BY <4>1, <4>3, <4>6 DEF Reading, AfterHeader, HeaderComes
          <5> PICK k \in 0 .. stream[c].empty : offset[c] = HeaderSize * k
            BY <5>2 DEF BeforeHeader
          <5>3. CASE k < stream[c].empty
            <6>1. Length(c, n) = 0
              BY <5>1, <5>3, <4>1 DEF HeaderAt, HeaderSize
            <6>2. k + 1 \in 0 .. stream[c].empty /\ offset'[c] = HeaderSize * (k + 1)
              BY <5>1, <5>3, <3>1, <4>1 DEF HeaderSize
            <6>3. stream[c].empty # 0
              BY <5>3, <4>1
            <6> QED
              BY <6>1, <6>2, <6>3, <3>2, <1>0, <4>4 DEF BeforeHeader, Reading
          <5>4. CASE k = stream[c].empty
            <6>1. HeaderAt(c) = [proto |-> stream[c].proto, length |-> stream[c].length]
              BY <5>4, <4>1 DEF HeaderAt, HeaderSize
            <6>2. Length(c, n) = stream[c].length /\ stream[c].proto
              BY <6>1, <5>1
            <6>3. m_inBuf'[c] < stream[c].length
              BY <6>2, <2>1, <2>5, <3>1, <4>1 DEF ReadOn, Complete
            <6>4. offset'[c] = HeaderSize * (stream[c].empty + 1)
              BY <5>1, <5>4, <3>1, <4>1 DEF HeaderSize
            <6> QED
              BY <6>2, <6>3, <6>4, <3>2, <1>0, <4>4 DEF AfterHeader, Reading
          <5> QED
            BY <5>3, <5>4, <4>1
        <4> QED
          BY <4>5, <4>6
      <3>5. session' = session /\ reports' = reports
        BY <2>5 DEF ReadOn
      <3> QED
        BY <1>0, <3>1, <3>2, <3>3, <3>4, <3>5, OtherConnections
    <2> QED
      BY <2>2, <2>3, <2>4, <2>5
  <1> QED
    BY <1>2, <1>3 DEF onRead

LEMMA InvNext == SessionInv /\ [SessionNext]_sessionVars => SessionInv'
  <1> SUFFICES ASSUME SessionInv, [SessionNext]_sessionVars PROVE SessionInv'
    OBVIOUS
  <1>1. CASE ReceiverGoes
    BY <1>1 DEF ReceiverGoes, buffer, SessionInv, SessionTypeOK, Fresh, Reading,
                BeforeHeader, AfterHeader, Received
  <1>2. CASE \E c \in Connections : Begin(c) \/ onRead(c)
    BY <1>2, InvBegin, InvRead
  <1>3. CASE UNCHANGED sessionVars
    BY <1>3 DEF sessionVars, buffer, SessionInv, SessionTypeOK, Fresh, Reading,
                BeforeHeader, AfterHeader, Received
  <1> QED
    BY <1>1, <1>2, <1>3 DEF SessionNext

LEMMA InvPrompt == SessionInv => Prompt
  <1> SUFFICES ASSUME SessionInv, NEW c \in Connections,
                      session[c] = "reading", stream[c].empty = 0
               PROVE  Received(c) < IF stream[c].proto THEN Inbox!MessageEnd(stream[c])
                                    ELSE HeaderSize
    BY DEF Prompt
  <1>1. Reading(c)
    BY DEF SessionInv
  <1>2. /\ m_inBuf[c] \in Nat /\ offset[c] \in Nat
        /\ stream[c].length \in Nat /\ stream[c].length > 0 /\ stream[c].proto \in BOOLEAN
    BY StreamTyping DEF SessionInv, SessionTypeOK
  <1>3. CASE BeforeHeader(c)
    BY <1>2, <1>3 DEF BeforeHeader, Received, HeaderSize, Inbox!MessageEnd
  <1>4. CASE AfterHeader(c)
    BY <1>2, <1>4 DEF AfterHeader, Received, HeaderSize, Inbox!MessageEnd
  <1> QED
    BY <1>1, <1>3, <1>4 DEF Reading

-----------------------------------------------------------------------------
(* Every report is an answer of the inbox.                                 *)

\* Report() answers, or nobody is told.
LEMMA ReportAnswers ==
  ASSUME SessionInv, NEW c \in Connections, session[c] = "reading",
         NEW signals \in Seq(Signals), signals \in Inbox!Answers(stream[c]),
         Report(c, signals), stream' = stream
  PROVE  Inbox!Next \/ reports' = reports
  <1>1. reports[c] = <<>> /\ SessionTypeOK
    BY DEF SessionInv, Reading
  <1>2. reports' = [reports EXCEPT ![c] = signals] \/ reports' = reports
    BY <1>1, FirstReport
  <1> QED
    BY <1>1, <1>2 DEF Inbox!Next, Inbox!Answer

\* An error is an answer if the message is not all there, or no message.
LEMMA ErrorAnswers ==
  ASSUME NEW s, ~ Inbox!HasMessage(s) \/ s.empty > 0
  PROVE  <<"error">> \in Inbox!Answers(s)
  <1>1. /\ <<"error">> # <<"message", "error">> /\ Head(<<"error">>) = "error"
    OBVIOUS
  <1> QED
    BY <1>1 DEF Inbox!Answers

\* A message is one if it is all there, and so is what follows it.
LEMMA MessageAnswers ==
  ASSUME NEW s, Inbox!HasMessage(s)
  PROVE  /\ <<"message">> \in Inbox!Answers(s)
         /\ s.sent > Inbox!MessageEnd(s) => <<"message", "error">> \in Inbox!Answers(s)
  <1>1. /\ <<"message">> # <<"message", "error">> /\ <<"message">> # <<"error">>
        /\ <<"message", "error">> # <<"error">>
    OBVIOUS
  <1> QED
    BY <1>1 DEF Inbox!Answers

LEMMA ReadAnswers ==
  ASSUME SessionInv, NEW c \in Connections, onRead(c)
  PROVE  Inbox!Next \/ UNCHANGED <<stream, reports>>
  <1>0. session[c] = "reading" /\ stream' = stream
    BY DEF onRead, ReadFails, BytesReceived
  <1>1. /\ stream[c].empty \in Nat /\ stream[c].length \in Nat /\ stream[c].sent \in Nat
        /\ stream[c].proto \in BOOLEAN
    BY StreamTyping DEF SessionInv
  <1>2. CASE ReadFails(c)
    <2>1. stream[c].empty = 0 =>
            stream[c].sent < IF stream[c].proto THEN Inbox!MessageEnd(stream[c]) ELSE HeaderSize
      BY <1>0, <1>2, InvPrompt DEF Prompt, ReadFails
    <2>2. ~ Inbox!HasMessage(stream[c]) \/ stream[c].empty > 0
      BY <2>1, <1>1 DEF Inbox!HasMessage, Inbox!MessageEnd, HeaderSize
    <2> QED
      BY <2>2, <1>0, <1>2, ErrorAnswers, ReportAnswers, SignalsTyping DEF ReadFails
  <1>3. CASE BytesReceived(c)
    <2> PICK n \in Chunks(c) : \/ HeaderRefused(c, n) \/ ReadOn(c, n)
                               \/ MessageRefused(c, n) \/ MessageReported(c, n)
      BY <1>3 DEF BytesReceived
    <2>2. CASE HeaderRefused(c, n)
      <3>1. ~ stream[c].proto
        BY <2>2 DEF HeaderRefused, Accepted, HeaderAt
      <3>2. ~ Inbox!HasMessage(stream[c])
        BY <3>1 DEF Inbox!HasMessage
      <3> QED
        BY <3>2, <1>0, <2>2, ErrorAnswers, ReportAnswers, SignalsTyping DEF HeaderRefused
    <2>3. CASE MessageRefused(c, n)
      <3>1. ~ Inbox!HasMessage(stream[c])
        BY <2>3 DEF MessageRefused, Inbox!HasMessage
      <3> QED
        BY <3>1, <1>0, <2>3, ErrorAnswers, ReportAnswers, SignalsTyping DEF MessageRefused
    <2>4. CASE MessageReported(c, n)
      <3>1. /\ stream[c].proto
            /\ Inbox!MessageEnd(stream[c]) + (Size(c, n) - Length(c, n)) <= stream[c].sent
        BY <1>0, <2>4, CompleteMeansReceived DEF MessageReported
      <3>2. Size(c, n) - Length(c, n) \in Nat
        BY <1>0, <2>4, HandlerTyping DEF MessageReported, Complete
      <3>3. Inbox!MessageEnd(stream[c]) \in Nat
        BY <1>1 DEF Inbox!MessageEnd, HeaderSize
      <3>4. /\ Inbox!HasMessage(stream[c])
            /\ Size(c, n) - Length(c, n) > 0 => stream[c].sent > Inbox!MessageEnd(stream[c])
        BY <1>1, <2>4, <3>1, <3>2, <3>3 DEF MessageReported, Inbox!HasMessage
      <3> DEFINE signals == IF Size(c, n) - Length(c, n) > 0
                            THEN <<"message", "error">> ELSE <<"message">>
      <3>5. signals \in Inbox!Answers(stream[c]) /\ signals \in Seq(Signals)
        BY <3>4, MessageAnswers, SignalsTyping
      <3>6. Report(c, signals)
        BY <2>4 DEF MessageReported
      <3> HIDE DEF signals
      <3> QED
        BY <3>5, <3>6, <1>0, ReportAnswers
    <2>5. CASE ReadOn(c, n)
      BY <1>0, <2>5 DEF ReadOn
    <2> QED
      BY <2>2, <2>3, <2>4, <2>5
  <1> QED
    BY <1>2, <1>3 DEF onRead

LEMMA SessionAnswers ==
  SessionInv /\ [SessionNext]_sessionVars => [Inbox!Next]_<<stream, reports>>
  <1> SUFFICES ASSUME SessionInv, [SessionNext]_sessionVars
               PROVE  Inbox!Next \/ UNCHANGED <<stream, reports>>
    OBVIOUS
  <1>1. CASE ReceiverGoes \/ UNCHANGED sessionVars
    BY <1>1 DEF ReceiverGoes, sessionVars
  <1>2. CASE \E c \in Connections : Begin(c)
    BY <1>2 DEF Begin
  <1>3. CASE \E c \in Connections : onRead(c)
    BY <1>3, ReadAnswers
  <1> QED
    BY <1>1, <1>2, <1>3 DEF SessionNext

-----------------------------------------------------------------------------
(* The theorems.                                                           *)

LEMMA SessionInvariant == SessionSpec => []SessionInv
  <1> QED
    BY InvInit, InvNext, PTL DEF SessionSpec

\* onRead(): a session reads on only while its message, or a header that would
\* end it, is not all there, for any stream that does not open with an empty
\* header.
THEOREM SessionIsPrompt == SessionSpec => []Prompt
  <1> QED
    BY SessionInvariant, InvPrompt, PTL

\* onRead(): however streams are cut into chunks, each is reported at most once
\* and as it deserves: as a message exactly if it holds one.
THEOREM SessionIsInbox == SessionSpec => ImplementsInbox
  <1>1. SessionInit => Inbox!Init
    BY DEF SessionInit, Inbox!Init
  <1> QED
    BY <1>1, SessionInvariant, SessionAnswers, PTL
    DEF SessionSpec, ImplementsInbox, Inbox!Spec
=============================================================================
