-------------------------- MODULE InformationElement --------------------------
(***************************************************************************)
(* The information elements that messages consist of, and how they are     *)
(* packed and unpacked (src/InformationElement.cpp, src/IE*.cpp and their  *)
(* headers).                                                               *)
(*                                                                         *)
(* An element is an id and its content, a sequence of fields; a field is a *)
(* sequence of bytes as they stand in the memory of a little-endian host.  *)
(* A layout says of each field where it begins, how many bytes it has, and *)
(* how it is converted when packed (out) and when unpacked (in).           *)
(***************************************************************************)
EXTENDS Integers, SequencesExt

CONSTANTS MaxMoPayload, MaxMtPayload    \* MaxPayloadLength: 1960 and 1890

ASSUME ElementAssumption ==
  /\ MaxMoPayload \in Nat /\ 1 <= MaxMoPayload /\ MaxMoPayload <= 65533
  /\ MaxMtPayload \in Nat /\ 1 <= MaxMtPayload /\ MaxMtPayload <= 65533

eMoHeader == 1
eMoPayload == 2
eMoLocationInfo == 3
eMoConfirmation == 5
eMtHeader == 65
eMtPayload == 66
eMtConfirmationMsg == 68
eMtMsgPriority == 70

Payloads == {eMoPayload, eMtPayload}

\* Those that IEFactory() makes.
Ids == Payloads \union {eMoHeader, eMoLocationInfo, eMoConfirmation, eMtHeader,
                        eMtConfirmationMsg, eMtMsgPriority}

IsMoElem(id) == id \in eMoHeader..eMoConfirmation
IsMtElem(id) == id \in (eMtHeader..eMtMsgPriority) \ {69}
IsMtConfirm(id) == id = eMtConfirmationMsg

MaxPayloadLength(id) == IF id = eMoPayload THEN MaxMoPayload ELSE MaxMtPayload

ElementLength(id) ==
  CASE id = eMoHeader          -> 28
    [] id = eMoLocationInfo    -> 11
    [] id = eMoConfirmation    -> 1
    [] id = eMtHeader          -> 21
    [] id = eMtConfirmationMsg -> 25
    [] id = eMtMsgPriority     -> 2

Field(at, width, out, in) == [at |-> at, width |-> width, out |-> out, in |-> in]
Copied(at, width) == Field(at, width, "copy", "copy")
Swapped(at, width) == Field(at, width, "swap", "swap")

\* The fields that unpack() and packInto() of each element type go through.
IEMoHeader == <<Swapped(0, 4), Copied(4, 15), Copied(19, 1), Swapped(20, 2),
                Swapped(22, 2), Swapped(24, 4)>>
IEMoLocationInfo ==         \* the flags have the size of an unsigned int
  <<Copied(0, 4), Copied(4, 1), Swapped(5, 2), Copied(7, 1), Swapped(8, 2),
    Field(10, 4, "swap16", "swap")>>
IEMoConfirmation == <<Copied(0, 1)>>
IEMtHeader == <<Swapped(0, 4), Copied(4, 15), Field(19, 2, "flags", "copy")>>
IEMtConfirmationMsg == <<Swapped(0, 4), Copied(4, 15), Swapped(19, 4), Swapped(23, 2)>>
IEMtPriority == <<Swapped(0, 2)>>

Layout(id) ==
  CASE id = eMoHeader          -> IEMoHeader
    [] id = eMoLocationInfo    -> IEMoLocationInfo
    [] id = eMoConfirmation    -> IEMoConfirmation
    [] id = eMtHeader          -> IEMtHeader
    [] id = eMtConfirmationMsg -> IEMtConfirmationMsg
    [] id = eMtMsgPriority     -> IEMtPriority

\* The number of bytes that the fields take.
Size(id) == Last(Layout(id)).at + Last(Layout(id)).width

\* htonl() and htons() are ntohl() and ntohs(); htons() of four bytes keeps two.
\* MtMessageFlags::get() leaves out the bits 2 and 6 to 15.
Convert(how, f) ==
  CASE how = "copy"   -> f
    [] how = "swap"   -> Reverse(f)
    [] how = "swap16" -> <<f[2], f[1], 0, 0>>
    [] how = "flags"  -> <<0, 8 * ((f[1] % 64) \div 8) + (f[1] % 4)>>

-----------------------------------------------------------------------------
Word(high, low) == 256 * high + low

\* packInto() truncates a payload ..
Truncated(payload, most) ==
  IF Len(payload) % 65536 > most THEN SubSeq(payload, 1, most) ELSE payload

\* .. and turns a bad priority into the lowest.
Clamped(priority) == IF Word(priority[2], priority[1]) \in 1..5 THEN priority ELSE <<5, 0>>

\* What packInto() makes of the content.
Normal(e) ==
  CASE e.id \in Payloads ->
         [e EXCEPT !.content[1] = Truncated(@, MaxPayloadLength(e.id))]
    [] e.id = eMtMsgPriority -> [e EXCEPT !.content[1] = Clamped(@)]
    [] OTHER -> e

\* Of a normal element: m_length.
getLength(e) == IF e.id \in Payloads THEN Len(e.content[1]) % 65536 ELSE ElementLength(e.id)

\* packInto() of a normal element.
Pack(e) ==
  <<e.id, getLength(e) \div 256, getLength(e) % 256>>
    \o IF e.id \in Payloads THEN e.content[1]
       ELSE FlattenSeq([i \in DOMAIN e.content |->
                          Convert(Layout(e.id)[i].out, e.content[i])])

Length(data) == Word(data[1], data[2])

\* Faulty variant: the length is not compared with what there is.
AcceptsAny(id, data, size) == size >= 2 /\ Length(data) \in 1..MaxPayloadLength(id)

\* unpack() finds a payload, compares its length with what there is, the two bytes
\* of the length included.
AcceptsPayload(id, data, size) ==
  /\ size >= 2
  /\ Length(data) \in 1..MaxPayloadLength(id)
  /\ size >= Length(data)

\* unpack() finds an element.  data[1] is the first byte of the length, size what
\* is left of the message.
Accepts(id, data, size) ==
  IF id \in Payloads
  THEN AcceptsPayload(id, data, size)
  ELSE size >= ElementLength(id) + 2 /\ Length(data) = ElementLength(id)

\* Faulty variant: the length itself is not counted.
ConsumesContent(id, data) == IF id \in Payloads THEN Length(data) ELSE Size(id)

\* What unpack() then returns: the number of bytes consumed.
Consumes(id, data) == 2 + (IF id \in Payloads THEN Length(data) ELSE Size(id))

\* The element that unpack() leaves behind.
Unpacked(id, data) ==
  [id |-> id,
   content |->
     IF id \in Payloads THEN <<SubSeq(data, 3, Length(data) + 2)>>
     ELSE [i \in DOMAIN Layout(id) |->
             LET f == Layout(id)[i]
             IN  Convert(f.in, SubSeq(data, f.at + 3, f.at + f.width + 2))]]
=============================================================================
