-------------------------------- MODULE Codec --------------------------------
(***************************************************************************)
(* Codec: messages are packed, classified and parsed (src/Codec.cpp and    *)
(* MtMessage::serialize() in src/Message.cpp).                             *)
(*                                                                         *)
(* A message is packed by this library, or its bytes come from elsewhere.  *)
(* Its bytes reach a reader, IncomingSbdSession or SbdTransmitter, which   *)
(* calls messageCategory() and, if that is the category it waits for,      *)
(* parse(); a turn of a loop is a step.  Positions count from 0.           *)
(***************************************************************************)
EXTENDS InformationElement

CONSTANTS Messages,     \* sequences of elements that a program packs
          Calls,        \* arguments of factory()
          Streams,      \* messages from elsewhere: sequences of bytes
          Beyond,       \* the bytes that may follow a message in memory: three
          DamagedBytes  \* what a byte may be altered to

VARIABLES
  elements, packed,     \* of the message being packed; how many of them were
  m_length,             \* the length in the header of the serialized message
  raw,                  \* the message's bytes
  beyond, sound,        \* what follows them; are they as they were packed?
  wanted,               \* the category that the reader waits for
  step, currPos,        \* where the reader stands
  category, walked,     \* found so far; the elements seen by messageCategory()
  out,                  \* the elements parsed
  outcome

sender == <<elements, packed, m_length>>
buffer == <<raw, beyond, sound>>
reader == <<wanted, step, currPos, category, walked, out, outcome>>
vars == <<sender, buffer, reader>>

HeaderSize == 3

IdsOf(s) == {s[i].id : i \in DOMAIN s}

\* What factory() does not refuse.
Valid(call) == /\ Len(call.imei) = 15 /\ \A i \in 1..15 : call.imei[i] \in 48..57
               /\ Len(call.payload) \in 1..MaxMtPayload

factory(call) ==
  <<[id |-> eMtHeader, content |-> <<call.msgId, call.imei, call.flags>>],
    [id |-> eMtPayload, content |-> <<call.payload>>],
    [id |-> eMtMsgPriority, content |-> <<call.priority>>]>>

Composed == Messages \union {factory(call) : call \in {c \in Calls : Valid(c)}}

Byte == 0..255

\* A payload is bytes; the other elements have fields, each of a size of its own.
HasLayout(e) ==
  IF e.id \in Payloads
  THEN Len(e.content) = 1
  ELSE /\ Len(e.content) = Len(Layout(e.id))
       /\ \A i \in DOMAIN e.content : Len(e.content[i]) = Layout(e.id)[i].width

Element == {e \in [id : Ids, content : Seq(Seq(Byte))] : HasLayout(e)}

ASSUME CodecAssumption ==
  /\ Composed \subseteq Seq(Element)
  /\ Streams \subseteq Seq(Byte)
  /\ Beyond \subseteq {b \in Seq(Byte) : Len(b) = 3}
  /\ DamagedBytes \subseteq Byte

Init ==
  /\ \/ elements \in Composed
        /\ raw = <<>> /\ sound = TRUE /\ step = "pack"
     \/ elements = <<>>
        /\ raw \in Streams /\ sound = FALSE /\ step = "classify"
  /\ packed = 0 /\ m_length = 0
  /\ beyond \in Beyond
  /\ wanted \in {"eMoMessage", "eMtConfirmMessage"}
  /\ currPos = 0
  /\ category = "eUnknownMessage" /\ walked = {}
  /\ out = <<>> /\ outcome = "none"

-----------------------------------------------------------------------------
(* The sender.                                                             *)

\* Faulty variant: the element's header is not counted.
ContentOnly(e) == getLength(e)

FullLength(e) == getLength(e) + HeaderSize

\* A turn of serialize().
PackElement ==
  /\ step = "pack" /\ packed < Len(elements)
  /\ LET e == Normal(elements[packed + 1])
     IN  /\ elements' = [elements EXCEPT ![packed + 1] = e]
         /\ raw' = raw \o Pack(e)
         /\ m_length' = (m_length + FullLength(e)) % 65536
  /\ packed' = packed + 1
  /\ UNCHANGED <<beyond, sound, reader>>

\* The message goes to the reader; or one that is cut short, or has a byte altered.
Send ==
  /\ step = "pack" /\ packed = Len(elements)
  /\ step' = "classify"
  /\ \/ UNCHANGED <<raw, sound>>
     \/ sound' = FALSE /\ \E k \in 0..(Len(raw) - 1) : raw' = SubSeq(raw, 1, k)
     \/ sound' = FALSE /\ \E k \in DOMAIN raw, b \in DamagedBytes :
                            raw' = [raw EXCEPT ![k] = b]
  /\ UNCHANGED <<sender, beyond, wanted, currPos, category, walked, out, outcome>>

-----------------------------------------------------------------------------
(* The reader.                                                             *)

\* From a position on.
From(pos) == SubSeq(raw \o beyond, pos + 1, Len(raw) + 3)

id == From(currPos)[1]
data == From(currPos + 1)

CategoryOf(e) ==
  CASE IsMoElem(e)    -> "eMoMessage"
    [] IsMtConfirm(e) -> "eMtConfirmMessage"
    [] IsMtElem(e)    -> "eMtMessage"
    [] OTHER          -> "eUnknownMessage"

\* Faulty variant: the first element decides.
FirstDecides == category # "eUnknownMessage" \/ CategoryOf(id) # "eUnknownMessage"

\* The element is of the category found so far, if there is one.
Fits == /\ CategoryOf(id) # "eUnknownMessage"
        /\ category \in {"eUnknownMessage", CategoryOf(id)}

Ends(result) == step' = "done" /\ outcome' = result

\* A turn of messageCategory().
ElementSeen ==
  /\ step = "classify" /\ currPos < Len(raw) /\ Fits
  /\ category' = CategoryOf(id)
  /\ walked' = walked \union {currPos}
  /\ currPos' = currPos + HeaderSize + Length(data)
  /\ UNCHANGED <<sender, buffer, wanted, step, out, outcome>>

MessageUnknown ==
  /\ step = "classify" /\ currPos < Len(raw) /\ ~ Fits
  /\ category' = "eUnknownMessage"
  /\ Ends("refused")
  /\ UNCHANGED <<sender, buffer, wanted, currPos, walked, out>>

Classified ==
  /\ step = "classify" /\ currPos >= Len(raw)
  /\ IF category = wanted
     THEN step' = "parse" /\ currPos' = 0 /\ UNCHANGED outcome
     ELSE Ends("refused") /\ UNCHANGED currPos
  /\ UNCHANGED <<sender, buffer, wanted, category, walked, out>>

\* IEFactory() knows the element, and unpack() finds it.
Parses == id \in Ids /\ Accepts(id, data, Len(raw) - currPos - 1)

\* A turn of parse().
ElementParsed ==
  /\ step = "parse" /\ currPos < Len(raw) /\ Parses
  /\ out' = Append(out, Unpacked(id, data))
  /\ currPos' = currPos + 1 + Consumes(id, data)
  /\ UNCHANGED <<sender, buffer, wanted, step, category, walked, outcome>>

ParseFails ==
  /\ step = "parse" /\ currPos < Len(raw) /\ ~ Parses
  /\ out' = <<>>
  /\ Ends("refused")
  /\ UNCHANGED <<sender, buffer, wanted, currPos, category, walked>>

\* Faulty variant: a message without a payload will do.
RequiredLess == IF wanted = "eMoMessage" THEN {eMoHeader} ELSE {eMtConfirmationMsg}

\* What a message must have: m_header and m_payload, or m_confirmation.
Required == IF wanted = "eMoMessage" THEN {eMoHeader, eMoPayload} ELSE {eMtConfirmationMsg}

Parsed ==
  /\ step = "parse" /\ currPos >= Len(raw)
  /\ IF Required \subseteq IdsOf(out)
     THEN Ends("parsed") /\ UNCHANGED out
     ELSE Ends("refused") /\ out' = <<>>
  /\ UNCHANGED <<sender, buffer, wanted, currPos, category, walked>>

Next == \/ PackElement \/ Send
        \/ ElementSeen \/ MessageUnknown \/ Classified
        \/ ElementParsed \/ ParseFails \/ Parsed

Spec == Init /\ [][Next]_vars

-----------------------------------------------------------------------------
\* Elements that pack and unpack alike; not so an empty payload, the location,
\* and disposition flags, which are not swapped back.
Faithful(e) == /\ e.id \in Payloads => Len(e.content[1]) \in 1..MaxPayloadLength(e.id)
               /\ e.id # eMoLocationInfo
               /\ e.id = eMtHeader => e.content[3] = <<0, 0>>

\* packInto(), unpack(): an element that was packed, whatever follows it, is
\* unpacked to the same content, and what was packed is what is consumed.
RoundTrip ==
  \A i \in 1..packed :
    LET bytes == Tail(Pack(elements[i]))
    IN  Faithful(elements[i]) =>
          /\ Accepts(elements[i].id, bytes \o beyond, Len(bytes))
          /\ Consumes(elements[i].id, bytes \o beyond) = Len(bytes)
          /\ Unpacked(elements[i].id, bytes \o beyond) = elements[i]

\* serialize(): the reader of a message is told its length.
AnnouncedLength ==
  step = "pack" /\ eMoLocationInfo \notin IdsOf(elements) => m_length = Len(raw)

Understandable ==
  /\ \A i \in DOMAIN elements : /\ elements[i].id \in Ids
                                /\ Faithful(elements[i])
                                /\ CategoryOf(elements[i].id) = wanted
  /\ (IF wanted = "eMoMessage" THEN {eMoHeader, eMoPayload} ELSE {eMtConfirmationMsg})
       \subseteq IdsOf(elements)

\* messageCategory(), parse(): a message that arrives as it was packed is parsed to
\* its elements if it is of the kind waited for and has what it must have, and
\* refused otherwise.
Understood ==
  /\ step = "done" /\ sound /\ eMoLocationInfo \notin IdsOf(elements)
  => IF Understandable THEN outcome = "parsed" /\ out = elements
                       ELSE outcome = "refused"

\* parse() knows elements of all kinds, and steps from one to the next by its own
\* reckoning; yet, the location apart, it meets only elements that
\* messageCategory() saw, and so none of another kind.
OwnElements ==
  \A i \in DOMAIN out :
    (\A j \in 1..(i - 1) : out[j].id # eMoLocationInfo) => CategoryOf(out[i].id) = wanted

\* parse(): a message that ends within an element, or in one whose size is not what
\* it seems, makes it read beyond the end, but no more than two bytes, or three
\* if it has a location.
Overread ==
  step = "parse" =>
    currPos <= Len(raw) + (IF eMoLocationInfo \in IdsOf(out) THEN 3 ELSE 2)

\* "Full element size equal content length add HeaderSize" (InformationElement.hpp),
\* and unpack() returns the "number of consumed bytes".
FullElementSize ==
  [][ElementParsed => currPos' = currPos + HeaderSize + Length(data)]_vars
=============================================================================
