------------------------------- MODULE MCCodec -------------------------------
(* Messages for TLC: payloads up to one byte longer than allowed. *)
EXTENDS Codec

Imei == [i \in 1..15 |-> 48 + (i % 10)]
Of(i, content) == [id |-> i, content |-> content]

Header == Of(eMoHeader, <<<<1, 2, 3, 4>>, Imei, <<10>>, <<5, 6>>, <<7, 0>>, <<8, 9, 0, 1>>>>)
Payload(n) == Of(eMoPayload, <<[i \in 1..n |-> i]>>)
MtPayload(n) == Of(eMtPayload, <<[i \in 1..n |-> i]>>)
Confirmation == Of(eMtConfirmationMsg, <<<<1, 2, 3, 4>>, Imei, <<5, 6, 7, 8>>, <<254, 255>>>>)
Priority(n) == Of(eMtMsgPriority, <<<<n, 0>>>>)
Location == Of(eMoLocationInfo, <<<<64, 0, 0, 0>>, <<45>>, <<1, 2>>, <<90>>, <<3, 4>>, <<5, 6, 0, 0>>>>)
MoConfirmation == Of(eMoConfirmation, <<<<1>>>>)

MCElements == {Header, Payload(0), Payload(1), Payload(5), Location, MoConfirmation,
               MtPayload(1), MtPayload(3), Confirmation, Priority(2), Priority(0)}

\* All pairs, and the messages with three elements that the gateway sends.
MCMessages == {<<e>> : e \in MCElements} \union (MCElements \X MCElements)
                \union {<<Header, Payload(4), e>> : e \in MCElements}

MCCalls == [msgId : {<<1, 0, 0, 0>>}, imei : {Imei, Tail(Imei)},
            payload : {<<>>, <<1>>, <<1, 2>>, <<1, 2, 3>>},
            flags : {<<0, 0>>, <<32, 0>>}, priority : {<<5, 0>>, <<9, 0>>}]

\* As the gateway packs a location: eleven bytes.
GatewayLocation == <<3, 0, 11, 64, 45, 2, 1, 90, 4, 3, 0, 0, 6, 5>>

MCStreams == {Pack(Header) \o s : s \in {Pack(Payload(1)) \o GatewayLocation,
                                         GatewayLocation \o Pack(Payload(1)),
                                         Pack(Payload(1)) \o <<4, 0, 1, 9>>,
                                         Pack(Payload(1)) \o <<2>>,
                                         <<2, 0, 2>>, <<2, 0, 2, 9>>}}
               \union {<<>>, Pack(Confirmation) \o <<67, 0, 0>>}

MCBeyond == {<<0, 0, 0>>, <<0, 1, 66>>}
=============================================================================
