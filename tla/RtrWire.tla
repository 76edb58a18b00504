------------------------------ MODULE RtrWire ------------------------------
(***************************************************************************)
(* The bytes of an RTR connection (rtr/codec.go): the encoders, the reader *)
(* that cuts the stream into PDUs and decodes them, and the read deadline  *)
(* that may pass in the middle of one.  Rtr models what the client makes   *)
(* of whole PDUs.                                                          *)
(***************************************************************************)
EXTENDS Integers, Sequences, SequencesExt

CONSTANTS
  Messages, (* what the peer may send: its bytes, and what they mean *)
  MaxPdus   (* bound on the PDUs of one connection                   *)

Byte == 0 .. 255

ASSUME RtrWireAssumption == MaxPdus \in Nat /\ \A m \in Messages : m.bytes \in Seq(Byte)

VARIABLES
  wire,     (* bytes sent and not yet read                                *)
  unread,   (* auxiliary: the messages those bytes are, while aligned     *)
  aligned,  (* auxiliary: no read deadline passed in the middle of a PDU  *)
  returned, (* auxiliary: the last read, as {<<meaning, value returned>>} *)
  synced,   (* Client.hasSerial                                           *)
  reader    (* "session", or "ended" once session has returned            *)

wireVars == <<wire, unread, aligned, returned, synced, reader>>

WireInit ==
  /\ wire = <<>> /\ unread = <<>> /\ aligned = TRUE /\ returned = {}
  /\ synced \in BOOLEAN
  /\ reader = "session"

-----------------------------------------------------------------------------
(* Encoders                                                                *)

ProtocolVersion == 1
HeaderLen == 8
MaxPduLen == 1024 * 1024

Type == [notify |-> 0, serialQuery |-> 1, resetQuery |-> 2, response |-> 3, v4 |-> 4, v6 |-> 6,
         eod |-> 7, cacheReset |-> 8, routerKey |-> 9, error |-> 10]

U16(n) == <<n \div 256, n % 256>>
U32(n) ==
  <<n \div (256 * 256 * 256), (n \div (256 * 256)) % 256, (n \div 256) % 256, n % 256>>

PutHeader(type, session, length) == <<ProtocolVersion, type>> \o U16(session) \o U32(length)

Pdu(type, session, body) == PutHeader(type, session, HeaderLen + Len(body)) \o body

EncodePrefix(announce, addr, len, maxLen, asn) ==
  Pdu(IF Len(addr) = 16 THEN Type.v6 ELSE Type.v4, 0,
      <<IF announce THEN 1 ELSE 0, len, maxLen, 0>> \o addr \o U32(asn))

EncodeEndOfData(session, serial, refresh, retry, expire) ==
  Pdu(Type.eod, session, U32(serial) \o U32(refresh) \o U32(retry) \o U32(expire))

-----------------------------------------------------------------------------
(* Decoders                                                                *)

\* n bytes of b after the first k.
Part(b, k, n) == SubSeq(b, k + 1, k + n)

U16At(b, k) == 256 * b[k + 1] + b[k + 2]

\* The huge numbers are all beyond every length, and alike.
Huge == 64 * 256 * 256 * 256

U32At(b, k) ==
  IF b[k + 1] >= 64 THEN Huge
  ELSE 256 * (256 * (256 * b[k + 1] + b[k + 2]) + b[k + 3]) + b[k + 4]

\* netip's Masked: the host bits of every byte cleared.
MaskBytes(addr, len) ==
  [k \in DOMAIN addr |->
     LET host == 8 * k - len
     IN  IF host <= 0 THEN addr[k] ELSE IF host >= 8 THEN 0 ELSE addr[k] - (addr[k] % 2 ^ host)]

DecodeFailed == [type |-> "failed"]

DecodePrefix(body, addrLen) ==
  LET addr == Part(body, 4, addrLen)
  IN  IF Len(body) < 4 + addrLen + 4 \/ body[2] > 8 * addrLen THEN DecodeFailed
      ELSE [type |-> "prefix", announce |-> body[1] % 2 = 1, addr |-> MaskBytes(addr, body[2]),
            len |-> body[2], maxLen |-> body[3], asn |-> U32At(body, 4 + addrLen)]

\* The text of an error report whose two lengths do not fit the body is dropped.
ErrorText(body) ==
  IF Len(body) < 4 THEN <<>>
  ELSE LET off == 4 + U32At(body, 0)
       IN  IF off + 4 > Len(body) \/ off + 4 + U32At(body, off) > Len(body) THEN <<>>
           ELSE Part(body, off + 4, U32At(body, off))

\* A serial query or notify.
WithSerial(name, session, body) ==
  IF Len(body) < 4 THEN DecodeFailed
  ELSE [type |-> name, session |-> session, serial |-> U32At(body, 0)]

\* readPDU's switch.
DecodeBody(type, session, body) ==
  CASE type = Type.resetQuery  -> [type |-> "resetQuery"]
    [] type = Type.serialQuery -> WithSerial("serialQuery", session, body)
    [] type = Type.notify      -> WithSerial("notify", session, body)
    [] type = Type.response    -> [type |-> "response", session |-> session]
    [] type = Type.cacheReset  -> [type |-> "cacheReset"]
    [] type = Type.v4          -> DecodePrefix(body, 4)
    [] type = Type.v6          -> DecodePrefix(body, 16)
    [] type = Type.eod         ->
         IF Len(body) < 16 THEN DecodeFailed
         ELSE [type |-> "eod", session |-> session, serial |-> U32At(body, 0),
               refresh |-> U32At(body, 4), retry |-> U32At(body, 8), expire |-> U32At(body, 12)]
    [] type = Type.routerKey   -> [type |-> "routerKey"]
    [] type = Type.error       ->
         [type |-> "error", code |-> session, text |-> ErrorText(body)]
    [] OTHER                   -> DecodeFailed

Length(b) == U32At(b, 4)
LengthOK(b) == Length(b) >= HeaderLen /\ Length(b) <= MaxPduLen

\* The bytes readPDU takes off a connection that holds b, once they are there.
Needed(b) == IF Len(b) < HeaderLen \/ ~LengthOK(b) THEN HeaderLen ELSE Length(b)

\* What it returns then.
Decoded(b) ==
  IF LengthOK(b)
  THEN DecodeBody(b[2], U16At(b, 2), Part(b, HeaderLen, Length(b) - HeaderLen))
  ELSE DecodeFailed

\* A message is what is taken off a connection that holds no more than it.
ASSUME MessagesAreWhole ==
  \A m \in Messages : Needed(m.bytes) = Len(m.bytes) /\ Decoded(m.bytes) = m.means

-----------------------------------------------------------------------------

PeerSends(m) ==
  /\ reader = "session" /\ Len(unread) < MaxPdus
  /\ wire' = wire \o m.bytes
  /\ unread' = Append(unread, m)
  /\ UNCHANGED <<aligned, returned, synced, reader>>

\* session on what readPDU returned, which took n bytes off the connection.
Returns(value, n) ==
  /\ wire' = Part(wire, n, Len(wire) - n)
  /\ unread' = IF aligned THEN Tail(unread) ELSE unread
  /\ returned' = IF aligned THEN {<<Head(unread).means, value>>} ELSE {}
  /\ synced' = (synced \/ value.type = "eod")
  /\ reader' = IF value.type \in {"failed", "error"} THEN "ended" ELSE reader
  /\ UNCHANGED aligned

\* Mutated ReadPDU: a Router Key's body is left on the connection.
ReadPDUSkippingNoBody ==
  /\ reader = "session" /\ Len(wire) >= Needed(wire)
  /\ Returns(Decoded(wire), IF wire[2] = Type.routerKey THEN HeaderLen ELSE Needed(wire))

ReadPDU ==
  /\ reader = "session" /\ Len(wire) >= Needed(wire)
  /\ Returns(Decoded(wire), Needed(wire))

(***************************************************************************)
(* The read deadline passes when k bytes of a PDU have been read: they are *)
(* gone, and a session that has a serial goes on as if they were a PDU.    *)
(***************************************************************************)
ReadTimesOut(k) ==
  /\ reader = "session" /\ k <= Len(wire) /\ k < Needed(wire)
  /\ IF synced
     THEN wire' = Part(wire, k, Len(wire) - k) /\ aligned' = (aligned /\ k = 0) /\ UNCHANGED reader
     ELSE reader' = "ended" /\ UNCHANGED <<wire, aligned>>
  /\ UNCHANGED <<unread, returned, synced>>

WireEnded == reader = "ended" /\ UNCHANGED wireVars

WireNext ==
  \/ \E m \in Messages : PeerSends(m)
  \/ ReadPDU
  \/ \E k \in 0 .. Len(wire) : ReadTimesOut(k)
  \/ WireEnded

WireSpec == WireInit /\ [][WireNext]_wireVars

-----------------------------------------------------------------------------

(***************************************************************************)
(* What is read is what was sent: until a deadline cuts a PDU in two, the  *)
(* connection holds exactly the PDUs not read yet, whatever was in the     *)
(* ones that were refused, skipped or longer than they need be, and each   *)
(* decodes to what was encoded; and no stream, cut anywhere, is read       *)
(* beyond its end (codec.go: readPDU, decodePrefix, decodeError).          *)
(***************************************************************************)
ReadsWhatWasSent ==
  /\ aligned => wire = FlattenSeq([k \in DOMAIN unread |-> unread[k].bytes])
  /\ \A r \in returned : r[1] = r[2]

=============================================================================
