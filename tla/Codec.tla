-------------------------------- MODULE Codec --------------------------------
(***************************************************************************)
(* The payloads of commands and replies (src/core/src/commands/,           *)
(* src/core/src/replies/), as layouts read by one decoder and one builder, *)
(* with the codes osdp_dispatch_classify tells apart and the padding of an *)
(* encrypted payload (src/core/src/sc/payload.c).                          *)
(*                                                                         *)
(* A message is [records, tail]: the values of its fields, record by       *)
(* record (a message that is not a list has one), and the bytes after      *)
(* them.  A payload is a sequence of bytes.                                *)
(***************************************************************************)
EXTENDS Integers, Sequences, SequencesExt

CONSTANT Refused    \* what a decoder or a builder that refuses returns

-----------------------------------------------------------------------------
(* Integers on the wire (src/core/src/shared/pack.h): little-endian.       *)

Field(bytes) == [bytes |-> bytes, signed |-> FALSE]
U8  == Field(1)
U16 == Field(2)
U32 == Field(4)
I16 == [bytes |-> 2, signed |-> TRUE]

\* v >> 8, v >> 16, v >> 24
Shifted(v) ==
    <<v, v \div 256, (v \div 256) \div 256, ((v \div 256) \div 256) \div 256>>

\* osdp_pack_write_u16le, osdp_pack_write_u32le; the cast to uint16_t of
\* reply_ftstat.c is the two's complement this division gives.
WriteLe(field, v) == [i \in 1..field.bytes |-> Shifted(v)[i] % 256]

\* osdp_pack_read_u16le, osdp_pack_read_u32le
Unsigned(bytes) ==
    LET Byte(i) == IF i <= Len(bytes) THEN bytes[i] ELSE 0
    IN  Byte(1) + 256 * (Byte(2) + 256 * (Byte(3) + 256 * Byte(4)))

\* Without the cast back to int16_t.
MutReadLe(field, bytes) == Unsigned(bytes)

\* ... and the cast to int16_t, the only signed field.
ReadLe(field, bytes) ==
    LET v == Unsigned(bytes)
    IN  IF field.signed /\ v >= 128 * 256 THEN v - 256 * 256 ELSE v

-----------------------------------------------------------------------------
(* Layouts.  tail: "none", "free" (whatever follows), "count" (the last    *)
(* field is its length) or "bits" (the last field is its length in bits).  *)
(* list: the payload is a list of such records, at least min of them.      *)
(* limit: the largest first field the builder accepts.                     *)

Layout(fields, tail) ==
    [fields |-> fields, tail |-> tail, list |-> FALSE, min |-> 1, limit |-> 255]
List(fields, min) ==
    [Layout(fields, "none") EXCEPT !.list = TRUE, !.min = min]

Repeat(n, field) == [i \in 1..n |-> field]

Poll         == Layout(<<>>, "none")
Id           == Layout(<<U8>>, "none")
Cap          == Layout(<<U8>>, "none")
Lstat        == Layout(<<>>, "none")
Istat        == Layout(<<>>, "none")
Ostat        == Layout(<<>>, "none")
Rstat        == Layout(<<>>, "none")
Out          == List(<<U8, U8, U16>>, 1)
Led          == List(Repeat(7, U8) \o <<U16>> \o Repeat(5, U8), 1)
Buz          == Layout(Repeat(5, U8), "none")
Text         == Layout(Repeat(6, U8), "count")
Comset       == [Layout(<<U8, U32>>, "none") EXCEPT !.limit = 126]
Keyset       == Layout(<<U8, U8>>, "count")
Acurxsize    == Layout(<<U16>>, "none")
Filetransfer == Layout(<<U8, U32, U32, U16>>, "count")
Mfg          == Layout(Repeat(3, U8), "free")
Abort        == Layout(<<>>, "none")
Keepactive   == Layout(<<U16>>, "none")

Ack      == Layout(<<>>, "none")
Nak      == Layout(<<U8>>, "free")
Pdid     == Layout(Repeat(5, U8) \o <<U32>> \o Repeat(3, U8), "none")
Pdcap    == List(Repeat(3, U8), 0)
Lstatr   == Layout(<<U8, U8>>, "none")
Istatr   == List(<<U8>>, 0)
Ostatr   == List(<<U8>>, 0)
Rstatr   == List(<<U8>>, 0)
Raw      == Layout(<<U8, U8, U16>>, "bits")
Fmt      == Layout(Repeat(3, U8), "count")
Keypad   == Layout(<<U8, U8>>, "count")
Com      == Layout(<<U8, U32>>, "none")
Busy     == Layout(<<>>, "none")
Ftstat   == Layout(<<U8, U16, I16, U16>>, "none")
Mfgstatr == Layout(<<U8>>, "none")
Mfgerrr  == Layout(<<U8>>, "none")
Mfgrep   == Layout(Repeat(3, U8), "free")

CommandLayout ==
    [POLL |-> Poll, ID |-> Id, CAP |-> Cap, LSTAT |-> Lstat, ISTAT |-> Istat,
     OSTAT |-> Ostat, RSTAT |-> Rstat, OUT |-> Out, LED |-> Led, BUZ |-> Buz,
     TEXT |-> Text, COMSET |-> Comset, KEYSET |-> Keyset, ACURXSIZE |-> Acurxsize,
     FILETRANSFER |-> Filetransfer, MFG |-> Mfg, ABORT |-> Abort, KEEPACTIVE |-> Keepactive]

ReplyLayout ==
    [ACK |-> Ack, NAK |-> Nak, PDID |-> Pdid, PDCAP |-> Pdcap, LSTATR |-> Lstatr,
     ISTATR |-> Istatr, OSTATR |-> Ostatr, RSTATR |-> Rstatr, RAW |-> Raw, FMT |-> Fmt,
     KEYPAD |-> Keypad, COM |-> Com, BUSY |-> Busy, FTSTAT |-> Ftstat,
     MFGSTATR |-> Mfgstatr, MFGERRR |-> Mfgerrr, MFGREP |-> Mfgrep]

-----------------------------------------------------------------------------
(* Decoder and builder                                                     *)

\* Where the fields of a record end, and how long a record is.
Ends(l) ==
    LET end[k \in 0..Len(l.fields)] == IF k = 0 THEN 0 ELSE end[k-1] + l.fields[k].bytes
    IN  end
Width(l) == Ends(l)[Len(l.fields)]

ReadRecord(l, bytes) ==
    LET end == Ends(l)
    IN  [k \in DOMAIN l.fields |-> ReadLe(l.fields[k], SubSeq(bytes, end[k-1] + 1, end[k]))]

WriteRecord(l, record) ==
    FlattenSeq([k \in DOMAIN l.fields |-> WriteLe(l.fields[k], record[k])])

\* The bytes after the fields are the ones the last field announces.
TailOk(l, record, n) ==
    CASE l.tail = "none"  -> n = 0
      [] l.tail = "free"  -> TRUE
      [] l.tail = "count" -> record[Len(l.fields)] = n
      [] l.tail = "bits"  -> (record[Len(l.fields)] + 7) \div 8 = n

\* osdp_*_decode, for a caller with room for slots records.
Decode(l, payload, slots) ==
    LET w == Width(l)
        n == IF l.list THEN Len(payload) \div w ELSE 1
        m == [records |-> [i \in 1..n |->
                              ReadRecord(l, SubSeq(payload, (i - 1) * w + 1, i * w))],
              tail |-> SubSeq(payload, n * w + 1, Len(payload))]
    IN  IF \/ Len(payload) < n * w
           \/ n < l.min \/ (l.list /\ n > slots)
           \/ l.list /\ Len(m.tail) # 0
        THEN Refused
        ELSE IF l.list \/ TailOk(l, m.records[1], Len(m.tail)) THEN m ELSE Refused

\* osdp_*_build into a buffer of cap bytes.
Build(l, m, cap) ==
    LET payload == FlattenSeq([i \in DOMAIN m.records |-> WriteRecord(l, m.records[i])])
                   \o m.tail
    IN  IF \/ Len(m.records) < l.min
           \/ ~l.list /\ ~TailOk(l, m.records[1], Len(m.tail))
           \/ l.limit < 255 /\ m.records[1][1] > l.limit
           \/ Len(payload) > cap
        THEN Refused ELSE payload

-----------------------------------------------------------------------------
(* Padding of an encrypted payload.                                        *)

AesBlock == 16
Padded(n) == (n \div AesBlock + 1) * AesBlock

\* osdp_sc_encrypt_payload before it encrypts.
Pad(payload) ==
    payload \o [i \in 1..(Padded(Len(payload)) - Len(payload)) |-> IF i = 1 THEN 128 ELSE 0]

\* osdp_sc_decrypt_payload after it has decrypted: back from the end over
\* zeros to the marker.
Unpad(block) ==
    LET data == {i \in DOMAIN block : block[i] # 0}
    IN  IF Len(block) = 0 \/ Len(block) % AesBlock # 0 \/ data = {} THEN Refused
        ELSE IF block[Max(data)] = 128 THEN SubSeq(block, 1, Max(data) - 1) ELSE Refused

-----------------------------------------------------------------------------
(* Codes.                                                                  *)

CommandCode ==
    [POLL |-> 96, ID |-> 97, CAP |-> 98, LSTAT |-> 100, ISTAT |-> 101, OSTAT |-> 102,
     RSTAT |-> 103, OUT |-> 104, LED |-> 105, BUZ |-> 106, TEXT |-> 107, COMSET |-> 110,
     BIOREAD |-> 115, BIOMATCH |-> 116, KEYSET |-> 117, CHLNG |-> 118, SCRYPT |-> 119,
     ACURXSIZE |-> 123, FILETRANSFER |-> 124, MFG |-> 128, XWR |-> 161, ABORT |-> 162,
     PIVDATA |-> 163, GENAUTH |-> 164, CRAUTH |-> 165, KEEPACTIVE |-> 167]

ReplyCode ==
    [ACK |-> 64, NAK |-> 65, PDID |-> 69, PDCAP |-> 70, LSTATR |-> 72, ISTATR |-> 73,
     OSTATR |-> 74, RSTATR |-> 75, RAW |-> 80, FMT |-> 81, KEYPAD |-> 83, COM |-> 84,
     BIOREADR |-> 87, BIOMATCHR |-> 88, CCRYPT |-> 118, RMAC_I |-> 120, BUSY |-> 121,
     FTSTAT |-> 122, PIVDATAR |-> 128, GENAUTHR |-> 129, CRAUTHR |-> 130,
     MFGSTATR |-> 131, MFGERRR |-> 132, MFGREP |-> 144, XRD |-> 177]

\* osdp_dispatch_classify: the kind of a frame from its direction and code.
Classify(reply, code) ==
    LET codes == IF reply THEN ReplyCode ELSE CommandCode
        kinds == {k \in DOMAIN codes : codes[k] = code}
    IN  IF kinds = {} THEN "UNKNOWN" ELSE CHOOSE k \in kinds : TRUE
=============================================================================
