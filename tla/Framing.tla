------------------------------ MODULE Framing ------------------------------
(***************************************************************************)
(* Packets as bytes (emwin.c, bb.c, wx14_emwin.c): what a source sends,    *)
(* and how a packet is recognized and decoded.                             *)
(*                                                                         *)
(* A data packet is a pad of NULs, "/PF" and the rest of its header, a     *)
(* block of data and another pad.  The rest of the header is one byte      *)
(* here; Header says what sscanf makes of it.  "/ServerList/" is the byte  *)
(* Slash and the byte Word.                                                *)
(***************************************************************************)
EXTENDS Integers, Sequences, FiniteSets, SequencesExt

CONSTANTS
  PadSize,    \* EMWIN_NULLPAD_SIZE
  DataSize,   \* EMWIN_DATABLOCK_SIZE
  MaxByte,    \* 255: the value of a byte that is all ones
  Header      \* header byte -> [text, named : BOOLEAN, checksum : Nat]

Nul == 0
Slash == 1
LetterP == 2
LetterF == 3
Back == 4     \* the backslash
Word == 5     \* ServerList/
Bar == 6
Newline == 7

Byte == 0 .. MaxByte

ASSUME FramingAssumption ==
  /\ PadSize \in Nat \ {0} /\ DataSize \in Nat \ {0} /\ MaxByte \in Nat
  /\ Newline < MaxByte
  /\ \A h \in DOMAIN Header : h \in Newline + 1 .. MaxByte

Mark == <<Slash, LetterP, LetterF>>
HeaderSize == Len(Mark) + 1
PacketSize == PadSize + HeaderSize + DataSize + PadSize

Nulls(n) == [i \in 1 .. n |-> Nul]

\* b ^ 0xff for each byte of s.
bb_xor(s) == [i \in DOMAIN s |-> MaxByte - s[i]]

\* s[at + 1 .. at + Len(t)] = t
Holds(s, at, t) == at + Len(t) <= Len(s) /\ SubSeq(s, at + 1, at + Len(t)) = t

\* The part of s that comes before its first byte b.
Before(s, b) == SelectInSeq(s, LAMBDA x : x = b)
UpTo(s, b) == IF Before(s, b) = 0 THEN s ELSE SubSeq(s, 1, Before(s, b) - 1)

-----------------------------------------------------------------------------
(* A packet, as npemwininsert makes them too: what the data leaves free is  *)
(* filled with NULs.                                                        *)
build_emwin_packet(header, body) ==
  Nulls(PadSize) \o Mark \o <<header>> \o body
    \o Nulls(DataSize - Len(body)) \o Nulls(PadSize)

\* What a source sends.
Raw(item) ==
  CASE item.kind = "data"  -> build_emwin_packet(item.header, item.body)
    [] item.kind = "list"  -> <<Slash, Word>> \o item.body \o <<Back, Back, Slash, Back, Back>>
    [] item.kind = "noise" -> item.body

-----------------------------------------------------------------------------
(* fill_packet_struct_bb().  A packet is passed on to the clients as it is  *)
(* (bbdata) and saved without the NULs that fill up a text.                 *)
rawdata(bbdata) == SubSeq(bb_xor(bbdata), PadSize + 1, PacketSize - PadSize)

\* sscanf finds all the fields.
HeaderParses(raw) == Holds(raw, 0, Mark) /\ raw[HeaderSize] \in DOMAIN Header

checksum(data) == FoldSeq(+, 0, data)

\* The name is letters and digits, a period and three letters or digits.
checkfilename(h) == Header[h].named

is_text_file(h) == Header[h].text

\* Mutant: the sum is not compared.
fill_packet_struct_nosum(bbdata) ==
  LET raw == rawdata(bbdata)
      data == SubSeq(raw, HeaderSize + 1, Len(raw))
      h == raw[HeaderSize]
  IN IF ~HeaderParses(raw) THEN [status |-> 2]
     ELSE IF ~checkfilename(h) THEN [status |-> 4]
     ELSE [status |-> 0, header |-> h, bbdata |-> bbdata,
           data |-> IF is_text_file(h) THEN UpTo(data, Nul) ELSE data]

fill_packet_struct_bb(bbdata) ==
  LET raw == rawdata(bbdata)
      data == SubSeq(raw, HeaderSize + 1, Len(raw))
      h == raw[HeaderSize]
  IN IF ~HeaderParses(raw) THEN [status |-> 2]
     ELSE IF Header[h].checksum # checksum(data) THEN [status |-> 3]
     ELSE IF ~checkfilename(h) THEN [status |-> 4]
     ELSE [status |-> 0, header |-> h, bbdata |-> bbdata,
           data |-> IF is_text_file(h) THEN UpTo(data, Nul) ELSE data]

\* fill_packet_struct_serial(): what comes from a device is not xored, what
\* the clients get is.
fill_packet_struct_serial(serialdata) == fill_packet_struct_bb(bb_xor(serialdata))

\* The file write_server_list() makes of a list.
write_server_list(raw) ==
  [i \in DOMAIN UpTo(SubSeq(raw, 3, Len(raw)), Back) |->
     IF raw[i + 2] = Bar THEN Newline ELSE raw[i + 2]]

\* try_serverlist()
try_serverlist(bbdata) ==
  IF Holds(bb_xor(bbdata), 0, <<Slash, Word>>)
    THEN [status |-> 0, header |-> Word, bbdata |-> bbdata,
          data |-> write_server_list(bb_xor(bbdata))]
    ELSE [status |-> 2]

\* The kind of packet, by the first byte from a ByteBlaster server.
bb_is_emwin_data_packet(bbchar) == bb_xor(<<bbchar>>)[1] = Nul
bb_is_srvlist_packet(bbchar) == bb_xor(<<bbchar>>)[1] = Slash

-----------------------------------------------------------------------------
(* The form of a packet that a V2 client is sent: the block is compressed,  *)
(* and its new size is in the header as "/DL<size>", here dl; 0 if there is *)
(* no such field.                                                           *)

\* In zlib's place, a compression that writes a block as the number of NULs
\* at its end and the bytes before them; it may make a block longer.
compress(s) ==
  LET kept == CHOOSE k \in 0 .. Len(s) :
                /\ \A i \in k + 1 .. Len(s) : s[i] = Nul
                /\ k > 0 => s[k] # Nul
  IN <<Len(s) - kept>> \o SubSeq(s, 1, kept)

uncompress(z) == Tail(z) \o Nulls(Head(z))

\* raw1_to_raw2(): no form if the block would not fit where it is queued.
raw1_to_raw2(raw) ==
  LET block2 == compress(SubSeq(raw, HeaderSize + 1, Len(raw)))
  IN IF Len(block2) > PacketSize - PadSize - HeaderSize
       THEN [status |-> 1]
       ELSE [status |-> 0, dl |-> Len(block2), raw |-> SubSeq(raw, 1, HeaderSize) \o block2]

\* build_queue_data_v2()
build_queue_data_v2(raw) ==
  LET raw2 == raw1_to_raw2(raw)
  IN IF raw2.status # 0 THEN raw2
     ELSE [status |-> 0, compress_ratio |-> (100 * Len(raw2.raw)) \div Len(raw),
           dl |-> raw2.dl, bbdata |-> bb_xor(Nulls(PadSize) \o raw2.raw)]

\* What fill_packet_struct_xxx() and try_serverlist() queue for V2 clients,
\* with the settings g.serverprotocol and g.min_compress_ratio.
queue_data_v2(packet, protocol, min_ratio) ==
  LET v2 == build_queue_data_v2(rawdata(packet.bbdata))
  IN IF packet.header = Word \/ protocol = 1 \/ v2.status # 0 \/ v2.compress_ratio >= min_ratio
       THEN [dl |-> 0, bbdata |-> packet.bbdata]
       ELSE [dl |-> v2.dl, bbdata |-> v2.bbdata]

\* What a V2 client makes of it: the packet as it was.
ClientPacket(queued) ==
  LET raw == SubSeq(bb_xor(queued.bbdata), PadSize + 1, Len(queued.bbdata))
      block == SubSeq(raw, HeaderSize + 1, HeaderSize + queued.dl)
  IN IF queued.dl = 0 THEN queued.bbdata
     ELSE bb_xor(Nulls(PadSize) \o SubSeq(raw, 1, HeaderSize) \o uncompress(block)
                   \o Nulls(PadSize))

-----------------------------------------------------------------------------
(* find_emwin_block_start(): the number of bytes before the first "/PF", or *)
(* else before the slash after the first whole pad; -1 if there is neither. *)
find_emwin_block_start(data) ==
  LET marks == {i \in 0 .. Len(data) : Holds(data, i, Mark)}
      pads == {i \in 0 .. Len(data) : Holds(data, i, Append(Nulls(PadSize), Slash))}
      Least(S) == CHOOSE i \in S : \A j \in S : i <= j
  IN CASE marks # {} -> Least(marks)
       [] marks = {} /\ pads # {} -> Least(pads) + PadSize
       [] OTHER -> -1

\* start_emwin_block()
start_emwin_block(data) ==
  Nulls(PadSize) \o SubSeq(data, find_emwin_block_start(data) + 1, Len(data))
=============================================================================
