---------------------------- MODULE PacketReader ----------------------------
(***************************************************************************)
(* The npemwin thread reading packets: opening and synchronizing a source  *)
(* (emwin.c), readn() with its short reads, timeouts and ends of file      *)
(* (nreadn.c), server lists (bb.c) and the blocks of the messages of a     *)
(* WX14 receiver (wx14*.c).  After any error the source is closed and      *)
(* opened again; which source comes next is in ServerList.                 *)
(*                                                                         *)
(* A source repeats its items for ever.  A serial line, and the raw port   *)
(* of a WX14, is joined at any byte, its message port at any byte with a   *)
(* new message; a ByteBlaster server begins with a packet, and so does the *)
(* fifo, which is made anew each time.                                     *)
(***************************************************************************)
EXTENDS Framing

CONSTANTS
  Sources,    \* sets of items a source may repeat, as sequences
  Types,      \* EMWIN_SERVER_TYPE_*
  MaxMessage, \* bound on the data of a WX14 message
  Retry,      \* g.readtimeout_retry, as the number of packets tried
  MaxFaults,  \* bound on reads and saves that fail
  MaxLost     \* bound on bytes a line or a receiver loses

ASSUME ReaderAssumption ==
  /\ Types \subseteq {"bb", "serial", "wx14_raw", "wx14_msg", "infeed"}
  /\ MaxMessage \in 1 .. PacketSize - PadSize
  /\ Retry \in Nat /\ MaxFaults \in Nat /\ MaxLost \in Nat

VARIABLES
  source,     \* what is being sent, fixed from the start
  type,       \* es->type
  pos,        \* the number of bytes sent so far, from the start of the source
  at,         \* the readn() the thread is in, "closed" or "save"
  opening,    \* open_emwin_server_xxx has not returned
  tries,      \* i of emwin_sync_xxx
  stage,      \* of emwin_sync_device
  nloop,      \* of emwin_sync_device
  buf,        \* what has been read of a packet
  part,       \* emwin_block_part
  block,      \* emwin_block, when the next one's start is still sought
  got,        \* the packet that process_packets is to queue and save
  damaged,    \* history: bytes of the packet being read were lost
  faults,     \* number of reads and saves that failed
  lost        \* number of bytes lost

vars == <<source, type, pos, at, opening, tries, stage, nloop, buf, part, block,
          got, damaged, faults, lost>>

\* Only a ByteBlaster server sends lists, and only its bytes are xored.
ItemsOf(s, t) == SelectSeq(s, LAMBDA item : t = "bb" \/ item.kind # "list")
RawOf(s, t) == [i \in DOMAIN ItemsOf(s, t) |-> Raw(ItemsOf(s, t)[i])]
Wire == [s \in Sources, t \in Types |->
           IF t = "bb" THEN bb_xor(FlattenSeq(RawOf(s, t))) ELSE FlattenSeq(RawOf(s, t))]
Starts == [s \in Sources, t \in Types |->
             {Len(FlattenSeq(SubSeq(RawOf(s, t), 1, i - 1))) : i \in DOMAIN RawOf(s, t)}]

Length == Len(Wire[source, type])
Bytes(n) == [i \in 1 .. n |-> Wire[source, type][((pos + i - 1) % Length) + 1]]
Past(n) == pos' = (pos + n) % Length

ReaderTypeOK ==
  /\ source \in Sources /\ type \in Types /\ pos \in 0 .. Length - 1
  /\ at \in {"closed", "sync", "skip", "packet", "first", "body", "list",
             "start", "block", "save"}
  /\ opening \in BOOLEAN /\ tries \in 0 .. Retry + 1
  /\ stage \in -1 .. 2 /\ nloop \in 0 .. 4 * PacketSize - 1
  /\ buf \in Seq(Byte) /\ Len(buf) < PacketSize
  /\ part \in Seq(Byte) /\ Len(part) <= PacketSize
  /\ block \in Seq(Byte) /\ Len(block) \in {0, PacketSize}
  /\ got.status \in {0, 2}
  /\ damaged \in BOOLEAN /\ faults \in 0 .. MaxFaults /\ lost \in 0 .. MaxLost

Nothing == [status |-> 2]

Init ==
  /\ source \in Sources /\ type \in Types
  /\ pos = 0 /\ at = "closed" /\ opening = TRUE
  /\ tries = 0 /\ stage = -1 /\ nloop = 0
  /\ buf = <<>> /\ part = <<>> /\ block = <<>> /\ got = Nothing
  /\ damaged = FALSE /\ faults = 0 /\ lost = 0

-----------------------------------------------------------------------------
\* The locals of emwin_sync_xxx and emwin_sync_device.
SyncDone == tries' = 0 /\ stage' = -1 /\ nloop' = 0

\* The source is closed after an error.
Close ==
  /\ at' = "closed" /\ opening' = TRUE /\ SyncDone
  /\ buf' = <<>> /\ part' = <<>> /\ block' = <<>> /\ got' = Nothing
  /\ damaged' = FALSE

\* Where the thread waits for the first byte of a packet.
Between ==
  CASE type = "bb" -> "first" [] type = "wx14_msg" -> "block" [] OTHER -> "packet"

(* open_emwin_server_xxx(), up to the first read.                           *)
Open ==
  /\ at = "closed"
  /\ CASE type = "bb" -> at' = "first"
       [] type \in {"serial", "wx14_raw"} -> at' = "sync"
       [] type = "wx14_msg" -> at' = "start"
       [] type = "infeed" -> at' = "packet"
  /\ opening' = (type # "infeed")
  /\ pos' \in IF type \in {"bb", "infeed"} THEN Starts[source, type] ELSE 0 .. Length - 1
  /\ UNCHANGED <<source, type, tries, stage, nloop, buf, part, block, got, damaged,
                 faults, lost>>

\* read1() has n more of the bytes that readn() is to read.
Reads(n, size) ==
  /\ n \in 1 .. size - Len(buf)
  /\ Past(n)
  /\ UNCHANGED <<source, type, faults, lost>>

\* readn() is not done.
Partial(n, size) ==
  /\ Len(buf) + n < size
  /\ buf' = buf \o Bytes(n)
  /\ UNCHANGED <<at, opening, tries, stage, nloop, part, block, got, damaged>>

(* A packet was read and is good: the one read while the source is opened   *)
(* is thrown away.                                                          *)
Accept(packet) ==
  /\ IF opening THEN at' = Between /\ got' = got /\ damaged' = FALSE
                ELSE at' = "save" /\ got' = packet /\ UNCHANGED damaged
  /\ opening' = FALSE /\ SyncDone
  /\ buf' = <<>> /\ block' = <<>>

-----------------------------------------------------------------------------
(* emwin_sync_device(): look for a NUL and "/PF".                           *)
NextStage(c) ==
  CASE c = Nul -> 0
    [] c = Slash /\ stage = 0 -> 1
    [] c = LetterP /\ stage = 1 -> 2
    [] c = LetterF /\ stage = 2 -> 3
    [] OTHER -> -1

SyncByte ==
  /\ at = "sync"
  /\ Reads(1, 1)
  /\ LET s == NextStage(Bytes(1)[1]) IN
       \/ /\ s = 3
          /\ at' = "skip" /\ stage' = -1 /\ nloop' = 0
          /\ UNCHANGED <<opening, tries, buf, part, block, got, damaged>>
       \/ /\ s # 3 /\ nloop + 1 < 4 * PacketSize
          /\ stage' = s /\ nloop' = nloop + 1
          /\ UNCHANGED <<at, opening, tries, buf, part, block, got, damaged>>
       \/ s # 3 /\ nloop + 1 = 4 * PacketSize /\ Close

\* Mutant: the NULs before the mark are not counted.
SkipSizeLong == PacketSize - Len(Mark)

\* The rest of the packet whose mark was found.
SkipSize == PacketSize - PadSize - Len(Mark)

(* The rest is thrown away; the loop of emwin_sync_serial and               *)
(* emwin_sync_wx14_raw ends when there are no more tries, with the status   *)
(* of the last synchronization.                                             *)
Skip(n) ==
  /\ at = "skip"
  /\ Reads(n, SkipSize)
  /\ \/ Partial(n, SkipSize)
     \/ /\ Len(buf) + n = SkipSize
        /\ at' = "packet" /\ buf' = <<>> /\ damaged' = FALSE
        /\ IF tries <= Retry THEN UNCHANGED <<opening, tries, stage, nloop>>
                             ELSE opening' = FALSE /\ SyncDone
        /\ UNCHANGED <<part, block, got>>

\* emwin_sync_serial and emwin_sync_wx14_raw try again.
Resync ==
  /\ at' = "sync" /\ tries' = tries + 1 /\ buf' = <<>> /\ damaged' = FALSE
  /\ UNCHANGED <<opening, stage, nloop, block, got>>

(* get_emwin_packet_serial(), also for the fifo and the raw port.           *)
get_emwin_packet_serial(n) ==
  /\ at = "packet"
  /\ Reads(n, PacketSize)
  /\ \/ Partial(n, PacketSize)
     \/ /\ Len(buf) + n = PacketSize
        /\ LET packet == fill_packet_struct_serial(buf \o Bytes(n)) IN
             \/ packet.status = 0 /\ Accept(packet) /\ UNCHANGED part
             \/ packet.status # 0 /\ opening /\ Resync /\ UNCHANGED part
             \/ packet.status # 0 /\ ~opening /\ Close

-----------------------------------------------------------------------------
(* get_emwin_packet_bb(): the first byte tells the kind of packet.          *)
FirstByte ==
  /\ at = "first"
  /\ Reads(1, 1)
  /\ LET c == Bytes(1)[1] IN
       \/ /\ bb_is_emwin_data_packet(c) \/ bb_is_srvlist_packet(c)
          /\ at' = (IF bb_is_emwin_data_packet(c) THEN "body" ELSE "list")
          /\ buf' = <<c>>
          /\ UNCHANGED <<opening, tries, stage, nloop, part, block, got, damaged>>
       \/ ~bb_is_emwin_data_packet(c) /\ ~bb_is_srvlist_packet(c) /\ Close

Body(n) ==
  /\ at = "body"
  /\ Reads(n, PacketSize)
  /\ \/ Partial(n, PacketSize)
     \/ /\ Len(buf) + n = PacketSize
        /\ LET packet == fill_packet_struct_bb(buf \o Bytes(n)) IN
             \/ packet.status = 0 /\ Accept(packet) /\ UNCHANGED part
             \/ packet.status # 0 /\ Close

Backslashes(bbdata) == Cardinality({i \in DOMAIN bbdata : bb_xor(bbdata)[i] = Back})

\* Mutant: the list is taken to end where the list of satellites begins.
ListEndsEarly(bbdata) == Backslashes(bbdata) = 2

\* The fourth backslash ends a list.
ListEnds(bbdata) == Backslashes(bbdata) = 4

(* bb_read_srvlist(), a byte at a time, and try_serverlist().               *)
bb_read_srvlist ==
  /\ at = "list"
  /\ Reads(1, PacketSize)
  /\ LET bbdata == buf \o Bytes(1)
         packet == try_serverlist(bbdata)
     IN \/ /\ ~ListEnds(bbdata) /\ Len(bbdata) < PacketSize
           /\ buf' = bbdata
           /\ UNCHANGED <<at, opening, tries, stage, nloop, part, block, got, damaged>>
        \/ ~ListEnds(bbdata) /\ Len(bbdata) = PacketSize /\ Close
        \/ ListEnds(bbdata) /\ packet.status = 0 /\ Accept(packet) /\ UNCHANGED part
        \/ ListEnds(bbdata) /\ packet.status # 0 /\ Close

-----------------------------------------------------------------------------
(* A message of a WX14 with n bytes of data.  Those with the status of the  *)
(* signal come in between and change nothing here.                          *)
Message(n) ==
  /\ n \in 1 .. MaxMessage
  /\ Past(n)
  /\ UNCHANGED <<source, type, faults, lost>>

(* get_emwin_packet_wx14_msg() has a block; emwin_sync_wx14_msg tries again *)
(* after one that cannot be decoded.                                        *)
BlockRead(b, next) ==
  LET packet == fill_packet_struct_serial(b) IN
    \/ packet.status = 0 /\ Accept(packet) /\ part' = next
    \/ /\ packet.status # 0 /\ opening
       /\ at' = "start" /\ tries' = tries + 1 /\ part' = <<>> /\ block' = <<>>
       /\ damaged' = FALSE
       /\ UNCHANGED <<opening, stage, nloop, buf, got>>
    \/ packet.status # 0 /\ ~opening /\ Close

HasStart(data) == find_emwin_block_start(data) # -1

(* wx14_init_emwin_block(): read until the start of a block, at first or,   *)
(* with a block waiting, in wx14_read_emwin_block.                          *)
wx14_init_emwin_block(n) ==
  /\ at = "start"
  /\ Message(n)
  /\ LET data == Bytes(n) IN
       \/ /\ ~HasStart(data)
          /\ UNCHANGED <<at, opening, tries, stage, nloop, buf, part, block, got, damaged>>
       \/ /\ HasStart(data) /\ block = <<>>
          /\ at' = "block" /\ part' = start_emwin_block(data) /\ damaged' = FALSE
          /\ IF tries <= Retry THEN UNCHANGED <<opening, tries, stage, nloop>>
                               ELSE opening' = FALSE /\ SyncDone
          /\ UNCHANGED <<buf, block, got>>
       \/ HasStart(data) /\ block # <<>> /\ BlockRead(block, start_emwin_block(data))

\* find_emwin_block_end()
find_emwin_block_end(n) == Len(part) + n >= PacketSize

(* wx14_read_emwin_block()                                                  *)
wx14_read_emwin_block(n) ==
  /\ at = "block"
  /\ Message(n)
  /\ LET data == Bytes(n)
         b == part \o SubSeq(data, 1, PacketSize - Len(part))
     IN \/ /\ find_emwin_block_end(n) /\ HasStart(data)
           /\ BlockRead(b, start_emwin_block(data))
        \/ /\ find_emwin_block_end(n) /\ ~HasStart(data)
           /\ at' = "start" /\ block' = b /\ part' = <<>>
           /\ UNCHANGED <<opening, tries, stage, nloop, buf, got, damaged>>
        \/ ~find_emwin_block_end(n) /\ HasStart(data) /\ Close
        \/ /\ ~find_emwin_block_end(n) /\ ~HasStart(data)
           /\ part' = part \o data
           /\ UNCHANGED <<at, opening, tries, stage, nloop, buf, block, got, damaged>>

-----------------------------------------------------------------------------
(* process_packets() queues the packet for the clients and saves it.        *)
Save ==
  /\ at = "save"
  /\ at' = Between /\ got' = Nothing /\ damaged' = FALSE
  /\ UNCHANGED <<source, type, pos, opening, tries, stage, nloop, buf, part, block,
                 faults, lost>>

\* save_emwin_packet() fails; that a list cannot be saved is only logged.
SaveFails ==
  /\ at = "save" /\ got.header # Word /\ faults < MaxFaults
  /\ Close
  /\ faults' = faults + 1
  /\ UNCHANGED <<source, type, pos, lost>>

(* A timeout, the end of the file or an error in read1(), after any number  *)
(* of bytes; a message that is not one.                                     *)
ReadFails ==
  /\ at \notin {"closed", "save"} /\ faults < MaxFaults
  /\ Close
  /\ faults' = faults + 1
  /\ UNCHANGED <<source, type, pos, lost>>

(* A byte is lost on the line or by the receiver.                           *)
Lose ==
  /\ type \in {"serial", "wx14_raw", "wx14_msg"}
  /\ at \notin {"closed", "save"} /\ lost < MaxLost
  /\ lost' = lost + 1
  /\ Past(1)
  /\ damaged' = (damaged \/ at \in {"packet", "block"})
  /\ UNCHANGED <<source, type, at, opening, tries, stage, nloop, buf, part, block, got,
                 faults>>

Step ==
  \/ Open \/ SyncByte \/ FirstByte \/ bb_read_srvlist \/ Save
  \/ \E n \in 1 .. PacketSize :
       \/ Skip(n) \/ get_emwin_packet_serial(n) \/ Body(n)
       \/ wx14_init_emwin_block(n) \/ wx14_read_emwin_block(n)

Next == Step \/ SaveFails \/ ReadFails \/ Lose

Spec == Init /\ [][Next]_vars

(* The thread goes on: npemwin_loop opens a source again, and every read    *)
(* that does not fail has some byte.                                        *)
FairSpec == Spec /\ WF_vars(Step)

-----------------------------------------------------------------------------
\* A source that sends good packets whose data does not look like a mark.
Plain(s) ==
  \A i \in DOMAIN s :
    /\ s[i].kind # "noise"
    /\ s[i].kind = "data" =>
         /\ Header[s[i].header].named
         /\ Header[s[i].header].checksum = FoldSeq(+, 0, s[i].body)
         /\ \A j \in DOMAIN s[i].body : s[i].body[j] # Slash

\* What is to be saved of an item.
Contents(item) ==
  IF item.kind = "list"
    THEN [i \in DOMAIN item.body |-> IF item.body[i] = Bar THEN Newline ELSE item.body[i]]
    ELSE item.body

(* A packet that is queued and saved is one that was sent: whole, xored for *)
(* the clients however it came, its data without fill, even from a source   *)
(* whose data has false marks, after short reads and lost bytes; only of    *)
(* a packet that itself lost bytes is nothing said (the sum may agree).  A  *)
(* V2 client gets the same packet whether or not it was compressed, in no   *)
(* more bytes than a record of its queue has.                               *)
SavedIsSent ==
  at = "save" /\ ~damaged =>
    /\ \E i \in DOMAIN source :
         /\ got.bbdata = bb_xor(Raw(source[i]))
         /\ got.data = Contents(source[i])
    /\ \A protocol \in {1, 2}, min_ratio \in {0, 90, 112} :
         LET queued == queue_data_v2(got, protocol, min_ratio)
         IN ClientPacket(queued) = got.bbdata /\ Len(queued.bbdata) <= PacketSize

(* Once a source is open the thread is between two packets when it believes *)
(* to be: no packet is put together from two.                               *)
InSync ==
  /\ ReaderTypeOK
  /\ Plain(source) /\ lost = 0 /\ ~opening /\ at = Between /\ buf = <<>> =>
       (pos - Len(part)) % Length \in Starts[source, type]

(* From a good source packets keep coming, whatever failed before: sources  *)
(* are opened again, and synchronizing ends.  Not for WX14 messages, which  *)
(* may be cut so that the start of a block is never in one of them.         *)
KeepsDelivering == Plain(source) /\ type # "wx14_msg" => []<>(at = "save")
=============================================================================
