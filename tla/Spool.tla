------------------------------- MODULE Spool -------------------------------
(***************************************************************************)
(* The spool directory and its writer.                                     *)
(*                                                                         *)
(* The npemwin thread hands every valid data packet to save_emwin_packet   *)
(* (emwin.c).  The blocks of a product are collected under a sequence      *)
(* number key; the bookkeeping of a product that is being received is in   *)
(* qfiles/<name>.t, and when the last block arrives qfiles/<name>.q is     *)
(* released to the qrunner script.  Every block and every .q file is first *)
(* written to tmp/<name>.t and then renamed into place.                    *)
(*                                                                         *)
(* Each action is the part of save_emwin_packet up to and including one    *)
(* system call that changes the disk, so that a crash, a failure of that   *)
(* call, and a step of the qrunner can fall between any two of them.  The  *)
(* packets are an input: any block of any product may arrive at any time,  *)
(* which covers lost, repeated and reordered blocks.                       *)
(***************************************************************************)
EXTENDS Integers, Sequences, FiniteSets

CONSTANTS
  Name,         \* file names, as they appear in the packet headers
  Product,      \* transmissions; two of them may have the same file name
  NameOf,       \* [Product -> Name]
  NumBlocks,    \* [Product -> Block], header.numblocks
  MaxBlocks,    \* bound on the number of blocks of a product
  FirstKey,     \* SEQNUMKEY_FIRST
  LastKey,      \* SEQNUMKEY_LAST
  Faults,       \* the faults that may happen, a subset of FaultKind
  MaxPackets,   \* bound on the number of packets received
  MaxCrashes,   \* bound on the number of crashes, restarts and unlinks that fail
  NoFile,       \* there is no such file
  Empty         \* a file without a complete record in it

Key == FirstKey .. LastKey
Block == 1 .. MaxBlocks

\* "write": open, write or rename fails on tmp/<name>.t;
\* "qinfo": open or write fails on qfiles/<name>.t, or its unlink.
\* The others are faults of the qrunner (module QRunner).
FaultKind == {"write", "qinfo", "purge", "cat", "kill"}

\* What a block file holds: the whole block, a part of it, or the whole block
\* followed by the end of a longer file that was there before.
Form == {"exact", "part", "tail"}
Content == [prod : Product, blk : Block, form : Form]

\* struct emwin_file_qinfo, without the file name that indexes it.
QInfo == [key : Key, num : Block, rcv : Nat]

ASSUME KeyAssumption == FirstKey \in Int /\ LastKey \in Int /\ FirstKey <= LastKey
ASSUME BoundAssumption == MaxBlocks \in Nat \ {0} /\ MaxPackets \in Nat /\ MaxCrashes \in Nat
ASSUME ProductAssumption ==
  NameOf \in [Product -> Name] /\ NumBlocks \in [Product -> Block]
ASSUME FaultAssumption == Faults \subseteq FaultKind
ASSUME FileAssumption ==
  /\ NoFile # Empty
  /\ NoFile \notin Content /\ Empty \notin Content
  /\ NoFile \notin QInfo /\ Empty \notin QInfo
  /\ NoFile \notin Key /\ Empty \notin Key

VARIABLES
  received,  \* number of packets received so far
  crashes,   \* number of crashes, restarts and failed unlinks so far
  seqnum,    \* g_seqnum_key
  tfile,     \* qfiles/<name>.t
  qfile,     \* qfiles/<name>.q
  tmp,       \* tmp/<name>.t
  data,      \* data/<key>.<blockno>
  asm,       \* tmp/<key>, where the qrunner puts the blocks together
  pc,        \* where the npemwin thread is in save_emwin_packet
  pkt,       \* ep->header of the packet that is being saved
  efq,       \* its efqinfo
  tainted    \* history: the keys whose bookkeeping does not match the disk

disk == <<tfile, qfile, tmp, data, asm>>
spoolVars == <<received, crashes, seqnum, disk, pc, pkt, efq, tainted>>

-----------------------------------------------------------------------------
Packet == [prod : Product, blk : Block]

SpoolTypeOK ==
  /\ received \in 0 .. MaxPackets
  /\ crashes \in 0 .. MaxCrashes
  /\ seqnum \in Key
  /\ tfile \in [Name -> QInfo \cup {NoFile, Empty}]
  /\ qfile \in [Name -> QInfo \cup {NoFile, Empty}]
  /\ tmp \in [Name -> Content \cup QInfo \cup {NoFile, Empty}]
  /\ data \in [Key -> [Block -> Content \cup {NoFile}]]
  /\ asm \in [Key -> Seq(Content)]
  /\ pc \in {"idle", "write", "rename", "qinfo", "unlink", "writeq", "renameq"}
  /\ IF pc = "idle" THEN pkt = NoFile /\ efq = NoFile
                    ELSE pkt \in Packet /\ efq \in QInfo
  /\ tainted \subseteq Key

SpoolInit ==
  /\ received = 0 /\ crashes = 0
  /\ seqnum = FirstKey
  /\ tfile = [n \in Name |-> NoFile]
  /\ qfile = [n \in Name |-> NoFile]
  /\ tmp = [n \in Name |-> NoFile]
  /\ data = [k \in Key |-> [b \in Block |-> NoFile]]
  /\ asm = [k \in Key |-> <<>>]
  /\ pc = "idle" /\ pkt = NoFile /\ efq = NoFile
  /\ tainted = {}

-----------------------------------------------------------------------------
\* The blocks that are stored under key k.
Stored(k) == {b \in Block : data[k][b] # NoFile}

\* Some file of the spool still belongs to key k.
KeyInUse(k) ==
  \/ Stored(k) # {}
  \/ asm[k] # <<>>
  \/ \E n \in Name : \E f \in {tfile[n], qfile[n]} : f \in QInfo /\ f.key = k

\* Mutant: the range check comes too late.
get_seqnum_key_late == IF seqnum > LastKey THEN FirstKey ELSE seqnum + 1

get_seqnum_key == IF seqnum = LastKey THEN FirstKey ELSE seqnum + 1

\* The name of the product that is being saved.
name == NameOf[pkt.prod]

Return == pc' = "idle" /\ pkt' = NoFile /\ efq' = NoFile

(* Block 1 starts a new product under a new key.  `held` is the set of keys *)
(* that another process still works on.  Nothing in the code asks whether  *)
(* the key is in use; the history variable records that it was.            *)
ReceiveFirst(p, held) ==
  /\ pc = "idle" /\ received < MaxPackets
  /\ received' = received + 1
  /\ seqnum' = get_seqnum_key
  /\ pkt' = [prod |-> p, blk |-> 1]
  /\ efq' = [key |-> seqnum', num |-> NumBlocks[p], rcv |-> 0]
  /\ tainted' = tainted \cup {k \in Key : k = seqnum' /\ (KeyInUse(k) \/ k \in held)}
  /\ pc' = "write"
  /\ UNCHANGED <<crashes, disk>>

(* read_qinfo does not check how much it read: from a file that does not   *)
(* hold the whole structure it returns one that was never initialized.     *)
read_qinfo(n) ==
  IF tfile[n] = Empty THEN [key : Key, num : Block, rcv : 0 .. MaxPackets]
                      ELSE {tfile[n]}

(* A later block goes where the .t file of its name says. *)
ReceiveNext(p, b) ==
  /\ pc = "idle" /\ received < MaxPackets
  /\ b # 1 /\ b <= NumBlocks[p]
  /\ tfile[NameOf[p]] # NoFile
  /\ received' = received + 1
  /\ pkt' = [prod |-> p, blk |-> b]
  /\ efq' \in read_qinfo(NameOf[p])
  /\ tainted' = IF tfile[NameOf[p]] = Empty THEN tainted \cup {efq'.key} ELSE tainted
  /\ pc' = "write"
  /\ UNCHANGED <<crashes, seqnum, disk>>

(* A later block without a .t file (or one that cannot be read) is dropped. *)
ReceiveDiscard(p, b) ==
  /\ pc = "idle" /\ received < MaxPackets
  /\ b # 1 /\ b <= NumBlocks[p]
  /\ tfile[NameOf[p]] = NoFile \/ "qinfo" \in Faults
  /\ received' = received + 1
  /\ UNCHANGED <<crashes, seqnum, disk, pc, pkt, efq, tainted>>

-----------------------------------------------------------------------------
(* open(O_WRONLY | O_CREAT) and write.  Without O_TRUNC the end of a longer *)
(* file left by an earlier failure survives; only the last block of a      *)
(* product can be shorter than what is already there.                      *)
WriteTmp ==
  /\ pc = "write"
  /\ \E form \in IF tmp[name] # NoFile /\ pkt.blk = NumBlocks[pkt.prod]
                   THEN {"exact", "tail"} ELSE {"exact"} :
       tmp' = [tmp EXCEPT ![name] = [prod |-> pkt.prod, blk |-> pkt.blk, form |-> form]]
  /\ pc' = "rename"
  /\ UNCHANGED <<received, crashes, seqnum, tfile, qfile, data, asm, pkt, efq, tainted>>

\* Mutant: a short write is not noticed.
WriteTmpShort ==
  /\ pc = "write" /\ "write" \in Faults
  /\ tmp' = [tmp EXCEPT ![name] = [prod |-> pkt.prod, blk |-> pkt.blk, form |-> "part"]]
  /\ pc' = "rename"
  /\ UNCHANGED <<received, crashes, seqnum, tfile, qfile, data, asm, pkt, efq, tainted>>

(* open fails, or the write is short and leaves a part of the block behind. *)
WriteTmpFails ==
  /\ pc = "write" /\ "write" \in Faults
  /\ \/ tmp' = tmp
     \/ tmp' = [tmp EXCEPT ![name] = [prod |-> pkt.prod, blk |-> pkt.blk, form |-> "part"]]
  /\ Return
  /\ UNCHANGED <<received, crashes, seqnum, tfile, qfile, data, asm, tainted>>

\* Mutant: the place of a block is its order of arrival.
RenameDataByArrival ==
  /\ pc = "rename" /\ tmp[name] # NoFile
  /\ data' = [data EXCEPT ![efq.key][efq.rcv + 1] = tmp[name]]
  /\ tmp' = [tmp EXCEPT ![name] = NoFile]
  /\ efq' = [key |-> efq.key, num |-> efq.num, rcv |-> efq.rcv + 1]
  /\ pc' = "qinfo"
  /\ UNCHANGED <<received, crashes, seqnum, tfile, qfile, asm, pkt, tainted>>

(* The block is in place and is counted, in memory. *)
RenameData ==
  /\ pc = "rename" /\ tmp[name] # NoFile
  /\ data' = [data EXCEPT ![efq.key][pkt.blk] = tmp[name]]
  /\ tmp' = [tmp EXCEPT ![name] = NoFile]
  /\ efq' = [key |-> efq.key, num |-> efq.num, rcv |-> efq.rcv + 1]
  /\ pc' = "qinfo"
  /\ UNCHANGED <<received, crashes, seqnum, tfile, qfile, asm, pkt, tainted>>

(* rename fails, or tmp/<name>.t was purged: the tmp file, if any, stays. *)
RenameDataFails ==
  /\ pc = "rename" /\ ("write" \in Faults \/ tmp[name] = NoFile)
  /\ Return
  /\ UNCHANGED <<received, crashes, seqnum, disk, tainted>>

-----------------------------------------------------------------------------
\* The last block of a product releases it, any other ends the save.
AfterQinfo ==
  IF pkt.blk = NumBlocks[pkt.prod] THEN pc' = "unlink" /\ UNCHANGED <<pkt, efq>>
                                   ELSE Return

\* Mutant: the count is saved before the block is added to it.
WriteQinfoStale ==
  /\ pc = "qinfo"
  /\ tfile' = [tfile EXCEPT ![name] = [key |-> efq.key, num |-> efq.num, rcv |-> efq.rcv - 1]]
  /\ AfterQinfo
  /\ UNCHANGED <<received, crashes, seqnum, qfile, tmp, data, asm, tainted>>

WriteQinfo ==
  /\ pc = "qinfo"
  /\ tfile' = [tfile EXCEPT ![name] = efq]
  /\ AfterQinfo
  /\ UNCHANGED <<received, crashes, seqnum, qfile, tmp, data, asm, tainted>>

(* The open fails and the .t file keeps the old count, or the file is       *)
(* truncated and the write fails: the block is stored but not counted.     *)
WriteQinfoFails ==
  /\ pc = "qinfo" /\ "qinfo" \in Faults
  /\ \/ tfile' = tfile /\ tainted' = tainted \cup {efq.key}
     \/ tfile' = [tfile EXCEPT ![name] = Empty] /\ tainted' = tainted
  /\ Return
  /\ UNCHANGED <<received, crashes, seqnum, qfile, tmp, data, asm>>

(* write_qinfo takes a short write for a success. *)
WriteQinfoShort ==
  /\ pc = "qinfo" /\ "qinfo" \in Faults
  /\ tfile' = [tfile EXCEPT ![name] = Empty]
  /\ AfterQinfo
  /\ UNCHANGED <<received, crashes, seqnum, qfile, tmp, data, asm, tainted>>

\* Mutant: the .t file is not removed.
UnlinkNothing ==
  /\ pc = "unlink"
  /\ pc' = "writeq"
  /\ UNCHANGED <<received, crashes, seqnum, disk, pkt, efq, tainted>>

UnlinkT ==
  /\ pc = "unlink"
  /\ tfile' = [tfile EXCEPT ![name] = NoFile]
  /\ pc' = "writeq"
  /\ UNCHANGED <<received, crashes, seqnum, qfile, tmp, data, asm, pkt, efq, tainted>>

(* The status of unlink is not looked at: the .t file stays, and the key is *)
(* released to the script while later blocks are still stored under it.     *)
UnlinkTFails ==
  /\ pc = "unlink" /\ "qinfo" \in Faults
  /\ crashes < MaxCrashes /\ crashes' = crashes + 1
  /\ tainted' = tainted \cup {efq.key}
  /\ pc' = "writeq"
  /\ UNCHANGED <<received, seqnum, disk, pkt, efq>>

(* fopen "w", fprintf and fclose.  The status of fclose is not looked at:  *)
(* when the flush fails the empty file is released all the same.           *)
WriteQ ==
  /\ pc = "writeq"
  /\ \/ tmp' = [tmp EXCEPT ![name] = efq]
     \/ "write" \in Faults /\ tmp' = [tmp EXCEPT ![name] = Empty]
  /\ pc' = "renameq"
  /\ UNCHANGED <<received, crashes, seqnum, tfile, qfile, data, asm, pkt, efq, tainted>>

WriteQFails ==
  /\ pc = "writeq" /\ "write" \in Faults
  /\ \/ tmp' = tmp
     \/ tmp' = [tmp EXCEPT ![name] = Empty]
  /\ Return
  /\ UNCHANGED <<received, crashes, seqnum, tfile, qfile, data, asm, tainted>>

RenameQ ==
  /\ pc = "renameq" /\ tmp[name] # NoFile
  /\ qfile' = [qfile EXCEPT ![name] = tmp[name]]
  /\ tmp' = [tmp EXCEPT ![name] = NoFile]
  /\ Return
  /\ UNCHANGED <<received, crashes, seqnum, tfile, data, asm, tainted>>

RenameQFails ==
  /\ pc = "renameq" /\ ("write" \in Faults \/ tmp[name] = NoFile)
  /\ Return
  /\ UNCHANGED <<received, crashes, seqnum, disk, tainted>>

-----------------------------------------------------------------------------
(* The daemon stops, at any point, and is started again: the disk is what  *)
(* the calls made so far left, and the keys begin anew from the first.     *)
Crash ==
  /\ crashes < MaxCrashes
  /\ crashes' = crashes + 1
  /\ seqnum' = FirstKey
  /\ \/ tmp' = tmp
     \/ /\ pc = "write"
        /\ tmp' = [tmp EXCEPT ![name] = [prod |-> pkt.prod, blk |-> pkt.blk, form |-> "part"]]
     \/ /\ pc = "writeq"
        /\ tmp' = [tmp EXCEPT ![name] = Empty]
  /\ \/ tfile' = tfile
     \/ /\ pc = "qinfo"
        /\ tfile' = [tfile EXCEPT ![name] = Empty]
  /\ tainted' = IF pc = "qinfo" THEN tainted \cup {efq.key} ELSE tainted
  /\ Return
  /\ UNCHANGED <<received, qfile, data, asm>>

Save ==
  \/ WriteTmp \/ WriteTmpFails
  \/ RenameData \/ RenameDataFails
  \/ WriteQinfo \/ WriteQinfoFails \/ WriteQinfoShort
  \/ UnlinkT \/ UnlinkTFails
  \/ WriteQ \/ WriteQFails
  \/ RenameQ \/ RenameQFails

Receive(held) ==
  \E p \in Product :
    \/ ReceiveFirst(p, held)
    \/ \E b \in Block : ReceiveNext(p, b) \/ ReceiveDiscard(p, b)

=============================================================================
