--------------------------- MODULE QRunnerProofs ----------------------------
(***************************************************************************)
(* The inductive invariant of the spool and the qrunner script, and what   *)
(* follows from it about the files of the public directory.                *)
(***************************************************************************)
EXTENDS QRunnerStepProofs, SequenceTheorems

USE KeyAssumption, BoundAssumption, ProductAssumption, FaultAssumption,
    FileAssumption, HeaderAssumption, TaskAssumption

KeysInv == \A k \in Key \ tainted : KeyInv(k)

(* Nothing takes back that a key is tainted. *)
LEMMA TaintedGrows ==
  ASSUME [Next]_vars
  PROVE  tainted \subseteq tainted'
<1>1. CASE Receive(HeldKeys) \/ Crash
  BY <1>1, Zenon DEF Receive, ReceiveFirst, ReceiveNext, ReceiveDiscard, Crash
<1>2. CASE Save
  BY <1>2, Zenon DEF Save, WriteTmp, WriteTmpFails, RenameData, RenameDataFails, WriteQinfo,
              WriteQinfoFails, WriteQinfoShort, UnlinkT, UnlinkTFails, WriteQ, WriteQFails,
              RenameQ, RenameQFails
<1>3. CASE Script
  <2> USE DEF spoolVars
  <2>1. CASE Start \/ NothingToProcess \/ Scan \/ LoopEnds \/ Postfilter \/ NotReceived \/ Assemble
    BY <2>1, Zenon DEF Start, NothingToProcess, Scan, LoopEnds, Postfilter, NotReceived, Assemble
  <2>2. CASE (\E n \in Name : ReadQ(n)) \/ RmQ
    BY <2>2, Zenon DEF ReadQ, RmQ
  <2>3. CASE CatPart \/ CatFails
    BY <2>3, Zenon DEF CatPart, CatFails
  <2>4. CASE Abandon \/ CorruptedHeader \/ Transfer
    BY <2>4, Zenon DEF Abandon, CorruptedHeader, Transfer
  <2> QED
    BY <1>3, <2>1, <2>2, <2>3, <2>4, Zenon DEF Script
<1>4. CASE Purge \/ Kill \/ OperatorUnlocks \/ UNCHANGED vars
  BY <1>4, Zenon DEF Purge, Kill, OperatorUnlocks, vars, spoolVars
<1> QED
  BY <1>1, <1>2, <1>3, <1>4, Zenon DEF Next, Writer

LEMMA KeyStep ==
  ASSUME TypeInv, KeysInv, [Next]_vars
  PROVE  KeysInv'
<1>1. tainted \subseteq tainted'
  BY TaintedGrows, Zenon
<1> SUFFICES ASSUME NEW k \in Key, k \notin tainted'
             PROVE  KeyInv(k)'
  BY Zenon DEF KeysInv
<1>2. KeyInv(k)
  BY <1>1, Zenon DEF KeysInv
<1>3. CASE UNCHANGED vars
  <2>1. UNCHANGED <<data, asm, tfile, qfile, pc, pkt, efq, cur, rpc, idx>>
    BY <1>3, Zenon DEF vars, spoolVars, runnerVars, disk
  <2>2. SaveInv(k)'
    BY <1>2, <2>1, Frame, Zenon DEF KeyInv, SaveInv, SaveHas, Counting, name, THas, QHas, TaskHas
  <2>3. TInv(k)'
    BY <1>2, <2>1, Frame, Zenon DEF KeyInv, TInv, SaveHas, THas, QHas, TaskHas
  <2> QED
    BY <1>2, <2>1, <2>2, <2>3, QFrame, TaskFrame, Zenon DEF KeyInv
<1> QED
  BY <1>2, <1>3, ReceiveKey, SaveKey, CrashKey, ScriptKey, OtherKey, Zenon DEF Next, Writer

\* What PublishedInOrder and PublishedWhole say of one file.
Sound(f) ==
  f.clean =>
    /\ \A i \in DOMAIN f.parts : f.parts[i].blk = i /\ NameOf[f.parts[i].prod] = f.name
    /\ \A p \in Product :
         (\A i \in DOMAIN f.parts : f.parts[i].prod = p) => Len(f.parts) = NumBlocks[p]

LEMMA AssembledSound ==
  ASSUME TypeInv, KeysInv, rpc = "cat", idx > cur.numparts
  PROVE  Sound(Assembled)
<1> DEFINE k == cur.key
           parts == asm[k]
<1>1. /\ cur \in Task /\ k \in Key /\ cur.numparts \in Nat /\ idx \in Nat
      /\ parts \in Seq(Content)
  BY Zenon DEF TypeInv, TypeOK, SpoolTypeOK, RunnerTypeOK, ControlInv, Task
<1>2. Assembled.name = cur.name /\ Assembled.parts = parts /\ (Assembled.clean <=> k \notin tainted)
  BY Zenon DEF Assembled
<1> SUFFICES ASSUME k \notin tainted
             PROVE  /\ \A i \in DOMAIN parts : parts[i].blk = i /\ NameOf[parts[i].prod] = cur.name
                    /\ \A p \in Product :
                         (\A i \in DOMAIN parts : parts[i].prod = p) => Len(parts) = NumBlocks[p]
  BY <1>2, ZenonT(30) DEF Sound
<1>3. CatInv(k)
  <2>1. TaskHas(k)
    BY Zenon DEF TaskHas, TypeInv, ControlInv
  <2> QED
    BY <1>1, <2>1, Zenon DEF KeysInv, KeyInv, TaskInv
<1>4. Len(parts) = cur.numparts /\ DOMAIN parts = 1 .. cur.numparts
  BY <1>1, <1>3 DEF CatInv
<1>5. \A i \in 1 .. cur.numparts : IsPart(parts[i], i, cur.name)
  BY <1>1, <1>3 DEF CatInv
<1>6. PICK q \in Product : NumBlocks[q] <= cur.numparts /\ parts[NumBlocks[q]].prod = q
  <2>1. idx = cur.numparts + 1
    BY <1>1, <1>3 DEF CatInv
  <2>2. PICK q \in Product : NumBlocks[q] <= cur.numparts
                             /\ (NumBlocks[q] < idx => parts[NumBlocks[q]].prod = q)
    BY <1>3, Zenon DEF CatInv
  <2>3. NumBlocks[q] \in Int
    BY DEF Block
  <2> QED
    BY <1>1, <2>1, <2>2, <2>3
<1>7. ASSUME NEW p \in Product, \A i \in DOMAIN parts : parts[i].prod = p
      PROVE  Len(parts) = NumBlocks[p]
  <2>1. NumBlocks[q] \in 1 .. cur.numparts
    BY <1>1, <1>6 DEF Block
  <2>2. p = q /\ cur.numparts \in 1 .. cur.numparts
    BY <1>1, <1>4, <1>6, <1>7, <2>1
  <2>3. cur.numparts <= NumBlocks[p]
    BY <1>4, <1>5, <1>7, <2>2, Zenon DEF IsPart
  <2> QED
    BY <1>1, <1>4, <1>6, <2>1, <2>2, <2>3
<1> QED
  BY <1>4, <1>5, <1>7, Zenon DEF IsPart

(* Only the transfer adds to the public directory, and nothing removes     *)
(* from it.                                                                *)
LEMMA OutFrame ==
  ASSUME [Next]_vars, ~Transfer
  PROVE  out' = out
<1>1. CASE Script
  <2>1. CASE Start \/ NothingToProcess \/ Scan \/ LoopEnds \/ Postfilter \/ NotReceived \/ Assemble
    BY <2>1, Zenon DEF Start, NothingToProcess, Scan, LoopEnds, Postfilter, NotReceived, Assemble
  <2>2. CASE (\E n \in Name : ReadQ(n)) \/ RmQ
    BY <2>2, Zenon DEF ReadQ, RmQ
  <2>3. CASE CatPart \/ CatFails
    BY <2>3, Zenon DEF CatPart, CatFails
  <2>4. CASE Abandon \/ CorruptedHeader
    BY <2>4, Zenon DEF Abandon, CorruptedHeader
  <2> QED
    BY <1>1, <2>1, <2>2, <2>3, <2>4, Zenon DEF Script
<1>2. CASE Writer \/ Purge \/ Kill \/ OperatorUnlocks \/ UNCHANGED vars
  BY <1>2, Zenon DEF Writer, Purge, Kill, OperatorUnlocks, vars, runnerVars
<1> QED
  BY <1>1, <1>2, Zenon DEF Next

LEMMA OutStep ==
  ASSUME TypeInv, KeysInv, \A f \in out : Sound(f), [Next]_vars
  PROVE  \A f \in out' : Sound(f)
<1>1. CASE Transfer
  BY <1>1, AssembledSound, Zenon DEF Transfer
<1>2. CASE ~Transfer
  <2>1. out' = out
    BY <1>2, OutFrame, Zenon
  <2> QED
    BY <2>1, Zenon
<1> QED
  BY <1>1, <1>2, Zenon

\* The three places a block written only in part could reach.
DataWhole == \A k \in Key : \A b \in Block : data[k][b] # NoFile => data[k][b].form # "part"
OutWhole == \A f \in out : f.clean => \A i \in DOMAIN f.parts : f.parts[i].form # "part"
WholeInv == DataWhole /\ CatWhole /\ OutWhole

(* Only a rename adds to the data directory, and what it moves there is a  *)
(* block that was written to its end.                                      *)
LEMMA DataStep ==
  ASSUME TypeInv, DataWhole, [Next]_vars
  PROVE  DataWhole'
<1> SUFFICES ASSUME NEW k \in Key, NEW b \in Block, data'[k][b] # NoFile
             PROVE  data'[k][b].form # "part"
  BY Zenon DEF DataWhole
<1>a. data \in [Key -> [Block -> Content \cup {NoFile}]]
  BY Zenon DEF TypeInv, TypeOK, SpoolTypeOK
<1>1. CASE RenameData
  <2>1. efq \in QInfo /\ pkt \in Packet
    BY <1>1 DEF RenameData, TypeInv, TypeOK, SpoolTypeOK
  <2>4. efq.key \in Key /\ pkt.blk \in Block
    BY <2>1, Zenon DEF QInfo, Packet
  <2>2. tmp[name].form \in {"exact", "tail"}
    <3>1. PICK form \in {"exact", "tail"} :
            tmp[name] = [prod |-> pkt.prod, blk |-> pkt.blk, form |-> form]
      BY <1>1, Zenon DEF RenameData, TypeInv, ControlInv
    <3> QED
      BY <3>1
  <2>3. data'[k][b] \in {data[k][b], tmp[name]}
    BY <1>1, <1>a, <2>4, ZenonT(30) DEF RenameData
  <2> QED
    BY <2>2, <2>3 DEF DataWhole
<1>2. CASE CatPart \/ CatFails
  <2>1. cur.key \in Key /\ idx \in Block
    BY <1>2, Zenon DEF CatPart, CatFails, HasPart, TypeInv, TypeOK, RunnerTypeOK, ControlInv, Task
  <2>2. data' = [data EXCEPT ![cur.key][idx] = NoFile]
    BY <1>2, Zenon DEF CatPart, CatFails, CatAppends
  <2>3. data'[k][b] \in {data[k][b], NoFile}
    BY <1>a, <2>1, <2>2, ZenonT(30)
  <2> QED
    BY <2>3, Zenon DEF DataWhole
<1>3. CASE Purge
  <2>1. data'[k][b] \in {data[k][b], NoFile}
    <3>1. CASE data' = data
      BY <3>1, Zenon
    <3>2. ASSUME NEW l \in Key, NEW i \in Stored(l), data' = [data EXCEPT ![l][i] = NoFile]
          PROVE  data'[k][b] \in {data[k][b], NoFile}
      BY <1>a, <3>2, ZenonT(30) DEF Stored
    <3> QED
      BY <1>3, <3>1, <3>2, ZenonT(30) DEF Purge
  <2> QED
    BY <2>1, Zenon DEF DataWhole
<1>4. CASE ~RenameData /\ ~CatPart /\ ~CatFails /\ ~Purge
  <2>1. data' = data
    <3>1. CASE Receive(HeldKeys) \/ Crash
      BY <3>1, Zenon DEF Receive, ReceiveFirst, ReceiveNext, ReceiveDiscard, Crash, disk
    <3>2. CASE Save
      BY <1>4, <3>2, Zenon DEF Save, WriteTmp, WriteTmpFails, RenameDataFails, WriteQinfo,
           WriteQinfoFails, WriteQinfoShort, UnlinkT, UnlinkTFails, WriteQ, WriteQFails,
           RenameQ, RenameQFails, disk
    <3>3. CASE Script
      BY <1>4, <3>3, Zenon DEF Script, Start, NothingToProcess, Scan, ReadQ, RmQ, NotReceived,
           Assemble, Abandon, CorruptedHeader, Transfer, LoopEnds, Postfilter, spoolVars, disk
    <3>4. CASE Kill \/ OperatorUnlocks \/ UNCHANGED vars
      BY <3>4, Zenon DEF Kill, OperatorUnlocks, vars, spoolVars, disk
    <3> QED
      BY <1>4, <3>1, <3>2, <3>3, <3>4, Zenon DEF Next, Writer
  <2> QED
    BY <2>1, Zenon DEF DataWhole
<1> QED
  BY <1>1, <1>2, <1>3, <1>4, Zenon

(* The assembly of a sound key begins empty and grows by whole blocks; a   *)
(* failing cat is remembered in rc.                                        *)
LEMMA CatStep ==
  ASSUME TypeInv, KeysInv, DataWhole, CatWhole, [Next]_vars
  PROVE  CatWhole'
<1> SUFFICES ASSUME rpc' = "cat", rc' = 0, cur'.key \notin tainted'
             PROVE  \A i \in DOMAIN asm'[cur'.key] : asm'[cur'.key][i].form # "part"
  BY Zenon DEF CatWhole
<1>a. cur'.key \notin tainted
  BY TaintedGrows, Zenon
<1>1. CASE Assemble
  <2>1. cur' = cur /\ asm' = asm /\ cur # NoFile /\ cur.key \in Key /\ rpc = "check"
    BY <1>1, Zenon DEF Assemble, spoolVars, disk, TypeInv, TypeOK, RunnerTypeOK, ControlInv, Task
  <2>2. asm[cur.key] = <<>>
    BY <1>a, <2>1, Zenon DEF KeysInv, KeyInv, TaskInv, TaskHas
  <2> QED
    BY <2>1, <2>2
<1>2. CASE CatPart
  <2> DEFINE k == cur.key
             c == data[k][idx]
  <2>1. /\ k \in Key /\ idx \in Block /\ c # NoFile /\ cur' = cur /\ rc = 0 /\ rpc = "cat"
        /\ asm' = [asm EXCEPT ![k] = Append(@, c)]
    <3>1. idx \in Block /\ c # NoFile /\ cur' = cur /\ rc' = rc /\ rpc = "cat"
      BY <1>2, Zenon DEF CatPart, HasPart
    <3>2. asm' = [asm EXCEPT ![k] = Append(@, c)]
      BY <1>2, Zenon DEF CatPart, CatAppends
    <3>3. k \in Key
      BY <3>1, Zenon DEF TypeInv, TypeOK, RunnerTypeOK, ControlInv, Task
    <3> QED
      BY <3>1, <3>2, <3>3, Zenon
  <2>2. c \in Content /\ asm \in [Key -> Seq(Content)] /\ asm[k] \in Seq(Content)
    <3>1. /\ asm \in [Key -> Seq(Content)]
          /\ data \in [Key -> [Block -> Content \cup {NoFile}]]
      BY Zenon DEF TypeInv, TypeOK, SpoolTypeOK
    <3> QED
      BY ONLY <2>1, <3>1
  <2>3. c.form # "part"
    BY <2>1, Zenon DEF DataWhole
  <2>4. \A i \in DOMAIN asm[k] : asm[k][i].form # "part"
    BY <1>a, <2>1, Zenon DEF CatWhole
  <2>5. asm'[k] = Append(asm[k], c)
    BY <2>1, <2>2, Zenon
  <2> HIDE DEF c, k
  <2>6. \A i \in DOMAIN Append(asm[k], c) : Append(asm[k], c)[i].form # "part"
    BY ONLY <2>2, <2>3, <2>4
  <2> QED
    BY <2>1, <2>5, <2>6, Zenon DEF k
<1>3. CASE ~Assemble /\ ~CatPart
  <2>1. rpc = "cat" /\ rc = 0 /\ cur' = cur /\ asm' = asm
    <3>1. CASE Receive(HeldKeys) /\ UNCHANGED runnerVars
      BY <3>1, Zenon DEF Receive, ReceiveFirst, ReceiveNext, ReceiveDiscard, disk, runnerVars
    <3>2. CASE Crash /\ UNCHANGED runnerVars
      BY <3>2, Zenon DEF Crash, runnerVars
    <3>3. CASE Save /\ UNCHANGED runnerVars
      BY <3>3, Zenon DEF Save, WriteTmp, WriteTmpFails, RenameData, RenameDataFails, WriteQinfo,
           WriteQinfoFails, WriteQinfoShort, UnlinkT, UnlinkTFails, WriteQ, WriteQFails,
           RenameQ, RenameQFails,
           disk, runnerVars
    <3>4. ~Script
      <4>1. CASE Start \/ NothingToProcess \/ Scan \/ LoopEnds \/ Postfilter \/ NotReceived
        BY <4>1 DEF Start, NothingToProcess, Scan, LoopEnds, Postfilter, NotReceived, Exit
      <4>2. CASE (\E n \in Name : ReadQ(n)) \/ RmQ
        BY <4>2 DEF ReadQ, RmQ
      <4>3. CASE CatFails
        <5>1. rc' = 1
          BY <4>3, Zenon DEF CatFails
        <5> QED
          BY <5>1
      <4>4. CASE Abandon \/ CorruptedHeader \/ Transfer
        BY <4>4 DEF Abandon, CorruptedHeader, Transfer
      <4> QED
        BY <1>3, <4>1, <4>2, <4>3, <4>4, Zenon DEF Script
    <3>5. ~Purge /\ ~Kill /\ ~OperatorUnlocks
      BY DEF Purge, Kill, OperatorUnlocks, Exit, runnerVars
    <3>6. CASE UNCHANGED vars
      BY <3>6, Zenon DEF vars, spoolVars, runnerVars, disk
    <3> QED
      BY <3>1, <3>2, <3>3, <3>4, <3>5, <3>6, Zenon DEF Next, Writer
  <2> QED
    BY <1>a, <2>1, Zenon DEF CatWhole
<1> QED
  BY <1>1, <1>2, <1>3, Zenon

LEMMA WholeStep ==
  ASSUME TypeInv, KeysInv, WholeInv, [Next]_vars
  PROVE  WholeInv'
<1>1. OutWhole'
  <2>1. CASE Transfer
    <3>1. rpc = "cat" /\ rc = 0 /\ out' \in {out, out \cup {Assembled}}
      BY <2>1, Zenon DEF Transfer
    <3>2. Assembled.clean => \A i \in DOMAIN Assembled.parts : Assembled.parts[i].form # "part"
      BY <3>1, Zenon DEF WholeInv, CatWhole, Assembled
    <3> QED
      BY <3>1, <3>2, Zenon DEF WholeInv, OutWhole
  <2> QED
    BY <2>1, OutFrame, Zenon DEF WholeInv, OutWhole
<1> QED
  BY <1>1, DataStep, CatStep, Zenon DEF WholeInv

(* The queue of the postfilter, and what it has been given before.  A file *)
(* is appended only when no file of that name and md5 is public.           *)
LEMMA QueueStep ==
  ASSUME TypeInv, QueuedIsPublic, FilteredOnce, [Next]_vars
  PROVE  QueuedIsPublic' /\ FilteredOnce'
<1>a. filtered \in Seq(File) /\ postq \in Seq(File)
  BY Zenon DEF TypeInv, TypeOK, RunnerTypeOK
<1>b. out \subseteq out'
  <2>1. CASE Transfer
    BY <2>1, Zenon DEF Transfer
  <2> QED
    BY <2>1, OutFrame, Zenon
<1> DEFINE queue == filtered \o postq
<1>c. \A i, j \in DOMAIN queue : SameFile(queue[i], queue[j]) => i = j
  BY Zenon DEF FilteredOnce
<1>d. queue \in Seq(File) /\ \A i \in DOMAIN queue : queue[i] \in out
  BY <1>a DEF QueuedIsPublic
<1>1. CASE Transfer /\ postq' # postq
  <2>1. /\ filtered' = filtered /\ postq' = Append(postq, Assembled)
        /\ out' = out \cup {Assembled} /\ \A f \in out : ~SameFile(f, Assembled)
    BY <1>1, Zenon DEF Transfer
  <2>2. Assembled \in File
    <3>1. cur.name \in Name /\ asm[cur.key] \in Seq(Content)
      BY <1>1, Zenon DEF Transfer, TypeInv, TypeOK, SpoolTypeOK, RunnerTypeOK, ControlInv, Task
    <3>2. (cur.key \notin tainted) \in BOOLEAN
      BY Zenon
    <3> QED
      BY <3>1, <3>2, Zenon DEF Assembled, File
  <2> DEFINE A == Assembled
             q == filtered' \o postq'
             n == Len(queue)
  <2>3. /\ DOMAIN q = 1 .. n + 1 /\ DOMAIN queue = 1 .. n /\ n \in Nat
        /\ q[n + 1] = A /\ \A i \in 1 .. n : q[i] = queue[i]
    <3> HIDE DEF A
    <3>1. filtered' = filtered /\ postq' = Append(postq, A) /\ A \in File
      BY <2>1, <2>2, Zenon DEF A
    <3> QED
      BY ONLY <1>a, <3>1
  <2>4. ASSUME NEW i \in DOMAIN q, NEW j \in DOMAIN q, SameFile(q[i], q[j])
        PROVE  i = j
    <3> HIDE DEF A, q, n, queue
    <3>1. CASE i \in 1 .. n /\ j \in 1 .. n
      BY <1>c, <2>3, <2>4, <3>1
    <3>2. CASE i \in 1 .. n /\ j = n + 1
      BY <1>d, <2>1, <2>3, <2>4, <3>2, Zenon DEF A
    <3>3. CASE i = n + 1 /\ j \in 1 .. n
      <4>1. SameFile(q[j], A)
        BY <2>3, <2>4, <3>3, Zenon DEF SameFile
      <4> QED
        BY <1>d, <2>1, <2>3, <3>3, <4>1, Zenon DEF A
    <3> QED
      BY <2>3, <3>1, <3>2, <3>3
  <2>5. FilteredOnce'
    BY <2>4, Zenon DEF FilteredOnce, SameFile
  <2>6. QueuedIsPublic'
    <3> HIDE DEF A
    <3>1. \A i \in DOMAIN Append(postq, A) : Append(postq, A)[i] \in out \cup {A}
      BY <1>a, <2>2 DEF QueuedIsPublic, A
    <3> QED
      BY <1>b, <2>1, <3>1, Zenon DEF QueuedIsPublic, A
  <2> QED
    BY <2>5, <2>6
<1>2. CASE Postfilter
  <2>1. filtered' = queue /\ postq' = <<>> /\ out' = out
    BY <1>2, Zenon DEF Postfilter
  <2>2. queue \o <<>> = queue
    BY <1>d, ConcatEmptySeq, Zenon
  <2> HIDE DEF queue
  <2>3. FilteredOnce'
    <3>1. (filtered \o postq)' = queue
      BY <2>1, <2>2, Zenon
    <3> QED
      BY ONLY <1>c, <3>1, ZenonT(30) DEF FilteredOnce, SameFile
  <2>4. DOMAIN postq' = {}
    BY <2>1
  <2> QED
    BY <1>d, <2>1, <2>3, <2>4, Zenon DEF QueuedIsPublic
<1>3. CASE Kill
  <2>1. filtered' = filtered /\ postq' = <<>> /\ out' = out
    BY <1>3, Zenon DEF Kill
  <2>2. filtered \o <<>> = filtered
    BY <1>a, ConcatEmptySeq, Zenon
  <2>3. DOMAIN filtered \subseteq DOMAIN queue /\ \A i \in DOMAIN filtered : queue[i] = filtered[i]
    BY ONLY <1>a
  <2> HIDE DEF queue
  <2>4. FilteredOnce'
    <3>1. (filtered \o postq)' = filtered
      BY <2>1, <2>2, Zenon
    <3> QED
      BY ONLY <1>c, <2>3, <3>1, ZenonT(30) DEF FilteredOnce, SameFile
  <2>5. DOMAIN postq' = {}
    BY <2>1
  <2> QED
    BY <2>1, <2>4, <2>5, Zenon DEF QueuedIsPublic
<1>4. CASE ~(Transfer /\ postq' # postq) /\ ~Postfilter /\ ~Kill
  <2>1. filtered' = filtered /\ postq' = postq
    <3>1. CASE Script
      BY <1>4, <3>1, Zenon DEF Script, Start, NothingToProcess, Scan, ReadQ, RmQ, NotReceived,
           Assemble, CatPart, CatFails, Abandon, CorruptedHeader, Transfer, LoopEnds
    <3>2. CASE Writer \/ Purge \/ OperatorUnlocks \/ UNCHANGED vars
      BY <3>2, Zenon DEF Writer, Purge, OperatorUnlocks, vars, runnerVars
    <3> QED
      BY <1>4, <3>1, <3>2, Zenon DEF Next
  <2> QED
    BY <1>b, <2>1, Zenon DEF QueuedIsPublic, FilteredOnce, SameFile
<1> QED
  BY <1>1, <1>2, <1>3, <1>4, Zenon

(* For any products, keys and faults: the inductive invariant holds in     *)
(* every reachable state of the writer and the script.                     *)
THEOREM Invariance == Spec => []IInv
<1> DEFINE J == /\ TypeInv /\ KeysInv /\ \A f \in out : Sound(f)
                /\ WholeInv /\ QueuedIsPublic /\ FilteredOnce
<1>1. Init => J
  <2> SUFFICES ASSUME Init
               PROVE  /\ KeysInv /\ \A f \in out : Sound(f)
                      /\ WholeInv /\ QueuedIsPublic /\ FilteredOnce
    BY InitType, Zenon
  <2>1. /\ pc = "idle" /\ cur = NoFile /\ out = {} /\ rpc = "off"
        /\ \A n \in Name : tfile[n] = NoFile /\ qfile[n] = NoFile
        /\ \A k \in Key : \A b \in Block : data[k][b] = NoFile
        /\ filtered = <<>> /\ postq = <<>>
    BY Zenon DEF Init, SpoolInit
  <2>2. \A k \in Key : ~SaveHas(k) /\ ~TaskHas(k) /\ \A n \in Name : ~THas(k, n) /\ ~QHas(k, n)
    BY <2>1, Zenon DEF SaveHas, TaskHas, THas, QHas
  <2>3. \A k \in Key : KeyInv(k)
    BY <2>2, Zenon DEF KeyInv, SaveInv, TInv, QInv, TaskInv
  <2>4. WholeInv
    BY <2>1 DEF WholeInv, DataWhole, CatWhole, OutWhole
  <2>5. DOMAIN filtered = {} /\ DOMAIN postq = {} /\ DOMAIN (filtered \o postq) = {}
    BY <2>1
  <2> QED
    BY <2>1, <2>3, <2>4, <2>5, Zenon DEF KeysInv, QueuedIsPublic, FilteredOnce
<1>2. J /\ [Next]_vars => J'
  BY TypeStep, KeyStep, OutStep, WholeStep, QueueStep, Zenon DEF Sound
<1>3. J => IInv
  <2>1. WholeInv => CatWhole /\ PartialBlockStaysInTmp
    BY Zenon DEF WholeInv, DataWhole, OutWhole, PartialBlockStaysInTmp, Stored
  <2> QED
    BY <2>1, Zenon DEF TypeInv, KeysInv, IInv, Sound, PublishedInOrder, PublishedWhole
<1> QED
  BY <1>1, <1>2, <1>3, PTL DEF Spec

(* The blocks of a public file are in order and all carry its name. *)
THEOREM InOrder == Spec => []PublishedInOrder
  BY Invariance, PTL DEF IInv

(* A public file made of the blocks of one transmission is all of it: the  *)
(* count that the script takes for the number of parts cannot be too small *)
(* without a block missing below it.                                       *)
THEOREM NeverTruncated == Spec => []PublishedWhole
  BY Invariance, PTL DEF IInv

(* A block written only in part never leaves tmp/<name>.t: neither a short *)
(* write nor a crash nor a failing cat brings one into the data directory  *)
(* or, from a sound key, into the public one.                              *)
THEOREM PartialStays == Spec => []PartialBlockStaysInTmp
  BY Invariance, PTL DEF IInv

(* The postfilter gets every name and md5 once, over all the runs of the   *)
(* script, also when some of them are killed: what was queued is public,   *)
(* and the public directory is asked first.                                *)
THEOREM PostfilteredOnce == Spec => []FilteredOnce
  BY Invariance, PTL DEF IInv

(* Only the cat of a part changes the data directory, and the key it works *)
(* on is the task's, which a save or a .t file cannot have as well.        *)
LEMMA ScriptSpares ==
  ASSUME IInv, Script, NEW k \in Key \ tainted, Open(k)
  PROVE  data'[k] = data[k]
<1>1. CASE CatPart \/ CatFails
  <2>1. rpc = "cat" /\ \E part : CatAppends(part)
    BY <1>1, Zenon DEF CatPart, CatFails
  <2>2. cur # NoFile
    BY <2>1, Zenon DEF IInv, ControlInv
  <2>3. cur.key # k
    BY <2>2, Zenon DEF IInv, KeyInv, SaveInv, TInv, SaveHas, THas, TaskHas, Open
  <2> QED
    BY <2>1, <2>3 DEF CatAppends, IInv, TypeOK, SpoolTypeOK
<1>2. CASE ~(CatPart \/ CatFails)
  <2>1. data' = data
    BY <1>2, Zenon DEF Script, Start, NothingToProcess, Scan, ReadQ, RmQ, NotReceived, Assemble,
         Abandon, CorruptedHeader, Transfer, LoopEnds, Postfilter, spoolVars, disk
  <2> QED
    BY <2>1, Zenon
<1> QED
  BY <1>1, <1>2, Zenon

(* The script takes no block of a product that is still being received. *)
THEOREM SparesOpen == Spec => ScriptSparesOpenProducts
<1>1. IInv /\ [Next]_vars =>
        [Script => \A k \in Key \ tainted : Open(k) => data'[k] = data[k]]_vars
  BY ScriptSpares, Zenon
<1> QED
  BY <1>1, Invariance, PTL DEF Spec, ScriptSparesOpenProducts

=============================================================================
