-------------------------- MODULE QRunnerStepProofs -------------------------
(***************************************************************************)
(* What the steps of the spool and of the qrunner script preserve, for any *)
(* set of products, any range of keys and any of the faults of the model:  *)
(* the types, and the invariant of every key that is not tainted, first by *)
(* the steps of save_emwin_packet and a restart of the daemon, then by the *)
(* steps of the script.                                                    *)
(***************************************************************************)
EXTENDS QRunnerInv, TLAPS, FiniteSetTheorems

USE KeyAssumption, BoundAssumption, ProductAssumption, FaultAssumption,
    FileAssumption, HeaderAssumption, TaskAssumption

TypeInv == TypeOK /\ ControlInv

LEMMA InitType == Init => TypeInv
<1> SUFFICES ASSUME Init PROVE TypeInv
  BY Zenon
<1>1. SpoolTypeOK
  BY DEF Init, SpoolInit, SpoolTypeOK, Key, Block
<1>2. RunnerTypeOK
  BY DEF Init, RunnerTypeOK
<1>3. pc = "idle" /\ rpc = "off" /\ cur = NoFile
  BY Zenon DEF Init, SpoolInit
<1>4. ControlInv
  BY <1>3, ZenonT(30) DEF ControlInv
<1> QED
  BY <1>1, <1>2, <1>4, Zenon DEF TypeInv, TypeOK

LEMMA SaveType ==
  ASSUME TypeInv, Save, UNCHANGED runnerVars
  PROVE  TypeInv'
<1> USE DEF TypeInv, TypeOK, SpoolTypeOK, RunnerTypeOK, ControlInv, runnerVars, name, Packet,
            Return
<1> DEFINE part(form) == [prod |-> pkt.prod, blk |-> pkt.blk, form |-> form]
<1>a. pc # "idle" => name \in Name /\ \A form \in Form : part(form) \in Content
  BY Zenon DEF Content
<1>1. CASE WriteTmp
  <2>1. PICK form \in {"exact", "tail"} : tmp' = [tmp EXCEPT ![name] = part(form)]
    BY <1>1, ZenonT(30) DEF WriteTmp
  <2>2. tmp' \in [Name -> Content \cup QInfo \cup {NoFile, Empty}] /\ tmp'[name] = part(form)
    BY <1>1, <1>a, <2>1, Zenon DEF WriteTmp, Form
  <2> QED
    BY <1>1, <2>2, Zenon DEF WriteTmp
<1>2. CASE WriteTmpFails
  <2>1. tmp' \in [Name -> Content \cup QInfo \cup {NoFile, Empty}]
    BY <1>2, <1>a, ZenonT(30) DEF WriteTmpFails, Form
  <2> QED
    BY <1>2, <2>1, Zenon DEF WriteTmpFails
<1>3. CASE RenameData
  <2>1. tmp[name] \in Content
    BY <1>3, <1>a, Zenon DEF RenameData, Form
  <2>2. efq.key \in Key /\ efq.rcv \in Nat
    BY <1>3, Zenon DEF RenameData, QInfo
  <2>3. efq' \in QInfo
    BY <1>3, <2>2 DEF RenameData, QInfo
  <2>4. data' \in [Key -> [Block -> Content \cup {NoFile}]]
    BY <1>3, <2>1, <2>2, Zenon DEF RenameData
  <2>5. tmp' \in [Name -> Content \cup QInfo \cup {NoFile, Empty}]
    BY <1>3, <1>a, Zenon DEF RenameData
  <2> QED
    BY <1>3, <2>3, <2>4, <2>5, Zenon DEF RenameData
<1>4. CASE RenameDataFails
  BY <1>4, Zenon DEF RenameDataFails, disk
<1>5. CASE WriteQinfo
  BY <1>5, Zenon DEF WriteQinfo, AfterQinfo
<1>6. CASE WriteQinfoFails
  BY <1>6, ZenonT(30) DEF WriteQinfoFails, QInfo
<1>7. CASE WriteQinfoShort
  BY <1>7, Zenon DEF WriteQinfoShort, AfterQinfo
<1>8. CASE UnlinkT
  BY <1>8, Zenon DEF UnlinkT
<1>13. CASE UnlinkTFails
  <2>1. crashes' \in 0 .. MaxCrashes
    BY <1>13, BoundAssumption, SMT DEF UnlinkTFails
  <2> QED
    BY <1>13, <2>1, ZenonT(30) DEF UnlinkTFails, disk, QInfo
<1>9. CASE WriteQ
  <2>1. PICK f \in {efq, Empty} : tmp' = [tmp EXCEPT ![name] = f]
    BY <1>9, Zenon DEF WriteQ
  <2>2. tmp' \in [Name -> Content \cup QInfo \cup {NoFile, Empty}] /\ tmp'[name] = f
    BY <1>9, <1>a, <2>1, Zenon DEF WriteQ
  <2> QED
    BY <1>9, <2>2, Zenon DEF WriteQ
<1>10. CASE WriteQFails
  BY <1>10, Zenon DEF WriteQFails
<1>11. CASE RenameQ
  BY <1>11, Zenon DEF RenameQ
<1>12. CASE RenameQFails
  BY <1>12, Zenon DEF RenameQFails, disk
<1> QED
  BY <1>1, <1>2, <1>3, <1>4, <1>5, <1>6, <1>7, <1>8, <1>9, <1>10, <1>11, <1>12, <1>13,
     ZenonT(30) DEF Save

LEMMA ReceiveType ==
  ASSUME TypeInv, Receive(HeldKeys), UNCHANGED runnerVars
  PROVE  TypeInv'
<1> USE DEF TypeInv, TypeOK, SpoolTypeOK, RunnerTypeOK, ControlInv, runnerVars, name, Packet,
            disk
<1>1. ASSUME NEW p \in Product, ReceiveFirst(p, HeldKeys)
      PROVE  TypeInv'
  <2>1. seqnum' \in Key
    BY <1>1 DEF ReceiveFirst, get_seqnum_key, Key
  <2>2. efq' \in QInfo /\ pkt' \in Packet
    BY <1>1, <2>1 DEF ReceiveFirst, QInfo, Block
  <2> QED
    BY <1>1, <2>1, <2>2 DEF ReceiveFirst, Block
<1>2. ASSUME NEW p \in Product, NEW i \in Block, ReceiveNext(p, i)
      PROVE  TypeInv'
  <2>1. efq' \in QInfo
    BY <1>2 DEF ReceiveNext, read_qinfo, QInfo
  <2>2. efq'.key \in Key
    BY <2>1, Zenon DEF QInfo
  <2> QED
    BY <1>2, <2>1, <2>2 DEF ReceiveNext
<1>3. ASSUME NEW p \in Product, NEW i \in Block, ReceiveDiscard(p, i)
      PROVE  TypeInv'
  BY <1>3 DEF ReceiveDiscard
<1> QED
  BY <1>1, <1>2, <1>3, Zenon DEF Receive

LEMMA CrashType ==
  ASSUME TypeInv, Crash, UNCHANGED runnerVars
  PROVE  TypeInv'
<1> USE DEF TypeInv, TypeOK, SpoolTypeOK, RunnerTypeOK, ControlInv, runnerVars, name, Packet,
            Return
<1>1. tmp' \in [Name -> Content \cup QInfo \cup {NoFile, Empty}]
  <2>1. pc = "write" => name \in Name /\ [prod |-> pkt.prod, blk |-> pkt.blk, form |-> "part"] \in Content
    BY Zenon DEF Content, Form
  <2> QED
    BY <2>1, ZenonT(30) DEF Crash
<1>2. tfile' \in [Name -> QInfo \cup {NoFile, Empty}]
  BY ZenonT(30) DEF Crash
<1>3. seqnum' \in Key
  BY DEF Crash, Key
<1>4. tainted' \subseteq Key
  <2>1. pc = "qinfo" => efq.key \in Key
    BY Zenon DEF QInfo
  <2> QED
    BY <2>1, Zenon DEF Crash
<1> QED
  BY <1>1, <1>2, <1>3, <1>4 DEF Crash

LEMMA ScriptType ==
  ASSUME TypeInv, Script
  PROVE  TypeInv'
<1> USE DEF TypeInv, TypeOK, SpoolTypeOK, RunnerTypeOK, ControlInv, spoolVars, disk, name, Exit
<1>a. rpc \in {"check", "cat"} => cur \in Task /\ cur.key \in Key
  BY Zenon DEF Task
<1>b. ASSUME asm' = [asm EXCEPT ![cur.key] = <<>>]
      PROVE  asm' \in [Key -> Seq(Content)]
  <2>1. <<>> \in Seq(Content)
    OBVIOUS
  <2>2. asm \in [Key -> Seq(Content)]
    BY Zenon
  <2> QED
    BY ONLY <1>b, <2>1, <2>2, ZenonT(30)
<1>1. CASE Start
  BY <1>1, Zenon DEF Start
<1>2. CASE NothingToProcess
  BY <1>2, Zenon DEF NothingToProcess
<1>3. CASE Scan
  BY <1>3, Zenon DEF Scan, Glob
<1>4. ASSUME NEW n \in Name, ReadQ(n)
      PROVE  TypeInv'
  <2>1. cur' \in Task
    BY <1>4 DEF ReadQ, TaskOf, Task, QInfo, Block
  <2> QED
    BY <1>4, <2>1, Zenon DEF ReadQ
<1>5. CASE RmQ
  BY <1>5, ZenonT(30) DEF RmQ, Task
<1>6. CASE NotReceived
  BY <1>6, Zenon DEF NotReceived
<1>7. CASE Assemble
  BY <1>7, Zenon DEF Assemble
<1>8. CASE CatPart
  <2>1. cur.key \in Key /\ idx \in Block /\ data[cur.key][idx] \in Content
    BY <1>8, <1>a DEF CatPart, HasPart
  <2>2. asm' \in [Key -> Seq(Content)]
    BY <1>8, <2>1 DEF CatPart, CatAppends
  <2>3. data' \in [Key -> [Block -> Content \cup {NoFile}]]
    BY <1>8, <2>1, Zenon DEF CatPart, CatAppends
  <2> QED
    BY <1>8, <2>2, <2>3 DEF CatPart
<1>9. CASE CatFails
  <2> DEFINE c == data[cur.key][idx]
             d == [prod |-> c.prod, blk |-> c.blk, form |-> "part"]
  <2>1. cur.key \in Key /\ idx \in Block /\ c \in Content
    BY <1>9, <1>a DEF CatFails, HasPart
  <2>2. d \in Content
    BY <2>1, Zenon DEF Content, Form
  <2>3. asm' \in [Key -> Seq(Content)]
    BY <1>9, <2>1, <2>2 DEF CatFails, CatAppends
  <2>4. data' \in [Key -> [Block -> Content \cup {NoFile}]]
    BY <1>9, <2>1, Zenon DEF CatFails, CatAppends
  <2> QED
    BY <1>9, <2>3, <2>4 DEF CatFails
<1>10. CASE Abandon
  <2>1. asm' \in [Key -> Seq(Content)]
    BY <1>10, <1>b, Zenon DEF Abandon
  <2> QED
    BY <1>10, <2>1, Zenon DEF Abandon
<1>11. CASE CorruptedHeader
  <2>1. asm' \in [Key -> Seq(Content)]
    BY <1>11, <1>b, Zenon DEF CorruptedHeader
  <2> QED
    BY <1>11, <2>1, Zenon DEF CorruptedHeader
<1>12. CASE Transfer
  <2>1. asm' \in [Key -> Seq(Content)]
    BY <1>12, <1>b, Zenon DEF Transfer
  <2>2. Assembled \in File
    <3>1. cur.name \in Name /\ asm[cur.key] \in Seq(Content)
      BY <1>12, <1>a, Zenon DEF Transfer, Task
    <3>2. (cur.key \notin tainted) \in BOOLEAN
      BY Zenon
    <3> QED
      BY <3>1, <3>2, Zenon DEF Assembled, File
  <2>3. Append(postq, Assembled) \in Seq(File)
    <3> HIDE DEF TypeInv, TypeOK, SpoolTypeOK, RunnerTypeOK, ControlInv
    <3>1. postq \in Seq(File)
      BY Zenon DEF TypeInv, TypeOK, RunnerTypeOK
    <3> QED
      BY <2>2, <3>1
  <2>4. out' \subseteq File /\ postq' \in Seq(File)
    <3>1. CASE UNCHANGED <<out, postq>>
      BY <3>1, Zenon
    <3>2. CASE out' = out \cup {Assembled} /\ postq' = Append(postq, Assembled)
      BY <2>2, <2>3, <3>2, Zenon
    <3> QED
      BY <1>12, <3>1, <3>2, Zenon DEF Transfer
  <2> QED
    BY <1>12, <2>1, <2>4, Zenon DEF Transfer
<1>13. CASE LoopEnds
  BY <1>13, Zenon DEF LoopEnds
<1>14. CASE Postfilter
  BY <1>14 DEF Postfilter
<1> QED
  BY <1>1, <1>2, <1>3, <1>4, <1>5, <1>6, <1>7, <1>8, <1>9, <1>10, <1>11, <1>12, <1>13, <1>14
    , ZenonT(30) DEF Script

LEMMA OtherType ==
  ASSUME TypeInv, Purge \/ Kill \/ OperatorUnlocks
  PROVE  TypeInv'
<1> USE DEF TypeInv, TypeOK, SpoolTypeOK, RunnerTypeOK, ControlInv, spoolVars, runnerVars, disk,
            name, Exit
<1>1. CASE Purge
  <2>1. tmp' \in [Name -> Content \cup QInfo \cup {NoFile, Empty}]
        /\ \A n \in Name : tmp'[n] \in {tmp[n], NoFile}
    BY <1>1, ZenonT(30) DEF Purge
  <2>2. tfile' \in [Name -> QInfo \cup {NoFile, Empty}]
    BY <1>1, Zenon DEF Purge
  <2>3. qfile' \in [Name -> QInfo \cup {NoFile, Empty}]
    BY <1>1, Zenon DEF Purge
  <2>4. data' \in [Key -> [Block -> Content \cup {NoFile}]]
    <3>1. CASE data' = data
      BY <3>1, Zenon
    <3>2. ASSUME NEW k \in Key, NEW i \in Stored(k), data' = [data EXCEPT ![k][i] = NoFile]
          PROVE  data' \in [Key -> [Block -> Content \cup {NoFile}]]
      BY <3>2, Zenon DEF Stored
    <3> QED
      BY <1>1, <3>1, <3>2, ZenonT(30) DEF Purge
  <2>5. asm' \in [Key -> Seq(Content)]
    <3>1. CASE asm' = asm
      BY <3>1, Zenon
    <3>2. ASSUME NEW k \in Key, asm' = [asm EXCEPT ![k] = <<>>]
          PROVE  asm' \in [Key -> Seq(Content)]
      <4>1. <<>> \in Seq(Content)
        OBVIOUS
      <4>2. asm \in [Key -> Seq(Content)]
        BY Zenon
      <4> QED
        BY ONLY <3>2, <4>1, <4>2, Zenon
    <3> QED
      BY <1>1, <3>1, <3>2, Zenon DEF Purge
  <2>6. pc # "idle" => name \in Name
    BY Zenon DEF Packet
  <2> QED
    BY <1>1, <2>1, <2>2, <2>3, <2>4, <2>5, <2>6, ZenonT(30) DEF Purge
<1>2. CASE Kill
  BY <1>2 DEF Kill
<1>3. CASE OperatorUnlocks
  BY <1>3, Zenon DEF OperatorUnlocks
<1> QED
  BY <1>1, <1>2, <1>3, ZenonT(30)

LEMMA TypeStep ==
  ASSUME TypeInv, [Next]_vars
  PROVE  TypeInv'
<1>1. CASE UNCHANGED vars
  BY <1>1 DEF TypeInv, TypeOK, SpoolTypeOK, RunnerTypeOK, ControlInv, name, vars, spoolVars,
              runnerVars, disk
<1> QED
  BY <1>1, SaveType, ReceiveType, CrashType, ScriptType, OtherType, Zenon DEF Next, Writer

(* Every reachable state is well typed, for all values of the constants.   *)
(* The type of data needs ControlInv: what is renamed into the data        *)
(* directory is the block that was written to tmp/<name>.t.                *)
THEOREM TypeCorrect == Spec => []TypeOK
<1>1. TypeInv /\ [Next]_vars => TypeInv'
  BY TypeStep, Zenon
<1>2. TypeInv => TypeOK
  BY Zenon DEF TypeInv
<1> QED
  BY InitType, <1>1, <1>2, PTL DEF Spec

-----------------------------------------------------------------------------
(* Facts about the blocks stored under a key. *)
LEMMA StoredFinite ==
  ASSUME NEW k
  PROVE  IsFiniteSet(Stored(k)) /\ Cardinality(Stored(k)) \in Nat
<1>1. IsFiniteSet(Block)
  BY FS_Interval DEF Block
<1>2. Stored(k) \subseteq Block
  BY Zenon DEF Stored
<1> QED
  BY <1>1, <1>2, FS_Subset, FS_CardinalityType, Zenon

(* What is said of a key depends only on its own files. *)
LEMMA Frame ==
  ASSUME NEW k \in Key, data'[k] = data[k]
  PROVE  /\ Stored(k)' = Stored(k)
         /\ \A n : StoredFor(k, n)' <=> StoredFor(k, n)
         /\ \A p, i, r : CountedWith(k, p, i, r)' <=> CountedWith(k, p, i, r)
         /\ \A r : ReleasedWith(k, r)' <=> ReleasedWith(k, r)
<1>1. Stored(k)' = Stored(k)
  BY Zenon DEF Stored
<1>2. \A n : StoredFor(k, n)' <=> StoredFor(k, n)
  BY <1>1, Zenon DEF StoredFor, IsPart
<1>3. \A p, i, r : CountedWith(k, p, i, r)' <=> CountedWith(k, p, i, r)
  BY <1>1, Zenon DEF CountedWith
<1>4. \A r : ReleasedWith(k, r)' <=> ReleasedWith(k, r)
  BY <1>3, Zenon DEF ReleasedWith
<1> QED
  BY <1>1, <1>2, <1>3, <1>4, Zenon

LEMMA TaskFrame ==
  ASSUME NEW k \in Key, TaskInv(k), data'[k] = data[k], asm'[k] = asm[k],
         UNCHANGED <<cur, rpc, idx>>
  PROVE  TaskInv(k)'
  BY Frame, Zenon DEF TaskInv, TaskHas, CatInv, IsPart

LEMMA QFrame ==
  ASSUME NEW k \in Key, QInv(k), data'[k] = data[k], asm'[k] = asm[k],
         UNCHANGED <<qfile, cur, rpc>>
  PROVE  QInv(k)'
  BY Frame, Zenon DEF QInv, QHas, TaskHas

(* A step of the writer that touches neither the blocks nor the q files. *)
LEMMA TmpFrame ==
  ASSUME NEW k \in Key, KeyInv(k),
         UNCHANGED <<data, asm, tfile, qfile, cur, rpc, idx>>, pc # "qinfo",
         \/ pc' = "idle"
         \/ UNCHANGED <<pc, pkt, efq>>
         \/ /\ UNCHANGED <<pkt, efq>>
            /\ (pc = "write" /\ pc' = "rename") \/ (pc = "writeq" /\ pc' = "renameq")
  PROVE  KeyInv(k)'
<1>1. SaveInv(k)'
  <2>1. CASE pc' = "idle"
    BY <2>1, Zenon DEF SaveInv, SaveHas
  <2>2. CASE pc' # "idle"
    <3>1. /\ UNCHANGED <<pkt, efq>> /\ pc # "idle" /\ Counting' = Counting
          /\ pc' \in {"writeq", "renameq"} <=> pc \in {"writeq", "renameq"}
      BY <2>2 DEF Counting
    <3> QED
      BY <2>2, <3>1, Frame, Zenon DEF KeyInv, SaveInv, SaveHas, THas, QHas, TaskHas, name
  <2> QED
    BY <2>1, <2>2, Zenon
<1>2. TInv(k)'
  BY Frame, Zenon DEF KeyInv, TInv, THas, QHas, TaskHas
<1> QED
  BY <1>1, <1>2, QFrame, TaskFrame, Zenon DEF KeyInv

LEMMA ReceiveKey ==
  ASSUME TypeInv, NEW k \in Key, k \notin tainted', KeyInv(k),
         Receive(HeldKeys), UNCHANGED runnerVars
  PROVE  KeyInv(k)'
<1> USE DEF runnerVars, disk
<1>1. ASSUME NEW p \in Product, ReceiveFirst(p, HeldKeys)
      PROVE  KeyInv(k)'
  <2>1. UNCHANGED <<data, asm, tfile, qfile, cur, rpc, idx>> /\ pc = "idle" /\ pc' = "write"
        /\ efq' = [key |-> seqnum', num |-> NumBlocks[p], rcv |-> 0]
    BY <1>1, Zenon DEF ReceiveFirst
  <2>2. SaveInv(k)'
    <3> SUFFICES ASSUME SaveHas(k)' PROVE SaveInv(k)'
      BY Zenon DEF SaveInv
    <3>1. k = seqnum'
      BY <2>1, Zenon DEF SaveHas
    <3>2. ~KeyInUse(k) /\ k \notin HeldKeys
      BY <1>1, <3>1, Zenon DEF ReceiveFirst
    <3>3. Stored(k) = {} /\ asm[k] = <<>> /\ ~TaskHas(k) /\ \A n \in Name : ~THas(k, n) /\ ~QHas(k, n)
      BY <3>2, Zenon DEF KeyInUse, HeldKeys, TaskHas, THas, QHas
    <3>4. Stored(k)' = {} /\ asm'[k] = <<>>
      BY <2>1, <3>3, Frame, Zenon
    <3>5. StoredFor(k, name)'
      BY <3>4, Zenon DEF StoredFor
    <3>6. ~Counting' /\ Cardinality(Stored(k)') <= efq'.rcv
      BY <2>1, <3>4, FS_EmptySet DEF Counting
    <3>7. ~TaskHas(k)' /\ \A n \in Name : ~THas(k, n)' /\ ~QHas(k, n)'
      BY <2>1, <3>3, Zenon DEF THas, QHas, TaskHas
    <3> QED
      BY <3>4, <3>5, <3>6, <3>7, Zenon DEF SaveInv
  <2>3. TInv(k)'
    BY <2>1, Frame, Zenon DEF KeyInv, TInv, THas, QHas, TaskHas, SaveHas
  <2>4. QInv(k)'
    BY <2>1, Frame, Zenon DEF KeyInv, QInv, QHas, TaskHas
  <2>5. TaskInv(k)'
    BY <2>1, Frame, ZenonT(30) DEF KeyInv, TaskInv, TaskHas, CatInv, IsPart
  <2> QED
    BY <2>2, <2>3, <2>4, <2>5, Zenon DEF KeyInv
<1>2. ASSUME NEW p \in Product, NEW i \in Block, ReceiveNext(p, i)
      PROVE  KeyInv(k)'
  <2>1. UNCHANGED <<data, asm, tfile, qfile, cur, rpc, idx>> /\ pc = "idle" /\ pc' = "write"
        /\ name' = NameOf[p] /\ NameOf[p] \in Name
    BY <1>2, Zenon DEF ReceiveNext, name
  <2>2. SaveInv(k)'
    <3> SUFFICES ASSUME SaveHas(k)' PROVE SaveInv(k)'
      BY Zenon DEF SaveInv
    <3>1. efq' = tfile[NameOf[p]] /\ tfile[NameOf[p]] \in QInfo /\ efq'.key = k
      BY <1>2, <2>1, Zenon DEF ReceiveNext, read_qinfo, SaveHas, TypeInv, TypeOK, SpoolTypeOK
    <3>2. THas(k, NameOf[p])
      BY <3>1, Zenon DEF THas
    <3>3. /\ StoredFor(k, NameOf[p]) /\ asm[k] = <<>> /\ ~TaskHas(k)
          /\ Cardinality(Stored(k)) <= tfile[NameOf[p]].rcv
          /\ \A m \in Name : ~QHas(k, m) /\ (THas(k, m) => m = NameOf[p])
      BY <2>1, <3>2, Zenon DEF KeyInv, TInv, SaveHas
    <3>4. StoredFor(k, name)' /\ asm'[k] = <<>> /\ Cardinality(Stored(k)') <= efq'.rcv
      BY <2>1, <3>1, <3>3, Frame, Zenon DEF StoredFor
    <3>5. ~Counting'
      BY <2>1, Zenon DEF Counting
    <3>6. ~TaskHas(k)' /\ \A n \in Name : ~QHas(k, n)' /\ (THas(k, n)' => n = name')
      BY <2>1, <3>3, Zenon DEF THas, QHas, TaskHas
    <3> QED
      BY <2>1, <3>4, <3>5, <3>6, Zenon DEF SaveInv
  <2>3. TInv(k)'
    BY <2>1, Frame, Zenon DEF KeyInv, TInv, THas, QHas, TaskHas, SaveHas
  <2>4. QInv(k)'
    BY <2>1, Frame, Zenon DEF KeyInv, QInv, QHas, TaskHas
  <2>5. TaskInv(k)'
    BY <2>1, Frame, ZenonT(30) DEF KeyInv, TaskInv, TaskHas, CatInv, IsPart
  <2> QED
    BY <2>2, <2>3, <2>4, <2>5, Zenon DEF KeyInv
<1>3. ASSUME NEW p \in Product, NEW i \in Block, ReceiveDiscard(p, i)
      PROVE  KeyInv(k)'
  <2>1. UNCHANGED <<data, asm, tfile, qfile, cur, rpc, idx, pc, pkt, efq>>
    BY <1>3, Zenon DEF ReceiveDiscard
  <2> QED
    BY <1>3, <2>1, TmpFrame, Zenon DEF ReceiveDiscard
<1> QED
  BY <1>1, <1>2, <1>3, Zenon DEF Receive

LEMMA SaveKey ==
  ASSUME TypeInv, NEW k \in Key, k \notin tainted', KeyInv(k), Save, UNCHANGED runnerVars
  PROVE  KeyInv(k)'
<1> USE DEF runnerVars, disk, Return
<1>a. pc # "idle" /\ name \in Name /\ efq \in QInfo /\ efq.key \in Key
  BY ZenonT(30) DEF TypeInv, TypeOK, SpoolTypeOK, Packet, name, QInfo, Save, WriteTmp, WriteTmpFails,
         RenameData, RenameDataFails, WriteQinfo, WriteQinfoFails, WriteQinfoShort, UnlinkT,
         UnlinkTFails, WriteQ, WriteQFails, RenameQ, RenameQFails
<1>1. CASE WriteTmp \/ WriteTmpFails
  BY <1>1, TmpFrame, Zenon DEF WriteTmp, WriteTmpFails
<1>2. CASE RenameDataFails \/ WriteQ \/ WriteQFails \/ RenameQFails
  BY <1>2, TmpFrame, Zenon DEF RenameDataFails, WriteQ, WriteQFails, RenameQFails
<1>3. CASE RenameData
  <2>a. /\ pc = "rename" /\ pc' = "qinfo" /\ UNCHANGED <<asm, tfile, qfile, pkt, cur, rpc, idx>>
        /\ data' = [data EXCEPT ![efq.key][pkt.blk] = tmp[name]]
        /\ efq' = [key |-> efq.key, num |-> efq.num, rcv |-> efq.rcv + 1]
        /\ name' = name
    BY <1>3, Zenon DEF RenameData, name
  <2>b. /\ pkt.blk \in Block /\ tmp[name] \in Content /\ efq.rcv \in Nat
        /\ data \in [Key -> [Block -> Content \cup {NoFile}]]
        /\ IsPart(tmp[name], pkt.blk, name) /\ tmp[name].prod = pkt.prod
    BY <1>3, <1>a DEF RenameData, TypeInv, TypeOK, SpoolTypeOK, ControlInv, Packet, IsPart, name,
                      Content, Form, QInfo
  <2>1. CASE k # efq.key
    <3>1. data'[k] = data[k] /\ ~SaveHas(k) /\ ~SaveHas(k)'
      BY <1>a, <2>a, <2>b, <2>1, ZenonT(30) DEF SaveHas
    <3>2. TInv(k)'
      BY <2>a, <3>1, Frame, Zenon DEF KeyInv, TInv, THas, QHas, TaskHas
    <3> QED
      BY <2>a, <3>1, <3>2, QFrame, TaskFrame, Zenon DEF KeyInv, SaveInv
  <2>2. CASE k = efq.key
    <3>1. /\ StoredFor(k, name) /\ asm[k] = <<>> /\ Cardinality(Stored(k)) <= efq.rcv
          /\ ~TaskHas(k) /\ \A n \in Name : ~QHas(k, n) /\ (THas(k, n) => n = name)
      BY <1>a, <2>a, <2>2, Zenon DEF KeyInv, SaveInv, SaveHas, Counting
    <3>2. /\ Stored(k)' = Stored(k) \cup {pkt.blk}
          /\ data'[k][pkt.blk] = tmp[name]
          /\ \A i \in Stored(k) : i # pkt.blk => data'[k][i] = data[k][i]
      BY <2>a, <2>b, <2>2 DEF Stored
    <3>3. Cardinality(Stored(k)') <= efq.rcv + 1
      <4>1. Cardinality(Stored(k) \cup {pkt.blk}) <= Cardinality(Stored(k)) + 1
            /\ Cardinality(Stored(k) \cup {pkt.blk}) \in Nat
        <5>1. IsFiniteSet(Stored(k)) /\ Cardinality(Stored(k)) \in Nat
          BY StoredFinite, Zenon
        <5>2. Cardinality(Stored(k) \cup {pkt.blk}) =
                IF pkt.blk \in Stored(k) THEN Cardinality(Stored(k)) ELSE Cardinality(Stored(k)) + 1
          BY <5>1, FS_AddElement, Zenon
        <5> QED
          BY <5>1, <5>2
      <4>2. Cardinality(Stored(k)') = Cardinality(Stored(k) \cup {pkt.blk})
        BY <3>2, Zenon
      <4>3. Cardinality(Stored(k)) \in Nat /\ Cardinality(Stored(k)) <= efq.rcv /\ efq.rcv \in Nat
        BY <2>b, <3>1, StoredFinite, Zenon
      <4> QED
        BY <4>1, <4>2, <4>3
    <3>4. StoredFor(k, name)'
      BY <2>a, <2>b, <3>1, <3>2 DEF StoredFor, IsPart
    <3>5. CountedWith(k, pkt.prod, pkt.blk, efq.rcv)'
      <4>1. Stored(k)' \cup {pkt.blk} = Stored(k)'
        BY <3>2, ZenonT(30)
      <4> QED
        BY <2>a, <2>b, <3>2, <3>3, <4>1, ZenonT(30) DEF CountedWith
    <3>6. ~TaskHas(k)' /\ \A n \in Name : ~QHas(k, n)' /\ (THas(k, n)' => n = name')
      BY <2>a, <3>1, Zenon DEF TaskHas, QHas, THas
    <3>7. SaveInv(k)'
      BY <2>a, <3>1, <3>4, <3>5, <3>6, Zenon DEF SaveInv, Counting
    <3>8. TInv(k)'
      BY <2>a, <2>2, <3>1, <3>4, <3>6, Zenon DEF TInv, SaveHas
    <3>9. QInv(k)' /\ TaskInv(k)'
      BY <3>6, Zenon DEF QInv, TaskInv
    <3> QED
      BY <3>7, <3>8, <3>9, Zenon DEF KeyInv
  <2> QED
    BY <2>1, <2>2, Zenon
<1>4. CASE WriteQinfo \/ WriteQinfoShort
  <2>a. /\ pc = "qinfo" /\ UNCHANGED <<data, asm, qfile, cur, rpc, idx>>
        /\ \/ tfile' = [tfile EXCEPT ![name] = efq]
           \/ tfile' = [tfile EXCEPT ![name] = Empty]
        /\ pc' = "idle" \/ (pc' = "unlink" /\ UNCHANGED <<pkt, efq>>)
    BY <1>4, Zenon DEF WriteQinfo, WriteQinfoShort, AfterQinfo
  <2>b. tfile \in [Name -> QInfo \cup {NoFile, Empty}]
    BY Zenon DEF TypeInv, TypeOK, SpoolTypeOK
  <2>1. SaveHas(k) =>
          /\ StoredFor(k, name) /\ asm[k] = <<>>
          /\ CountedWith(k, pkt.prod, pkt.blk, efq.rcv)
          /\ ~TaskHas(k) /\ \A n \in Name : ~QHas(k, n) /\ (THas(k, n) => n = name)
    BY <2>a, Zenon DEF KeyInv, SaveInv, Counting
  <2>2. \A n \in Name : THas(k, n)' =>
          \/ n = name /\ tfile'[n] = efq /\ SaveHas(k)
          \/ n # name /\ tfile'[n] = tfile[n] /\ THas(k, n)
    BY <1>a, <2>a, <2>b, ZenonT(30) DEF THas, SaveHas
  <2>3. SaveInv(k)'
    <3>1. SaveHas(k)' => SaveHas(k) /\ UNCHANGED <<pkt, efq>> /\ pc' = "unlink"
      BY <2>a, Zenon DEF SaveHas
    <3> QED
      BY <2>a, <2>1, <2>2, <3>1, Frame, ZenonT(30) DEF SaveInv, Counting, name, QHas, TaskHas
  <2>4. TInv(k)'
    <3>1. SaveHas(k) => Cardinality(Stored(k)) <= efq.rcv
      <4>1. IsFiniteSet(Stored(k) \cup {pkt.blk})
        BY StoredFinite, FS_AddElement, Zenon
      <4>2. /\ Cardinality(Stored(k)) <= Cardinality(Stored(k) \cup {pkt.blk})
            /\ Cardinality(Stored(k) \cup {pkt.blk}) \in Nat
        BY <4>1, FS_Subset, FS_CardinalityType, Zenon
      <4> QED
        BY <1>a, <2>1, <4>2, StoredFinite DEF CountedWith, QInfo
    <3> SUFFICES ASSUME NEW n \in Name, THas(k, n)'
                 PROVE  /\ StoredFor(k, n)' /\ asm'[k] = <<>>
                        /\ Cardinality(Stored(k)') <= tfile'[n].rcv
                        /\ ~TaskHas(k)'
                        /\ \A m \in Name : ~QHas(k, m)' /\ (THas(k, m)' => m = n)
      BY Zenon DEF TInv
    <3>2. ~SaveHas(k) => THas(k, n)
      BY <2>2, Zenon
    <3> QED
      BY <2>a, <2>1, <2>2, <3>1, <3>2, Frame DEF KeyInv, TInv, QHas, TaskHas
  <2> QED
    BY <2>a, <2>3, <2>4, QFrame, TaskFrame, ZenonT(30) DEF KeyInv
<1>5. CASE WriteQinfoFails
  <2>a. /\ pc = "qinfo" /\ pc' = "idle" /\ UNCHANGED <<data, asm, qfile, cur, rpc, idx>>
        /\ \/ tfile' = tfile /\ k # efq.key
           \/ tfile' = [tfile EXCEPT ![name] = Empty]
    BY <1>5, Zenon DEF WriteQinfoFails
  <2>1. \A n \in Name : THas(k, n)' => tfile'[n] = tfile[n] /\ THas(k, n) /\ ~SaveHas(k)
    BY <1>a, <2>a, ZenonT(30) DEF THas, SaveHas, KeyInv, SaveInv, TypeInv, TypeOK, SpoolTypeOK
  <2>2. TInv(k)'
    BY <2>a, <2>1, Frame, ZenonT(30) DEF KeyInv, TInv, QHas, TaskHas
  <2>3. SaveInv(k)'
    BY <2>a, ZenonT(30) DEF SaveInv, SaveHas
  <2> QED
    BY <2>a, <2>2, <2>3, QFrame, TaskFrame, Zenon DEF KeyInv
<1>6. CASE UnlinkT
  <2>a. /\ pc = "unlink" /\ pc' = "writeq" /\ UNCHANGED <<data, asm, qfile, cur, rpc, idx, pkt, efq>>
        /\ tfile' = [tfile EXCEPT ![name] = NoFile]
    BY <1>6, Zenon DEF UnlinkT
  <2>1. \A n \in Name : THas(k, n)' => n # name /\ tfile'[n] = tfile[n] /\ THas(k, n)
    BY <1>a, <2>a, Zenon DEF THas, TypeInv, TypeOK, SpoolTypeOK
  <2>2. SaveInv(k)'
    BY <2>a, <2>1, Frame, ZenonT(30) DEF KeyInv, SaveInv, SaveHas, Counting, name, QHas, TaskHas
  <2>3. TInv(k)'
    BY <2>a, <2>1, Frame, ZenonT(30) DEF KeyInv, TInv, QHas, TaskHas
  <2> QED
    BY <2>a, <2>2, <2>3, QFrame, TaskFrame, ZenonT(30) DEF KeyInv
<1>7. CASE RenameQ
  <2>a. /\ pc = "renameq" /\ pc' = "idle" /\ UNCHANGED <<data, asm, tfile, cur, rpc, idx>>
        /\ qfile' = [qfile EXCEPT ![name] = tmp[name]]
        /\ tmp[name] \in {Empty, efq} /\ pkt.prod \in Product /\ pkt.blk = NumBlocks[pkt.prod]
    BY <1>7, ZenonT(30) DEF RenameQ, TypeInv, TypeOK, SpoolTypeOK, ControlInv, Packet
  <2>1. SaveHas(k) =>
          /\ StoredFor(k, name) /\ asm[k] = <<>>
          /\ ReleasedWith(k, efq.rcv)
          /\ ~TaskHas(k) /\ \A n \in Name : ~QHas(k, n) /\ ~THas(k, n)
    BY <2>a, Zenon DEF KeyInv, SaveInv, Counting, ReleasedWith
  <2>2. \A n \in Name : QHas(k, n)' =>
          \/ n = name /\ qfile'[n] = efq /\ SaveHas(k)
          \/ n # name /\ qfile'[n] = qfile[n] /\ QHas(k, n)
    BY <1>a, <2>a, Zenon DEF QHas, SaveHas, TypeInv, TypeOK, SpoolTypeOK
  <2>3. QInv(k)'
    BY <2>a, <2>1, <2>2, Frame DEF KeyInv, QInv, TaskHas
  <2>4. TInv(k)'
    BY <2>a, <2>1, <2>2, Frame, ZenonT(30) DEF KeyInv, TInv, THas, TaskHas
  <2>5. SaveInv(k)'
    BY <2>a, ZenonT(30) DEF SaveInv, SaveHas
  <2> QED
    BY <2>a, <2>3, <2>4, <2>5, TaskFrame, ZenonT(30) DEF KeyInv
<1>8. CASE UnlinkTFails
  <2>a. /\ pc' = "writeq" /\ k # efq.key
        /\ UNCHANGED <<data, asm, tfile, qfile, cur, rpc, idx, pkt, efq>>
    BY <1>8, Zenon DEF UnlinkTFails
  <2>1. ~SaveHas(k) /\ ~SaveHas(k)'
    BY <2>a, Zenon DEF SaveHas
  <2>2. SaveInv(k)'
    BY <2>1, Zenon DEF SaveInv
  <2>3. TInv(k)'
    BY <2>a, <2>1, Frame, ZenonT(30) DEF KeyInv, TInv, THas, QHas, TaskHas
  <2> QED
    BY <2>a, <2>2, <2>3, QFrame, TaskFrame, ZenonT(30) DEF KeyInv
<1> QED
  BY <1>1, <1>2, <1>3, <1>4, <1>5, <1>6, <1>7, <1>8, Zenon DEF Save

LEMMA CrashKey ==
  ASSUME TypeInv, NEW k \in Key, k \notin tainted', KeyInv(k), Crash, UNCHANGED runnerVars
  PROVE  KeyInv(k)'
<1>1. /\ pc' = "idle" /\ UNCHANGED <<data, asm, qfile, cur, rpc, idx>>
      /\ pc = "qinfo" => efq.key # k
  BY ZenonT(30) DEF Crash, Return, runnerVars
<1>2. \A n \in Name : THas(k, n)' => tfile'[n] = tfile[n] /\ THas(k, n)
  BY ZenonT(30) DEF Crash, THas, TypeInv, TypeOK, SpoolTypeOK
<1>3. SaveInv(k)'
  BY <1>1, Zenon DEF SaveInv, SaveHas
<1>4. TInv(k)'
  BY <1>1, <1>2, Frame, ZenonT(30) DEF KeyInv, TInv, SaveHas, QHas, TaskHas
<1> QED
  BY <1>1, <1>3, <1>4, QFrame, TaskFrame, ZenonT(30) DEF KeyInv

-----------------------------------------------------------------------------
(* Removing a block keeps every bound on the number of blocks. *)
LEMMA Shrink ==
  ASSUME NEW k \in Key, Stored(k)' \subseteq Stored(k),
         \A i \in Stored(k)' : data'[k][i] = data[k][i]
  PROVE  /\ \A n : StoredFor(k, n) => StoredFor(k, n)'
         /\ \A r \in Nat : Cardinality(Stored(k)) <= r => Cardinality(Stored(k)') <= r
         /\ \A p \in Product, i \in Block, r \in Nat :
              CountedWith(k, p, i, r) => CountedWith(k, p, i, r)'
         /\ \A r \in Nat : ReleasedWith(k, r) => ReleasedWith(k, r)'
<1>1. \A n : StoredFor(k, n) => StoredFor(k, n)'
  BY Zenon DEF StoredFor, IsPart
<1>2. /\ Cardinality(Stored(k)) \in Nat
      /\ Cardinality(Stored(k)') \in Nat /\ Cardinality(Stored(k)') <= Cardinality(Stored(k))
  BY StoredFinite, FS_Subset, FS_CardinalityType, Zenon
<1>3. ASSUME NEW p \in Product, NEW i \in Block, NEW r \in Nat, CountedWith(k, p, i, r)
      PROVE  CountedWith(k, p, i, r)'
  <2>1. IsFiniteSet(Stored(k) \cup {i}) /\ Stored(k)' \cup {i} \subseteq Stored(k) \cup {i}
    BY StoredFinite, FS_AddElement, Zenon
  <2>2. /\ Cardinality(Stored(k)' \cup {i}) \in Nat /\ Cardinality(Stored(k) \cup {i}) \in Nat
        /\ Cardinality(Stored(k)' \cup {i}) <= Cardinality(Stored(k) \cup {i})
    BY <2>1, FS_Subset, FS_CardinalityType, Zenon
  <2>3. data'[k][i] # NoFile => data[k][i] # NoFile /\ data'[k][i] = data[k][i]
    BY Zenon DEF Stored
  <2> QED
    BY <1>3, <2>2, <2>3 DEF CountedWith
<1>4. \A r \in Nat : ReleasedWith(k, r) => ReleasedWith(k, r)'
  BY <1>3, Zenon DEF ReleasedWith
<1> QED
  BY <1>1, <1>2, <1>3, <1>4

(* Files of a key may go away when the script has no task any more. *)
LEMMA RemoveKey ==
  ASSUME TypeInv, NEW k \in Key, KeyInv(k), cur' = NoFile, UNCHANGED <<pc, pkt, efq>>,
         Stored(k)' \subseteq Stored(k), \A i \in Stored(k)' : data'[k][i] = data[k][i],
         asm'[k] \in {asm[k], <<>>},
         \A n \in Name : tfile'[n] \in {tfile[n], NoFile} /\ qfile'[n] \in {qfile[n], NoFile}
  PROVE  KeyInv(k)'
<1>1. ~TaskHas(k)'
  BY Zenon DEF TaskHas
<1>2. \A n \in Name : /\ THas(k, n)' => THas(k, n) /\ tfile'[n] = tfile[n] /\ tfile[n].rcv \in Nat
                      /\ QHas(k, n)' => QHas(k, n) /\ qfile'[n] = qfile[n] /\ qfile[n].rcv \in Nat
  BY Zenon DEF THas, QHas, QInfo
<1>3. SaveInv(k)'
  <2> SUFFICES ASSUME SaveHas(k)' PROVE SaveInv(k)'
    BY Zenon DEF SaveInv
  <2>1. SaveHas(k) /\ efq.rcv \in Nat /\ pkt.prod \in Product /\ pkt.blk \in Block
    BY Zenon DEF SaveHas, TypeInv, TypeOK, SpoolTypeOK, QInfo, Packet
  <2>2. name' = name /\ Counting' = Counting
    BY Zenon DEF name, Counting
  <2>3. StoredFor(k, name)'
    BY <2>1, <2>2, Shrink, Zenon DEF KeyInv, SaveInv, StoredFor
  <2>4. CountedWith(k, pkt.prod, pkt.blk, efq.rcv) => CountedWith(k, pkt.prod, pkt.blk, efq.rcv)'
    <3>1. PICK p \in Product, i \in Block, r \in Nat : p = pkt.prod /\ i = pkt.blk /\ r = efq.rcv
      BY <2>1, Zenon
    <3>2. CountedWith(k, p, i, r) => CountedWith(k, p, i, r)'
      BY Shrink, Zenon
    <3> QED
      BY <3>1, <3>2, Zenon DEF CountedWith
  <2>5. Cardinality(Stored(k)) <= efq.rcv => Cardinality(Stored(k)') <= efq'.rcv
    BY <2>1, Shrink, Zenon
  <2>6. IF Counting' THEN CountedWith(k, pkt.prod, pkt.blk, efq.rcv)'
                     ELSE Cardinality(Stored(k)') <= efq'.rcv
    BY <2>1, <2>2, <2>4, <2>5, Zenon DEF KeyInv, SaveInv
  <2>7. /\ asm'[k] = <<>>
        /\ \A n \in Name : ~QHas(k, n)' /\ (THas(k, n)' => n = name' /\ pc' \notin {"writeq", "renameq"})
    BY <1>2, <2>1, <2>2, Zenon DEF KeyInv, SaveInv
  <2> QED
    BY <1>1, <2>3, <2>6, <2>7, Zenon DEF SaveInv
<1>4. TInv(k)'
  BY <1>1, <1>2, Shrink, Zenon DEF KeyInv, TInv, SaveHas
<1>5. QInv(k)'
  BY <1>1, <1>2, Shrink, ZenonT(30) DEF KeyInv, QInv
<1> QED
  BY <1>1, <1>3, <1>4, <1>5, Zenon DEF KeyInv, TaskInv

(* The argument of PublishedWhole: at most r blocks, the last one among     *)
(* them, and all of 1 .. r present leave no room for any other.            *)
LEMMA AllCounted ==
  ASSUME NEW k, NEW j \in Block, NEW r \in Nat,
         Cardinality(Stored(k) \cup {j}) <= r, 1 .. r \subseteq Stored(k)
  PROVE  Stored(k) = 1 .. r /\ j \in 1 .. r
<1> DEFINE T == Stored(k) \cup {j}
<1>1. IsFiniteSet(T) /\ Cardinality(T) \in Nat
  BY StoredFinite, FS_AddElement, FS_CardinalityType, Zenon
<1>2. Cardinality(1 .. r) = r
  <2>1. 1 \in Int /\ r \in Int
    OBVIOUS
  <2>2. Cardinality(1 .. r) = IF 1 > r THEN 0 ELSE r - 1 + 1
    BY <2>1, FS_Interval, Zenon
  <2> QED
    BY <2>2
<1>3. Cardinality(1 .. r) <= Cardinality(T) /\ (Cardinality(1 .. r) = Cardinality(T) => 1 .. r = T)
  BY <1>1, FS_Subset, Zenon
<1>4. 1 .. r = T
  BY <1>1, <1>2, <1>3
<1> QED
  BY <1>4, Zenon

LEMMA ScriptKey ==
  ASSUME TypeInv, NEW k \in Key, KeyInv(k), Script
  PROVE  KeyInv(k)'
<1> USE DEF spoolVars, disk, Exit
<1>a. /\ tfile \in [Name -> QInfo \cup {NoFile, Empty}]
      /\ qfile \in [Name -> QInfo \cup {NoFile, Empty}]
      /\ data \in [Key -> [Block -> Content \cup {NoFile}]]
      /\ asm \in [Key -> Seq(Content)]
      /\ rpc \in {"rm", "check", "cat"} => cur \in Task
      /\ rpc \in {"check", "cat"} => cur \in Task /\ cur.key \in Key
      /\ rpc \notin {"rm", "check", "cat"} => cur = NoFile
  BY Zenon DEF TypeInv, TypeOK, SpoolTypeOK, RunnerTypeOK, ControlInv, Task
<1>1. CASE Start \/ NothingToProcess \/ Scan \/ LoopEnds \/ Postfilter \/ NotReceived
  <2>1. cur' = NoFile /\ UNCHANGED <<data, asm, tfile, qfile, pc, pkt, efq>>
    BY <1>1, <1>a, Zenon DEF Start, NothingToProcess, Scan, LoopEnds, Postfilter, NotReceived
  <2> QED
    BY <2>1, RemoveKey, Zenon DEF Stored
<1>2. CASE Abandon \/ CorruptedHeader \/ Transfer
  <2>1. /\ cur' = NoFile /\ UNCHANGED <<data, tfile, qfile, pc, pkt, efq>>
        /\ asm' = [asm EXCEPT ![cur.key] = <<>>]
    BY <1>2, Zenon DEF Abandon, CorruptedHeader, Transfer
  <2>2. asm'[k] \in {asm[k], <<>>}
    BY <1>a, <2>1, Zenon
  <2> QED
    BY <2>1, <2>2, RemoveKey, Zenon DEF Stored
<1>3. ASSUME NEW n \in Name, ReadQ(n)
      PROVE  KeyInv(k)'
  <2>1. /\ cur = NoFile /\ cur' = TaskOf(n) /\ rpc' = "rm" /\ qfile[n] # NoFile
        /\ UNCHANGED <<data, asm, tfile, qfile, pc, pkt, efq>>
    BY <1>3, <1>a, Zenon DEF ReadQ
  <2>2. TaskHas(k)' => QHas(k, n) /\ cur'.name = n /\ cur'.numparts = qfile[n].rcv
    BY <1>a, <2>1, Zenon DEF TaskHas, TaskOf, QHas
  <2>3. ~TaskHas(k)
    BY <2>1, Zenon DEF TaskHas
  <2>4. SaveInv(k)'
    BY <2>1, <2>2, Frame, Zenon DEF KeyInv, SaveInv, SaveHas, Counting, name, THas, QHas
  <2>5. TInv(k)'
    BY <2>1, <2>2, Frame, Zenon DEF KeyInv, TInv, SaveHas, THas, QHas
  <2>6. QInv(k)'
    BY <2>1, <2>2, Frame, Zenon DEF KeyInv, QInv, QHas
  <2>7. TaskInv(k)'
    <3> SUFFICES ASSUME TaskHas(k)' PROVE TaskInv(k)'
      BY Zenon DEF TaskInv
    <3>1. StoredFor(k, n) /\ asm[k] = <<>> /\ ReleasedWith(k, qfile[n].rcv)
      BY <2>2, Zenon DEF KeyInv, QInv
    <3>2. StoredFor(k, n)' /\ ReleasedWith(k, qfile[n].rcv)'
      BY <2>1, <3>1, Frame, Zenon
    <3> QED
      BY <2>1, <2>2, <3>1, <3>2, Zenon DEF TaskInv
  <2> QED
    BY <2>4, <2>5, <2>6, <2>7, Zenon DEF KeyInv
<1>4. CASE RmQ
  <2>1. /\ rpc = "rm" /\ qfile' = [qfile EXCEPT ![cur.name] = NoFile]
        /\ UNCHANGED <<data, asm, tfile, pc, pkt, efq>>
        /\ \/ rpc' = "next" /\ cur' = NoFile /\ cur.key = Empty
           \/ rpc' = "check" /\ cur' = cur
    BY <1>4, Zenon DEF RmQ
  <2>2. \A n \in Name : QHas(k, n)' => n # cur.name /\ qfile'[n] = qfile[n] /\ QHas(k, n)
    BY <1>a, <2>1, Zenon DEF QHas, Task
  <2>3. TaskHas(k)' => TaskHas(k) /\ rpc' = "check" /\ cur' = cur
    BY <2>1, Zenon DEF TaskHas
  <2>4. SaveInv(k)'
    BY <2>1, <2>2, <2>3, Frame, Zenon DEF KeyInv, SaveInv, SaveHas, Counting, name, THas
  <2>5. TInv(k)'
    BY <2>1, <2>2, <2>3, Frame, Zenon DEF KeyInv, TInv, SaveHas, THas
  <2>6. QInv(k)'
    BY <2>1, <2>2, <2>3, Frame, ZenonT(30) DEF KeyInv, QInv
  <2>7. TaskInv(k)'
    BY <2>1, <2>3, Frame, Zenon DEF KeyInv, TaskInv
  <2> QED
    BY <2>4, <2>5, <2>6, <2>7, Zenon DEF KeyInv
<1>5. CASE Assemble
  <2>1. /\ rpc = "check" /\ rpc' = "cat" /\ idx' = 1 /\ CheckParts
        /\ UNCHANGED <<data, asm, tfile, qfile, pc, pkt, efq, cur>>
    BY <1>5, Zenon DEF Assemble
  <2>2. SaveInv(k)' /\ TInv(k)'
    BY <2>1, Frame, Zenon DEF KeyInv, SaveInv, TInv, SaveHas, Counting, name, THas, QHas, TaskHas
  <2>3. QInv(k)'
    BY <2>1, Frame, Zenon DEF KeyInv, QInv, QHas, TaskHas
  <2>4. ASSUME TaskHas(k)
        PROVE  CatInv(k)'
    <3>1. cur.key = k /\ cur.numparts \in Nat
      BY <1>a, <2>1, <2>4, Zenon DEF TaskHas, Task
    <3>2. PICK p \in Product : CountedWith(k, p, NumBlocks[p], cur.numparts)
      BY <2>1, <2>4, Zenon DEF KeyInv, TaskInv, ReleasedWith
    <3>3. NumBlocks[p] \in Block /\ 1 .. cur.numparts \subseteq Stored(k)
      BY <2>1, <3>1, Zenon DEF CheckParts, HasPart, Stored
    <3>4. Stored(k) = 1 .. cur.numparts /\ NumBlocks[p] \in 1 .. cur.numparts
      BY <3>1, <3>2, <3>3, AllCounted, Zenon DEF CountedWith
    <3>5. data[k][NumBlocks[p]].prod = p
      BY <3>2, <3>4, Zenon DEF CountedWith, Stored
    <3>6. asm[k] = <<>>
      BY <2>1, <2>4, Zenon DEF KeyInv, TaskInv
    <3>7. /\ idx' = 1 /\ cur' = cur /\ asm'[k] = <<>> /\ data'[k] = data[k]
          /\ Stored(k)' = 1 .. cur.numparts
      BY <2>1, <3>4, <3>6, Frame, Zenon
    <3>8. NumBlocks[p] \in Nat /\ NumBlocks[p] <= cur.numparts /\ NumBlocks[p] >= 1
      BY ONLY <3>1, <3>4
    <3>9. idx' \in 1 .. cur'.numparts + 1 /\ Len(asm'[k]) = idx' - 1 /\ 1 .. idx' - 1 = {}
      BY ONLY <3>1, <3>7
    <3> QED
      BY <3>1, <3>5, <3>7, <3>8, <3>9 DEF CatInv
  <2>5. TaskInv(k)'
    BY <2>1, <2>4, Frame, Zenon DEF KeyInv, TaskInv, TaskHas
  <2> QED
    BY <2>2, <2>3, <2>5, Zenon DEF KeyInv
<1>6. CASE CatPart \/ CatFails
  <2>a. /\ rpc = "cat" /\ idx <= cur.numparts /\ HasPart(cur.key, idx) /\ idx' = idx + 1
        /\ UNCHANGED <<tfile, qfile, pc, pkt, efq, cur, rpc>>
        /\ cur \in Task /\ cur.key \in Key /\ cur.numparts \in Nat /\ idx \in Block
    BY <1>6, <1>a, Zenon DEF CatPart, CatFails, HasPart, Task
  <2>b. PICK c \in Content :
          /\ c.prod = data[cur.key][idx].prod /\ c.blk = data[cur.key][idx].blk
          /\ CatAppends(c)
    <3>1. data[cur.key][idx] \in Content
      BY <1>a, <2>a DEF HasPart
    <3>2. CASE CatPart
      BY <3>1, <3>2, Zenon DEF CatPart
    <3>3. CASE CatFails
      BY <3>1, <3>3, Zenon DEF CatFails, Content, Form
    <3> QED
      BY <1>6, <3>2, <3>3, Zenon
  <2>c. /\ data' = [data EXCEPT ![cur.key][idx] = NoFile]
        /\ asm' = [asm EXCEPT ![cur.key] = Append(@, c)]
    BY <2>b, Zenon DEF CatAppends
  <2>1. CASE k # cur.key
    <3>1. data'[k] = data[k] /\ asm'[k] = asm[k] /\ ~TaskHas(k) /\ ~TaskHas(k)'
      BY <1>a, <2>a, <2>c, <2>1, Zenon DEF TaskHas
    <3>2. SaveInv(k)' /\ TInv(k)'
      BY <2>a, <3>1, Frame, Zenon DEF KeyInv, SaveInv, TInv, SaveHas, Counting, name, THas, QHas
    <3> QED
      BY <2>a, <3>1, <3>2, QFrame, Zenon DEF KeyInv, TaskInv
  <2>2. CASE k = cur.key
    <3>1. TaskHas(k) /\ TaskHas(k)'
      BY <1>a, <2>a, <2>2, Zenon DEF TaskHas
    <3>2. ~SaveHas(k) /\ \A n \in Name : ~THas(k, n) /\ ~QHas(k, n)
      BY <2>a, <3>1, Zenon DEF KeyInv, SaveInv, TInv, QInv
    <3>3. SaveInv(k)' /\ TInv(k)' /\ QInv(k)'
      BY <2>a, <3>2, Zenon DEF SaveInv, TInv, QInv, SaveHas, THas, QHas
    <3>4. StoredFor(k, cur.name) /\ CatInv(k)
      BY <2>a, <3>1, Zenon DEF KeyInv, TaskInv
    <3>5. /\ Stored(k)' = Stored(k) \ {idx}
          /\ \A i \in Stored(k)' : data'[k][i] = data[k][i]
      BY <1>a, <2>a, <2>c, <2>2, Zenon DEF Stored
    <3>6. StoredFor(k, cur.name)'
      BY <2>a, <3>4, <3>5, Zenon DEF StoredFor, IsPart
    <3>7. /\ asm[k] \in Seq(Content) /\ asm'[k] = Append(asm[k], c)
          /\ Len(asm'[k]) = idx
          /\ asm'[k][idx] = c /\ \A i \in 1 .. idx - 1 : asm'[k][i] = asm[k][i]
      BY <1>a, <2>a, <2>c, <2>2, <3>4 DEF CatInv
    <3>8. IsPart(c, idx, cur.name)
      BY <2>a, <2>b, <2>2, <3>4 DEF StoredFor, IsPart, Stored, HasPart
    <3>9. CatInv(k)'
      <4>1. PICK p \in Product :
              /\ NumBlocks[p] <= cur.numparts
              /\ NumBlocks[p] < idx => asm[k][NumBlocks[p]].prod = p
              /\ NumBlocks[p] >= idx => data[k][NumBlocks[p]].prod = p
        BY <3>4, Zenon DEF CatInv
      <4>2. NumBlocks[p] \in Block /\ idx \in 1 .. cur.numparts
        BY <2>a DEF Block
      <4>3. Stored(k)' = idx + 1 .. cur.numparts
        BY <2>a, <3>4, <3>5 DEF CatInv
      <4>4. NumBlocks[p] < idx + 1 => asm'[k][NumBlocks[p]].prod = p
        BY <2>b, <2>2, <3>7, <4>1, <4>2 DEF Block
      <4>5. NumBlocks[p] >= idx + 1 => data'[k][NumBlocks[p]].prod = p
        BY <3>5, <4>1, <4>2, <4>3 DEF Block
      <4>6. \A i \in 1 .. idx : IsPart(asm'[k][i], i, cur.name)
        <5>1. \A i \in 1 .. idx - 1 : IsPart(asm'[k][i], i, cur.name)
          BY <3>4, <3>7, Zenon DEF CatInv
        <5>2. IsPart(asm'[k][idx], idx, cur.name)
          BY <3>7, <3>8, Zenon
        <5>3. \A i \in 1 .. idx : i \in 1 .. idx - 1 \/ i = idx
          BY <4>2
        <5> QED
          BY <5>1, <5>2, <5>3, Zenon
      <4> QED
        <5>1. idx' \in 1 .. cur'.numparts + 1 /\ Stored(k)' = idx' .. cur'.numparts
              /\ Len(asm'[k]) = idx' - 1
          BY <2>a, <3>7, <4>2, <4>3 DEF Block
        <5>2. \A i \in 1 .. idx' - 1 : IsPart(asm[k][i], i, cur.name)'
          BY <2>a, <4>2, <4>6 DEF Block, IsPart
        <5>3. /\ NumBlocks[p] <= cur'.numparts
              /\ NumBlocks[p] < idx' => asm'[k][NumBlocks[p]].prod = p
              /\ NumBlocks[p] >= idx' => data'[k][NumBlocks[p]].prod = p
          BY <2>a, <4>1, <4>4, <4>5, Zenon
        <5> QED
          BY <5>1, <5>2, <5>3, Zenon DEF CatInv
    <3>10. TaskInv(k)'
      BY <2>a, <3>6, <3>9, Zenon DEF TaskInv
    <3> QED
      BY <3>3, <3>10, Zenon DEF KeyInv
  <2> QED
    BY <2>1, <2>2, Zenon
<1> QED
  BY <1>1, <1>2, <1>3, <1>4, <1>5, <1>6, Zenon DEF Script

LEMMA OtherKey ==
  ASSUME TypeInv, NEW k \in Key, KeyInv(k), Purge \/ Kill \/ OperatorUnlocks
  PROVE  KeyInv(k)'
<1>1. cur' = NoFile /\ UNCHANGED <<pc, pkt, efq>>
  BY Zenon DEF Purge, Kill, OperatorUnlocks, spoolVars, runnerVars, Exit, TypeInv, ControlInv
<1>2. \A n \in Name : tfile'[n] \in {tfile[n], NoFile} /\ qfile'[n] \in {qfile[n], NoFile}
  BY Zenon DEF Purge, Kill, OperatorUnlocks, spoolVars, disk, TypeInv, TypeOK, SpoolTypeOK
<1>a. asm \in [Key -> Seq(Content)] /\ data \in [Key -> [Block -> Content \cup {NoFile}]]
  BY Zenon DEF TypeInv, TypeOK, SpoolTypeOK
<1>3. asm'[k] \in {asm[k], <<>>}
  <2>1. asm' = asm \/ \E j \in Key : asm' = [asm EXCEPT ![j] = <<>>]
    BY Zenon DEF Purge, Kill, OperatorUnlocks, spoolVars, disk
  <2> QED
    BY <1>a, <2>1, Zenon
<1>4. Stored(k)' \subseteq Stored(k) /\ \A i \in Stored(k)' : data'[k][i] = data[k][i]
  <2>1. data' = data \/ \E j \in Key : \E i \in Stored(j) : data' = [data EXCEPT ![j][i] = NoFile]
    BY Zenon DEF Purge, Kill, OperatorUnlocks, spoolVars, disk
  <2>2. CASE data' = data
    BY <2>2, Zenon DEF Stored
  <2>3. ASSUME NEW j \in Key, NEW i \in Stored(j), data' = [data EXCEPT ![j][i] = NoFile]
        PROVE  Stored(k)' \subseteq Stored(k) /\ \A h \in Stored(k)' : data'[k][h] = data[k][h]
    BY <1>a, <2>3, Zenon DEF Stored
  <2> QED
    BY <2>1, <2>2, <2>3, Zenon
<1> QED
  BY <1>1, <1>2, <1>3, <1>4, RemoveKey, Zenon
=============================================================================
