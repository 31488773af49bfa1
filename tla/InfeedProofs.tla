---------------------------- MODULE InfeedProofs ----------------------------
(***************************************************************************)
(* The packets of two inserted files are not mixed, for any number of      *)
(* inserters, any files and any size of the fifo.                          *)
(*                                                                         *)
(* The invariant is about the stream: what the thread has read of a packet *)
(* followed by what is in the fifo it reads.                               *)
(***************************************************************************)
EXTENDS Infeed, SequenceTheorems, TLAPS

USE InfeedAssumption

Piece == [insert : Inserts, part : Nat \ {0}, unit : 1 .. Units]
Packet == [insert : Inserts, part : Nat \ {0}]

Open == at \in {"read", "save", "bad", "error"}
Stream == buf \o pipe[gen]

(* No piece and no packet of i has been seen. *)
AbsentSaved(i) == \A k \in DOMAIN saved : saved[k].insert # i
Absent(i) == AbsentSaved(i) /\ \A k \in DOMAIN Stream : Stream[k].insert # i

(* The last that i has written is the end of its part q. *)
Behind(i, q) ==
  IF q = 0 THEN Absent(i)
  ELSE IF Stream = <<>>
       THEN saved # <<>> /\ saved[Len(saved)] = [insert |-> i, part |-> q]
       ELSE Stream[Len(Stream)] = [insert |-> i, part |-> q, unit |-> Units]

Types ==
  /\ InfeedTypeOK
  /\ pipe \in [1 .. MaxOpens -> Seq(Piece)] /\ buf \in Seq(Piece)
  /\ saved \in Seq(Packet)
  /\ at # "closed" => gen >= 1

(* A lock is held from the first part to the last; a fifo that is not made  *)
(* yet is empty and nobody's.                                               *)
Locks ==
  /\ \A i \in Inserts :
       /\ fifo[i] <= gen
       /\ st[i] = "start" => fifo[i] = 0
       /\ st[i] = "flock" => fifo[i] # 0
       /\ st[i] \in {"start", "flock"} => part[i] = 0 /\ left[i] = 0 /\ AbsentSaved(i)
       /\ st[i] \in {"build", "write"} => fifo[i] # 0 /\ lock[fifo[i]] = i
       /\ st[i] = "build" => left[i] = 0
       /\ st[i] = "write" => part[i] # 0 /\ left[i] # 0
  /\ \A g \in 1 .. MaxOpens :
       /\ lock[g] # None => fifo[lock[g]] = g /\ st[lock[g]] \in {"build", "write"}
       /\ g > gen => pipe[g] = <<>>

(* What the thread does next fits what it has read. *)
Reader ==
  /\ ~Open => buf = <<>>
  /\ at = "read" => Len(buf) < Units
  /\ at \in {"save", "bad"} => Len(buf) = Units
  /\ at = "save" => Whole(buf)
  /\ RefusedIsTorn

(* The packets saved of a file follow one another from the first. *)
SavedApart ==
  \A k \in DOMAIN saved :
    \/ saved[k].part = 1 /\ \A j \in 1 .. k - 1 : saved[j].insert # saved[k].insert
    \/ k > 1 /\ saved[k] = [saved[k - 1] EXCEPT !.part = @ + 1]

(* The stream starts where the last packet saved ends. *)
Heads ==
  Stream # <<>> =>
    /\ Stream[1].unit = 1
    /\ \/ Stream[1].part = 1 /\ AbsentSaved(Stream[1].insert)
       \/ /\ saved # <<>>
          /\ saved[Len(saved)].insert = Stream[1].insert
          /\ Stream[1].part = saved[Len(saved)].part + 1

(* After the end of a part comes the next one or a new file. *)
Links ==
  \A k \in 1 .. Len(Stream) - 1 :
    Stream[k].unit = Units =>
      /\ Stream[k + 1].unit = 1
      /\ \/ /\ Stream[k + 1].part = 1 /\ AbsentSaved(Stream[k + 1].insert)
            /\ \A j \in 1 .. k : Stream[j].insert # Stream[k + 1].insert
         \/ /\ Stream[k + 1].insert = Stream[k].insert
            /\ Stream[k + 1].part = Stream[k].part + 1

(* From any piece of a packet the rest of it follows, unless its inserter   *)
(* was killed.                                                              *)
Runs ==
  \A a \in DOMAIN Stream : \A c \in a .. Len(Stream) :
    c - a <= Units - Stream[a].unit =>
      \/ st[Stream[a].insert] = "killed"
      \/ Stream[c] = [Stream[a] EXCEPT !.unit = @ + (c - a)]

(* A packet that is not finished is the one of the inserter that has the    *)
(* lock, or of one that was killed.                                         *)
Unfinished ==
  Stream # <<>> =>
    LET t == Stream[Len(Stream)]
    IN t.unit # Units => \/ st[t.insert] = "killed"
                         \/ st[t.insert] = "write" /\ left[t.insert] = Units - t.unit

Writers ==
  /\ \A k \in DOMAIN Stream : fifo[Stream[k].insert] = gen
  /\ \A i \in Inserts : fifo[i] = gen =>
       /\ st[i] = "flock" => Absent(i)
       /\ st[i] = "build" => Behind(i, part[i])
       /\ st[i] = "write" =>
            IF left[i] = Units THEN Behind(i, part[i] - 1)
            ELSE /\ Stream # <<>>
                 /\ Stream[Len(Stream)] =
                      [insert |-> i, part |-> part[i], unit |-> Units - left[i]]

Flow == Heads /\ Links /\ Runs /\ Unfinished /\ Writers

InfeedInv == Types /\ Locks /\ Reader /\ SavedApart /\ (Open => Flow)

-----------------------------------------------------------------------------
(* What a write adds is the next pieces of the packet. *)
LEMMA PiecesType ==
  ASSUME Types, Locks, NEW i \in Inserts, NEW n \in 1 .. left[i], st[i] = "write"
  PROVE  /\ Pieces(i, n) \in Seq(Piece) /\ Len(Pieces(i, n)) = n
         /\ \A k \in 1 .. n :
              Pieces(i, n)[k] = [insert |-> i, part |-> part[i], unit |-> Units - left[i] + k]
<1>1. part[i] \in Nat \ {0} /\ left[i] \in 0 .. Units /\ Units \in Nat
  BY DEF Types, InfeedTypeOK, Locks
<1>2. \A k \in 1 .. n : Units - left[i] + k \in 1 .. Units
  BY ONLY <1>1
<1>3. \A k \in 1 .. n :
        [insert |-> i, part |-> part[i], unit |-> Units - left[i] + k] \in Piece
  BY <1>1, <1>2 DEF Piece
<1>4. n \in Nat
  BY <1>1
<1>5. Pieces(i, n) \in [1 .. n -> Piece]
  BY <1>3 DEF Pieces
<1> QED
  BY <1>4, <1>5, <1>3 DEF Pieces

(* What the thread reads goes from one end of the stream's two halves to    *)
(* the other.                                                               *)
LEMMA ReadMoves ==
  ASSUME NEW T, NEW b \in Seq(T), NEW p \in Seq(T), NEW n \in 1 .. Len(p)
  PROVE  /\ b \o SubSeq(p, 1, n) \in Seq(T) /\ SubSeq(p, n + 1, Len(p)) \in Seq(T)
         /\ Len(b \o SubSeq(p, 1, n)) = Len(b) + n
         /\ Len(SubSeq(p, n + 1, Len(p))) = Len(p) - n
         /\ (b \o SubSeq(p, 1, n)) \o SubSeq(p, n + 1, Len(p)) = b \o p
<1> DEFINE x == SubSeq(p, 1, n)
           y == SubSeq(p, n + 1, Len(p))
<1>1. \A k \in 1 .. Len(p) : p[k] \in T
  OBVIOUS
<1>2. x \in Seq(T) /\ Len(x) = n
  BY <1>1, SubSeqProperties
<1>3. y \in Seq(T) /\ Len(y) = Len(p) - n
  BY <1>1, SubSeqProperties
<1>4. x \o y = SubSeq(p, 1, Len(p))
  BY ConcatAdjacentSubSeq
<1>5. x \o y = p
  BY <1>4, SubSeqFull
<1> HIDE DEF x, y
<1>6. b \o x \in Seq(T) /\ Len(b \o x) = Len(b) + n
  BY <1>2, ConcatProperties, Zenon
<1>7. (b \o x) \o y = b \o (x \o y)
  <2> DEFINE c == b \o x
             d == x \o y
  <2>1. /\ c \o y \in Seq(T) /\ Len(c \o y) = Len(c) + Len(y)
        /\ \A k \in 1 .. Len(c) + Len(y) : (c \o y)[k] = IF k <= Len(c) THEN c[k] ELSE y[k - Len(c)]
    BY <1>3, <1>6, ConcatProperties, Zenon
  <2>2. /\ b \o d \in Seq(T) /\ Len(b \o d) = Len(b) + Len(d)
        /\ \A k \in 1 .. Len(b) + Len(d) : (b \o d)[k] = IF k <= Len(b) THEN b[k] ELSE d[k - Len(b)]
    <3>1. d \in Seq(T)
      BY <1>5, Zenon
    <3> QED
      BY <3>1, ConcatProperties, Zenon
  <2>3. /\ Len(c) = Len(b) + Len(x)
        /\ \A k \in 1 .. Len(b) + Len(x) : c[k] = IF k <= Len(b) THEN b[k] ELSE x[k - Len(b)]
    BY <1>2, ConcatProperties, Zenon
  <2>4. /\ Len(d) = Len(x) + Len(y)
        /\ \A k \in 1 .. Len(x) + Len(y) : d[k] = IF k <= Len(x) THEN x[k] ELSE y[k - Len(x)]
    BY <1>2, <1>3, ConcatProperties, Zenon
  <2>5. Len(b) \in Nat /\ Len(x) \in Nat /\ Len(y) \in Nat
    BY <1>2, <1>3
  <2> HIDE DEF c, d
  <2>6. Len(c \o y) = Len(b \o d)
    BY ONLY <2>1, <2>2, <2>3, <2>4, <2>5
  <2>7. ASSUME NEW k \in 1 .. Len(c \o y) PROVE (c \o y)[k] = (b \o d)[k]
    <3>0. /\ k \in 1 .. Len(c) + Len(y) /\ k \in 1 .. Len(b) + Len(d) /\ k \in Nat
          /\ Len(c) = Len(b) + Len(x) /\ Len(d) = Len(x) + Len(y)
      BY ONLY <2>1, <2>3, <2>4, <2>5, <2>7
    <3>1. CASE k <= Len(b)
      <4>1. k <= Len(c) /\ k \in 1 .. Len(b) + Len(x)
        BY ONLY <2>5, <3>0, <3>1
      <4> QED
        BY ONLY <2>1, <2>2, <2>3, <3>0, <3>1, <4>1
    <3>2. CASE ~(k <= Len(b)) /\ k <= Len(c)
      <4>1. /\ k \in 1 .. Len(b) + Len(x) /\ k - Len(b) \in 1 .. Len(x) + Len(y)
            /\ k - Len(b) <= Len(x)
        BY ONLY <2>5, <3>0, <3>2
      <4>2. (c \o y)[k] = c[k] /\ c[k] = x[k - Len(b)]
        BY <2>1, <2>3, <3>0, <3>2, <4>1, Zenon
      <4>3. (b \o d)[k] = d[k - Len(b)] /\ d[k - Len(b)] = x[k - Len(b)]
        BY <2>2, <2>4, <3>0, <3>2, <4>1, Zenon
      <4> QED
        BY <4>2, <4>3, Zenon
    <3>3. CASE ~(k <= Len(b)) /\ ~(k <= Len(c))
      <4>1. /\ k - Len(b) \in 1 .. Len(x) + Len(y) /\ ~(k - Len(b) <= Len(x))
            /\ k - Len(b) - Len(x) = k - Len(c)
        BY ONLY <2>5, <3>0, <3>3
      <4>2. (c \o y)[k] = y[k - Len(c)]
        BY <2>1, <3>0, <3>3, Zenon
      <4>3. (b \o d)[k] = d[k - Len(b)] /\ d[k - Len(b)] = y[k - Len(b) - Len(x)]
        BY <2>2, <2>4, <3>0, <3>3, <4>1, Zenon
      <4> QED
        BY <4>1, <4>2, <4>3, Zenon
    <3> QED
      BY <3>1, <3>2, <3>3, Zenon
  <2>8. c \o y = b \o d
    BY <2>1, <2>2, <2>6, <2>7, SeqEqual, Zenon
  <2> QED
    BY <2>8, Zenon DEF c, d
<1> QED
  BY <1>2, <1>3, <1>5, <1>6, <1>7, Zenon DEF x, y

LEMMA ConcatIs ==
  ASSUME NEW T, NEW b \in Seq(T), NEW p \in Seq(T)
  PROVE  /\ b \o p \in Seq(T) /\ Len(b \o p) = Len(b) + Len(p)
         /\ \A k \in 1 .. Len(b) : (b \o p)[k] = b[k]
         /\ \A k \in 1 .. Len(p) : (b \o p)[Len(b) + k] = p[k]
<1>1. /\ b \o p \in Seq(T) /\ Len(b \o p) = Len(b) + Len(p)
      /\ \A k \in 1 .. Len(b) + Len(p) :
           (b \o p)[k] = IF k <= Len(b) THEN b[k] ELSE p[k - Len(b)]
  BY ConcatProperties, Zenon
<1>2. Len(b) \in Nat /\ Len(p) \in Nat
  OBVIOUS
<1>3. \A k \in 1 .. Len(b) : (b \o p)[k] = b[k]
  BY ONLY <1>1, <1>2
<1>4. ASSUME NEW k \in 1 .. Len(p) PROVE (b \o p)[Len(b) + k] = p[k]
  <2>1. /\ Len(b) + k \in 1 .. Len(b) + Len(p) /\ ~(Len(b) + k <= Len(b))
        /\ Len(b) + k - Len(b) = k
    BY ONLY <1>2, <1>4
  <2> QED
    BY ONLY <1>1, <2>1
<1> QED
  BY <1>1, <1>3, <1>4, Zenon

LEMMA StreamIs ==
  ASSUME Types, Open
  PROVE  /\ gen \in 1 .. MaxOpens /\ pipe[gen] \in Seq(Piece) /\ buf \in Seq(Piece)
         /\ Stream \in Seq(Piece) /\ Len(Stream) = Len(buf) + Len(pipe[gen])
         /\ \A k \in 1 .. Len(buf) : Stream[k] = buf[k]
         /\ \A k \in 1 .. Len(pipe[gen]) : Stream[Len(buf) + k] = pipe[gen][k]
<1>1. gen \in 1 .. MaxOpens
  BY DEF Types, InfeedTypeOK, Open
<1>2. pipe[gen] \in Seq(Piece) /\ buf \in Seq(Piece)
  BY <1>1, Zenon DEF Types
<1>3. /\ buf \o pipe[gen] \in Seq(Piece)
      /\ Len(buf \o pipe[gen]) = Len(buf) + Len(pipe[gen])
      /\ \A k \in 1 .. Len(buf) : (buf \o pipe[gen])[k] = buf[k]
      /\ \A k \in 1 .. Len(pipe[gen]) : (buf \o pipe[gen])[Len(buf) + k] = pipe[gen][k]
  BY <1>2, ConcatIs
<1> QED
  BY <1>1, <1>2, <1>3, Zenon DEF Stream

-----------------------------------------------------------------------------
(* A write adds pieces of the packet of the inserter with the lock.         *)
LEMMA WriteFlow ==
  ASSUME Types, Locks, Open, Flow, NEW i \in Inserts, NEW n \in 1 .. left[i],
         st[i] = "write", fifo[i] = gen,
         Stream' \in Seq(Piece), Len(Stream') = Len(Stream) + n,
         \A k \in 1 .. Len(Stream) : Stream'[k] = Stream[k],
         \A k \in 1 .. n : Stream'[Len(Stream) + k] =
            [insert |-> i, part |-> part[i], unit |-> Units - left[i] + k],
         left' = [left EXCEPT ![i] = @ - n],
         st' = IF left[i] = n THEN [st EXCEPT ![i] = "build"] ELSE st,
         UNCHANGED <<fifo, part, gen, saved>>
  PROVE  Flow'
<1> DEFINE S == Stream
           T == Stream'
           L == Len(Stream)
           p == part[i]
           u == Units - left[i]
<1>1. /\ S \in Seq(Piece) /\ L \in Nat /\ p \in Nat /\ p # 0
      /\ left[i] \in 1 .. Units /\ u \in 0 .. Units - 1 /\ n \in 1 .. Units - u
      /\ DOMAIN S = 1 .. L /\ T \in Seq(Piece) /\ Len(T) = L + n /\ DOMAIN T = 1 .. L + n
  <2>1. S \in Seq(Piece)
    BY StreamIs
  <2>2. L \in Nat /\ DOMAIN S = 1 .. L /\ DOMAIN T = 1 .. L + n
    BY <2>1
  <2>3. p \in Nat /\ p # 0 /\ left[i] \in 0 .. Units /\ left[i] # 0 /\ Units \in Nat
    BY DEF Types, InfeedTypeOK, Locks
  <2>4. left[i] \in 1 .. Units /\ u \in 0 .. Units - 1 /\ n \in 1 .. Units - u
    BY ONLY <2>3, n \in 1 .. left[i]
  <2> QED
    BY <2>1, <2>2, <2>3, <2>4
<1> HIDE DEF L, u
<1>2. /\ \A k \in 1 .. L : T[k] = S[k] /\ S[k] \in Piece
      /\ \A k \in L + 1 .. L + n : T[k] = [insert |-> i, part |-> p, unit |-> u + (k - L)]
  <2>1. \A k \in 1 .. L : T[k] = S[k] /\ S[k] \in Piece
    BY <1>1 DEF L
  <2>2. \A k \in L + 1 .. L + n : k - L \in 1 .. n /\ L + (k - L) = k
    BY ONLY <1>1
  <2>3. \A k \in 1 .. n : T[L + k] = [insert |-> i, part |-> p, unit |-> u + k]
    BY Zenon DEF L, u
  <2>4. ASSUME NEW k \in L + 1 .. L + n
        PROVE  T[k] = [insert |-> i, part |-> p, unit |-> u + (k - L)]
    BY <2>2, <2>3, Zenon
  <2> QED
    BY <2>1, <2>4
<1>3. \A j \in Inserts : st'[j] = "killed" <=> st[j] = "killed"
  BY Zenon DEF Types, InfeedTypeOK
<1>4. \A j : AbsentSaved(j)' <=> AbsentSaved(j)
  BY DEF AbsentSaved
<1>5. \/ /\ u = 0 /\ p = 1 /\ AbsentSaved(i) /\ \A k \in 1 .. L : S[k].insert # i
      \/ /\ u = 0 /\ p > 1 /\ L = 0 /\ saved # <<>>
         /\ saved[Len(saved)] = [insert |-> i, part |-> p - 1]
      \/ /\ u = 0 /\ p > 1 /\ L > 0 /\ S[L] = [insert |-> i, part |-> p - 1, unit |-> Units]
      \/ /\ u > 0 /\ L > 0 /\ S[L] = [insert |-> i, part |-> p, unit |-> u]
  <2>1. IF left[i] = Units THEN Behind(i, p - 1)
        ELSE S # <<>> /\ S[L] = [insert |-> i, part |-> p, unit |-> u]
    BY DEF Flow, Writers, L, u
  <2>2. S = <<>> <=> L = 0
    BY <1>1 DEF L
  <2>3. left[i] = Units <=> u = 0
    BY <1>1 DEF u
  <2>4. CASE u = 0 /\ p = 1
    <3>1. Behind(i, p - 1) /\ p - 1 = 0
      BY <1>1, <2>1, <2>3, <2>4
    <3>2. Absent(i)
      BY <3>1, Zenon DEF Behind
    <3> QED
      BY <1>1, <2>4, <3>2, Zenon DEF Absent
  <2>5. CASE u = 0 /\ p # 1 /\ L = 0
    <3>1. Behind(i, p - 1) /\ S = <<>>
      BY <2>1, <2>2, <2>3, <2>5, Zenon
    <3>a. p - 1 # 0 /\ p > 1
      BY <1>1, <2>5
    <3>2. saved # <<>> /\ saved[Len(saved)] = [insert |-> i, part |-> p - 1]
      BY <3>1, <3>a, Zenon DEF Behind
    <3> QED
      BY <2>5, <3>a, <3>2, Zenon
  <2>6. CASE u = 0 /\ p # 1 /\ L # 0
    <3>1. Behind(i, p - 1) /\ S # <<>>
      BY <2>1, <2>2, <2>3, <2>6, Zenon
    <3>2. p - 1 # 0 /\ p > 1 /\ L > 0
      BY <1>1, <2>6
    <3>3. S[L] = [insert |-> i, part |-> p - 1, unit |-> Units]
      BY <3>1, <3>2, Zenon DEF Behind, L
    <3> QED
      BY <2>6, <3>2, <3>3, Zenon
  <2>7. CASE u # 0
    BY <1>1, <2>1, <2>2, <2>3, <2>7
  <2> QED
    BY <2>4, <2>5, <2>6, <2>7, Zenon
<1> HIDE DEF S, T, p
<1>b. /\ L \in Nat /\ n \in Nat /\ n >= 1 /\ u \in Nat /\ u + n <= Units /\ Units \in Nat
      /\ p \in Nat /\ p >= 1
  BY ONLY <1>1, Units \in Nat
<1>6. Heads'
  <2> SUFFICES /\ T[1].unit = 1
               /\ \/ T[1].part = 1 /\ AbsentSaved(T[1].insert)
                  \/ /\ saved # <<>>
                     /\ saved[Len(saved)].insert = T[1].insert
                     /\ T[1].part = saved[Len(saved)].part + 1
    BY <1>4 DEF Heads, T
  <2>1. CASE L > 0
    <3>1. S # <<>> /\ T[1] = S[1]
      BY <1>1, <1>2, <2>1
    <3> QED
      BY <3>1, Zenon DEF Flow, Heads, S
  <2>2. CASE L = 0
    <3>1. T[1] = [insert |-> i, part |-> p, unit |-> u + 1]
      BY <1>1, <1>2, <2>2
    <3>2. u = 0 /\ \/ p = 1 /\ AbsentSaved(i)
                   \/ saved # <<>> /\ saved[Len(saved)] = [insert |-> i, part |-> p - 1]
      BY <1>5, <2>2
    <3>3. T[1].unit = 1 /\ T[1].part = p /\ T[1].insert = i
      BY <3>1, <3>2
    <3> QED
      BY <1>1, <3>2, <3>3
  <2> QED
    BY <1>1, <2>1, <2>2
<1>7. Links'
  <2>0. 1 .. Len(T) - 1 = 1 .. L + n - 1
    <3>1. Len(T) = L + n
      BY <1>1, Zenon
    <3> QED
      BY ONLY <1>b, <3>1
  <2> SUFFICES ASSUME NEW k \in 1 .. L + n - 1, T[k].unit = Units
               PROVE  /\ T[k + 1].unit = 1
                      /\ \/ /\ T[k + 1].part = 1 /\ AbsentSaved(T[k + 1].insert)
                            /\ \A j \in 1 .. k : T[j].insert # T[k + 1].insert
                         \/ /\ T[k + 1].insert = T[k].insert
                            /\ T[k + 1].part = T[k].part + 1
    BY <1>4, <2>0, Zenon DEF Links, T
  <2>1. CASE k < L
    <3>0. k \in 1 .. L - 1 /\ k \in 1 .. L /\ k + 1 \in 1 .. L /\ 1 .. k \subseteq 1 .. L
      BY ONLY <1>b, <2>1, k \in 1 .. L + n - 1
    <3>1. /\ T[k] = S[k] /\ T[k + 1] = S[k + 1]
          /\ \A j \in 1 .. k : T[j] = S[j]
      BY <1>2, <3>0, Zenon
    <3> QED
      <4>1. S[k].unit = Units =>
              /\ S[k + 1].unit = 1
              /\ \/ /\ S[k + 1].part = 1 /\ AbsentSaved(S[k + 1].insert)
                    /\ \A j \in 1 .. k : S[j].insert # S[k + 1].insert
                 \/ /\ S[k + 1].insert = S[k].insert
                    /\ S[k + 1].part = S[k].part + 1
        BY <3>0, Zenon DEF Flow, Links, L, S
      <4> QED
        BY ONLY <3>1, <4>1, T[k].unit = Units
  <2>2. CASE k = L
    <3>1. /\ T[L] = S[L] /\ L > 0 /\ \A j \in 1 .. L : T[j] = S[j]
          /\ T[L + 1] = [insert |-> i, part |-> p, unit |-> u + 1]
      BY <1>1, <1>2, <2>2
    <3>2. S[L] = [insert |-> i, part |-> p, unit |-> u] => S[L].unit # Units
      BY <1>1
    <3>3. \/ u = 0 /\ p = 1 /\ AbsentSaved(i) /\ \A j \in 1 .. L : S[j].insert # i
          \/ u = 0 /\ p > 1 /\ S[L] = [insert |-> i, part |-> p - 1, unit |-> Units]
      BY <1>5, <2>2, <3>1, <3>2
    <3>4. T[k + 1].unit = 1 /\ T[k + 1].part = p /\ T[k + 1].insert = i
      BY <2>2, <3>1, <3>3
    <3> QED
      <4>1. CASE AbsentSaved(i) /\ p = 1 /\ \A j \in 1 .. L : S[j].insert # i
        BY ONLY <2>2, <3>1, <3>4, <4>1
      <4>2. CASE S[L] = [insert |-> i, part |-> p - 1, unit |-> Units]
        <5>1. T[k].insert = i /\ p = T[k].part + 1
          BY ONLY <1>b, <2>2, <3>1, <4>2
        <5> QED
          BY ONLY <3>4, <5>1
      <4> QED
        BY <3>3, <4>1, <4>2, Zenon
  <2>3. CASE k > L
    <3>1. k \in L + 1 .. L + n /\ u + (k - L) # Units
      BY ONLY <1>b, <2>3, k \in 1 .. L + n - 1
    <3>2. T[k] = [insert |-> i, part |-> p, unit |-> u + (k - L)]
      BY <1>2, <3>1, Zenon
    <3>3. T[k].unit = u + (k - L)
      BY ONLY <3>2
    <3> QED
      BY <3>1, <3>3, Zenon
  <2>4. k < L \/ k = L \/ k > L
    BY ONLY <1>b, k \in 1 .. L + n - 1
  <2> QED
    BY <2>1, <2>2, <2>3, <2>4, Zenon
<1>d. left[i] \in Nat /\ left[i] = Units - u
  BY <1>1 DEF u
<1>c. \A j \in Inserts : lock[gen] = i /\ (st[j] \in {"build", "write"} /\ fifo[j] = gen => j = i)
  BY DEF Locks
<1>8. Runs'
  <2>0. DOMAIN T = 1 .. L + n /\ Len(T) = L + n
    BY <1>1, Zenon
  <2> SUFFICES ASSUME NEW a \in 1 .. L + n, NEW c \in a .. L + n, c - a <= Units - T[a].unit,
                      st'[T[a].insert] # "killed"
               PROVE  T[c] = [T[a] EXCEPT !.unit = @ + (c - a)]
    BY <2>0, Zenon DEF Runs, T
  <2>1. CASE c <= L
    <3>0. a \in 1 .. L /\ c \in 1 .. L /\ c \in a .. L
      BY ONLY <1>b, <2>1, a \in 1 .. L + n, c \in a .. L + n
    <3>1. T[a] = S[a] /\ T[c] = S[c] /\ S[a] \in Piece
      BY <1>2, <3>0, Zenon
    <3>2. st[S[a].insert] # "killed"
      BY <1>3, <3>1, Zenon DEF Piece
    <3>3. \/ st[S[a].insert] = "killed"
          \/ S[c] = [S[a] EXCEPT !.unit = @ + (c - a)]
          \/ ~(c - a <= Units - S[a].unit)
      BY <1>1, <3>0, Zenon DEF Flow, Runs, S, L
    <3> QED
      BY <3>1, <3>2, <3>3, Zenon
  <2>2. CASE a > L
    <3>1. a \in L + 1 .. L + n /\ c \in L + 1 .. L + n /\ u + (c - L) = u + (a - L) + (c - a)
      BY ONLY <1>b, <2>2, a \in 1 .. L + n, c \in a .. L + n
    <3>2. /\ T[a] = [insert |-> i, part |-> p, unit |-> u + (a - L)]
          /\ T[c] = [insert |-> i, part |-> p, unit |-> u + (c - L)]
      BY <1>2, <3>1, Zenon
    <3> QED
      BY ONLY <3>1, <3>2
  <2>3. CASE a <= L /\ c > L
    <3>0. a \in 1 .. L /\ L \in 1 .. L /\ L \in a .. L /\ c \in L + 1 .. L + n /\ L > 0
      BY ONLY <1>b, <2>3, a \in 1 .. L + n, c \in a .. L + n
    <3>1. T[a] = S[a] /\ S[a] \in Piece /\ S[L] \in Piece
          /\ T[c] = [insert |-> i, part |-> p, unit |-> u + (c - L)]
      BY <1>2, <3>0, Zenon
    <3>2. /\ S[a].unit \in 1 .. Units /\ S[L].unit \in 1 .. Units
          /\ S[a].insert \in Inserts /\ S[L].insert \in Inserts
      BY <3>1, Zenon DEF Piece
    <3>3. st[S[a].insert] # "killed"
      BY <1>3, <3>1, <3>2, Zenon
    <3>4. L - a <= Units - S[a].unit
      BY ONLY <1>b, <3>0, <3>1, <3>2, c - a <= Units - T[a].unit
    <3>5. S[L] = [S[a] EXCEPT !.unit = @ + (L - a)]
      BY <1>1, <3>0, <3>3, <3>4, Zenon DEF Flow, Runs, S, L
    <3>6. S[L].insert = S[a].insert /\ S[L].part = S[a].part /\ S[L].unit = S[a].unit + (L - a)
      BY ONLY <3>1, <3>5 DEF Piece
    <3>7. S[L].unit # Units
      BY ONLY <1>b, <3>0, <3>1, <3>2, <3>6, c - a <= Units - T[a].unit
    <3>8. st[S[L].insert] = "write" /\ left[S[L].insert] = Units - S[L].unit
      <4>1. S # <<>>
        BY <1>1, <3>0 DEF L
      <4> QED
        BY <3>3, <3>6, <3>7, <4>1, Zenon DEF Flow, Unfinished, S, L
    <3>9. S[L].insert = i
      <4>1. fifo[S[L].insert] = gen
        BY <1>1, <3>0, Zenon DEF Flow, Writers, S
      <4> QED
        BY <1>c, <3>2, <3>8, <4>1, Zenon
    <3>10. S[L].unit = u
      <4>1. left[i] = Units - S[L].unit
        BY <3>8, <3>9, Zenon
      <4> QED
        BY ONLY <1>b, <1>d, <3>2, <4>1
    <3>11. S[L] = [insert |-> i, part |-> p, unit |-> u]
      BY <1>5, <3>0, <3>2, <3>9, <3>10
    <3>12. S[a].insert = i /\ S[a].part = p /\ u + (c - L) = S[a].unit + (c - a)
      BY ONLY <1>b, <3>0, <3>2, <3>6, <3>10, <3>11
    <3> QED
      BY ONLY <3>1, <3>12 DEF Piece
  <2>4. c <= L \/ a > L \/ (a <= L /\ c > L)
    BY ONLY <1>b, a \in 1 .. L + n, c \in a .. L + n
  <2> QED
    BY <2>1, <2>2, <2>3, <2>4, Zenon
<1>9. /\ T # <<>> /\ Len(T) = L + n
      /\ T[L + n] = [insert |-> i, part |-> p, unit |-> u + n]
      /\ left'[i] = Units - (u + n) /\ st'[i] = IF u + n = Units THEN "build" ELSE "write"
  <2>1. L + n \in L + 1 .. L + n /\ L + n - L = n /\ L + n # 0
    BY ONLY <1>b
  <2>2. T # <<>> /\ Len(T) = L + n
    BY <1>1, <2>1, Zenon
  <2>3. T[L + n] = [insert |-> i, part |-> p, unit |-> u + n]
    <3> DEFINE m == L + n
    <3>1. m \in L + 1 .. L + n /\ u + (m - L) = u + n
      BY ONLY <1>b
    <3> HIDE DEF m
    <3>2. T[m] = [insert |-> i, part |-> p, unit |-> u + (m - L)]
      BY <1>2, <3>1, Zenon
    <3>3. T[m] = [insert |-> i, part |-> p, unit |-> u + n]
      BY ONLY <3>1, <3>2
    <3> QED
      BY <3>3, Zenon DEF m
  <2>4. left'[i] = left[i] - n /\ st'[i] = IF left[i] = n THEN "build" ELSE "write"
    BY DEF Types, InfeedTypeOK
  <2>5. left[i] - n = Units - (u + n) /\ (left[i] = n <=> u + n = Units)
    BY ONLY <1>b, <1>d
  <2> QED
    BY <2>2, <2>3, <2>4, <2>5, Zenon
<1>10. Unfinished'
  BY <1>9 DEF Unfinished, T
<1>11. Writers'
  <2>0. DOMAIN T = 1 .. L + n
    BY <1>1, Zenon
  <2>1. ASSUME NEW k \in 1 .. L + n PROVE fifo[T[k].insert] = gen
    <3>1. CASE k \in 1 .. L
      <4>1. T[k] = S[k] /\ k \in DOMAIN S
        BY <1>1, <1>2, <3>1, Zenon
      <4> QED
        BY <4>1, Zenon DEF Flow, Writers, S
    <3>2. CASE k \in L + 1 .. L + n
      <4>1. T[k] = [insert |-> i, part |-> p, unit |-> u + (k - L)]
        BY <1>2, <3>2, Zenon
      <4> QED
        BY <4>1
    <3> QED
      BY <1>b, <3>1, <3>2
  <2>2. ASSUME NEW j \in Inserts, fifo[j] = gen, st'[j] = "flock" PROVE Absent(j)'
    <3>1. st[j] = "flock" /\ j # i
      BY <2>2, Zenon DEF Types, InfeedTypeOK
    <3>2. AbsentSaved(j) /\ \A k \in 1 .. L : S[k].insert # j
      BY <1>1, <2>2, <3>1, Zenon DEF Flow, Writers, Absent, S
    <3>3. ASSUME NEW k \in 1 .. L + n PROVE T[k].insert # j
      <4>1. CASE k \in 1 .. L
        BY <1>2, <3>2, <4>1, Zenon
      <4>2. CASE k \in L + 1 .. L + n
        <5>1. T[k] = [insert |-> i, part |-> p, unit |-> u + (k - L)]
          BY <1>2, <4>2, Zenon
        <5> QED
          BY <3>1, <5>1
      <4> QED
        BY <1>b, <4>1, <4>2
    <3> QED
      BY <1>4, <2>0, <3>2, <3>3, Zenon DEF Absent, T
  <2>3. ASSUME NEW j \in Inserts, fifo[j] = gen, st'[j] = "build" PROVE Behind(j, part[j])'
    <3>1. j = i
      BY <1>c, <2>3, Zenon DEF Types, InfeedTypeOK
    <3>2. p # 0 /\ T[Len(T)] = [insert |-> i, part |-> p, unit |-> Units]
      BY <1>b, <1>9, <2>3, <3>1
    <3> QED
      BY <1>9, <3>1, <3>2, Zenon DEF Behind, T, p
  <2>4. ASSUME NEW j \in Inserts, fifo[j] = gen, st'[j] = "write"
        PROVE  /\ left'[j] # Units /\ T # <<>>
               /\ T[Len(T)] = [insert |-> j, part |-> part[j], unit |-> Units - left'[j]]
    <3>1. j = i
      BY <1>c, <2>4, Zenon DEF Types, InfeedTypeOK
    <3>2. left'[i] # Units /\ Units - left'[i] = u + n
      BY ONLY <1>b, <1>9
    <3> QED
      BY <1>9, <3>1, <3>2, Zenon DEF p
  <2> QED
    BY <2>0, <2>1, <2>2, <2>3, <2>4, Zenon DEF Writers, T
<1> QED
  BY <1>6, <1>7, <1>8, <1>10, <1>11, Zenon DEF Flow

(* A packet leaves the head of the stream and is the last one saved.        *)
LEMMA SaveFlow ==
  ASSUME Types, Locks, SavedApart, Open, Flow,
         Len(Stream) >= Units, \A c \in 1 .. Units : Stream[c] = [Stream[1] EXCEPT !.unit = c],
         Stream' \in Seq(Piece), Len(Stream') = Len(Stream) - Units,
         \A k \in 1 .. Len(Stream') : Stream'[k] = Stream[Units + k],
         saved' = Append(saved, [insert |-> Stream[1].insert, part |-> Stream[1].part]),
         UNCHANGED <<st, fifo, part, left, gen>>
  PROVE  Flow' /\ SavedApart'
<1> DEFINE S == Stream
           T == Stream'
           M == Len(Stream')
           N == Len(saved)
           i == Stream[1].insert
           p == Stream[1].part
<1>1. /\ S \in Seq(Piece) /\ Len(S) \in Nat /\ DOMAIN S = 1 .. Len(S)
      /\ T \in Seq(Piece) /\ DOMAIN T = 1 .. M /\ Len(T) = M
  BY StreamIs
<1>2. M \in Nat /\ Len(S) = Units + M /\ Units \in Nat /\ Units >= 1
  BY <1>1
<1>3. S # <<>> /\ S[1] \in Piece
  BY <1>1, <1>2
<1>4. i \in Inserts /\ p \in Nat /\ p # 0
  BY <1>3, Zenon DEF Piece
<1>5. saved \in Seq(Packet) /\ N \in Nat /\ DOMAIN saved = 1 .. N
  BY DEF Types
<1>a. saved' = Append(saved, [insert |-> i, part |-> p])
  OBVIOUS
<1>b. \A k \in 1 .. M : T[k] = S[Units + k]
  BY Zenon
<1>c. \A c \in 1 .. Units : S[c] = [S[1] EXCEPT !.unit = c]
  BY Zenon
<1>6. S[Units] \in Piece /\ S[Units].insert = i /\ S[Units].part = p /\ S[Units].unit = Units
  <2>1. Units \in 1 .. Units
    BY ONLY <1>2
  <2>2. S[Units] = [S[1] EXCEPT !.unit = Units]
    BY <1>c, <2>1, Zenon
  <2>3. \A e \in Piece : LET f == [e EXCEPT !.unit = Units]
                         IN f \in Piece /\ f.insert = e.insert /\ f.part = e.part /\ f.unit = Units
    BY ONLY <2>1 DEF Piece
  <2> QED
    BY <1>3, <2>2, <2>3, Zenon
<1>7. /\ saved' # <<>> /\ Len(saved') = N + 1 /\ DOMAIN saved' = 1 .. N + 1
      /\ saved'[N + 1] = [insert |-> i, part |-> p]
      /\ \A k \in 1 .. N : saved'[k] = saved[k]
  <2>1. [insert |-> i, part |-> p] \in Packet
    BY <1>4, Zenon DEF Packet
  <2> DEFINE e == [insert |-> i, part |-> p]
  <2>2. saved' = Append(saved, e) /\ e \in Packet
    BY <1>a, <2>1
  <2> HIDE DEF e
  <2>3. /\ Append(saved, e) # <<>> /\ Len(Append(saved, e)) = Len(saved) + 1
        /\ DOMAIN Append(saved, e) = 1 .. Len(saved) + 1
        /\ Append(saved, e)[Len(saved) + 1] = e
        /\ \A k \in 1 .. Len(saved) : Append(saved, e)[k] = saved[k]
    BY ONLY <1>5, <2>2
  <2> QED
    BY <2>2, <2>3, Zenon DEF e
<1> HIDE DEF S, T, M, N, i, p
<1>8. ASSUME NEW j
      PROVE  (\A k \in DOMAIN saved' : saved'[k].insert # j) <=> AbsentSaved(j) /\ j # i
  <2>1. \A k \in 1 .. N + 1 : k = N + 1 \/ k \in 1 .. N
    BY ONLY <1>5
  <2>2. N + 1 \in 1 .. N + 1 /\ \A k \in 1 .. N : k \in 1 .. N + 1
    BY ONLY <1>5
  <2>3. saved'[N + 1].insert = i
    BY <1>7
  <2> QED
    BY <1>5, <1>7, <2>1, <2>2, <2>3, Zenon DEF AbsentSaved
<1>9. /\ S[1].unit = 1
      /\ \/ p = 1 /\ AbsentSaved(i)
         \/ saved # <<>> /\ saved[N].insert = i /\ p = saved[N].part + 1
  BY <1>3, Zenon DEF Flow, Heads, S, N, i, p
<1>10. SavedApart'
  <2> SUFFICES ASSUME NEW k \in 1 .. N + 1
      PROVE \/ saved'[k].part = 1 /\ \A j \in 1 .. k - 1 : saved'[j].insert # saved'[k].insert
            \/ k > 1 /\ saved'[k] = [saved'[k - 1] EXCEPT !.part = @ + 1]
    BY <1>7, Zenon DEF SavedApart
  <2>1. CASE k \in 1 .. N
    <3>0. \A j \in 1 .. k - 1 : j \in 1 .. N
      BY ONLY <1>5, <2>1
    <3>1. saved'[k] = saved[k] /\ \A j \in 1 .. k - 1 : saved'[j] = saved[j]
      BY <1>7, <2>1, <3>0, Zenon
    <3>2. k > 1 => saved'[k - 1] = saved[k - 1]
      <4>1. k > 1 => k - 1 \in 1 .. N
        BY ONLY <1>5, <2>1
      <4> QED
        BY <1>7, <4>1, Zenon
    <3>3. \/ saved[k].part = 1 /\ \A j \in 1 .. k - 1 : saved[j].insert # saved[k].insert
          \/ k > 1 /\ saved[k] = [saved[k - 1] EXCEPT !.part = @ + 1]
      BY <1>5, <2>1, Zenon DEF SavedApart
    <3> QED
      BY ONLY <3>1, <3>2, <3>3
  <2>2. CASE k = N + 1
    <3>0. k - 1 = N
      BY ONLY <1>5, <2>2
    <3>1. CASE p = 1 /\ AbsentSaved(i)
      <4>1. \A j \in 1 .. N : saved'[j].insert # i
        BY <1>5, <1>7, <3>1, Zenon DEF AbsentSaved
      <4>2. saved'[k].part = 1 /\ saved'[k].insert = i
        BY <1>7, <2>2, <3>1
      <4> QED
        BY <3>0, <4>1, <4>2, Zenon
    <3>2. CASE saved # <<>> /\ saved[N].insert = i /\ p = saved[N].part + 1
      <4>1. N >= 1 /\ N \in 1 .. N /\ saved[N] \in Packet
        BY <1>5, <3>2 DEF N
      <4>2. saved'[k] = [insert |-> i, part |-> p] /\ saved'[k - 1] = saved[N]
        BY <1>7, <2>2, <3>0, <4>1, Zenon
      <4>3. [insert |-> i, part |-> p] = [saved[N] EXCEPT !.part = @ + 1]
        BY ONLY <3>2, <4>1 DEF Packet
      <4>4. k > 1
        BY ONLY <1>5, <2>2, <4>1
      <4>5. saved'[k] = [saved'[k - 1] EXCEPT !.part = @ + 1]
        BY ONLY <4>2, <4>3
      <4> QED
        BY <4>4, <4>5, Zenon
    <3> QED
      BY <1>9, <3>1, <3>2, Zenon
  <2>3. k = N + 1 \/ k \in 1 .. N
    BY ONLY <1>5, k \in 1 .. N + 1
  <2> QED
    BY <2>1, <2>2, <2>3, Zenon
<1>11. \A k \in 1 .. M : Units + k \in 1 .. Len(S) /\ Units + k \in DOMAIN S
  BY ONLY <1>1, <1>2
<1>12. Heads'
  <2> SUFFICES ASSUME T # <<>>
               PROVE  /\ T[1].unit = 1
                      /\ \/ T[1].part = 1 /\ AbsentSaved(T[1].insert) /\ T[1].insert # i
                         \/ T[1].insert = i /\ T[1].part = p + 1
    <3>1. saved'[Len(saved')].insert = i /\ saved'[Len(saved')].part = p
      BY <1>7
    <3> QED
      BY <1>7, <1>8, <3>1, Zenon DEF Heads, T, AbsentSaved
  <2>1. M >= 1 /\ 1 \in 1 .. M /\ Units \in 1 .. Len(S) - 1 /\ 1 \in 1 .. Units
    <3>1. M # 0
      BY ONLY <1>1, T # <<>>
    <3> QED
      BY ONLY <1>2, <3>1
  <2>2. T[1] = S[Units + 1]
    BY <1>b, <2>1, Zenon
  <2>3. S[Units].unit = Units =>
          /\ S[Units + 1].unit = 1
          /\ \/ /\ S[Units + 1].part = 1 /\ AbsentSaved(S[Units + 1].insert)
                /\ \A j \in 1 .. Units : S[j].insert # S[Units + 1].insert
             \/ /\ S[Units + 1].insert = S[Units].insert
                /\ S[Units + 1].part = S[Units].part + 1
    BY <2>1, Zenon DEF Flow, Links, S
  <2>4. CASE /\ S[Units + 1].part = 1 /\ AbsentSaved(S[Units + 1].insert)
             /\ \A j \in 1 .. Units : S[j].insert # S[Units + 1].insert
    <3>1. S[Units + 1].insert # i
      BY <2>1, <2>4, Zenon DEF i, S
    <3> QED
      BY <1>6, <2>2, <2>3, <2>4, <3>1, Zenon
  <2>5. CASE S[Units + 1].insert = S[Units].insert /\ S[Units + 1].part = S[Units].part + 1
    BY ONLY <1>6, <2>2, <2>3, <2>5
  <2> QED
    BY <1>6, <2>3, <2>4, <2>5, Zenon
<1>13. Links'
  <2> SUFFICES ASSUME NEW k \in 1 .. M - 1, T[k].unit = Units
               PROVE  /\ T[k + 1].unit = 1
                      /\ \/ /\ T[k + 1].part = 1 /\ AbsentSaved(T[k + 1].insert) /\ T[k + 1].insert # i
                            /\ \A j \in 1 .. k : T[j].insert # T[k + 1].insert
                         \/ /\ T[k + 1].insert = T[k].insert
                            /\ T[k + 1].part = T[k].part + 1
    BY <1>1, <1>8, Zenon DEF Links, T, AbsentSaved
  <2> DEFINE m == Units + k
  <2>1. /\ k \in 1 .. M /\ k + 1 \in 1 .. M /\ m \in 1 .. Len(S) - 1 /\ Units + (k + 1) = m + 1
        /\ 1 \in 1 .. m /\ \A j \in 1 .. k : j \in 1 .. M /\ Units + j \in 1 .. m
    BY ONLY <1>2, k \in 1 .. M - 1
  <2>2. T[k] = S[m] /\ T[k + 1] = S[m + 1] /\ \A j \in 1 .. k : T[j] = S[Units + j]
    <3>1. T[k] = S[Units + k] /\ T[k + 1] = S[Units + (k + 1)]
      BY <1>b, <2>1, Zenon
    <3>2. \A j \in 1 .. k : T[j] = S[Units + j]
      BY <1>b, <2>1, Zenon
    <3> QED
      BY <2>1, <3>1, <3>2, Zenon
  <2> HIDE DEF m
  <2>3. S[m].unit = Units =>
          /\ S[m + 1].unit = 1
          /\ \/ /\ S[m + 1].part = 1 /\ AbsentSaved(S[m + 1].insert)
                /\ \A j \in 1 .. m : S[j].insert # S[m + 1].insert
             \/ /\ S[m + 1].insert = S[m].insert
                /\ S[m + 1].part = S[m].part + 1
    BY <2>1, Zenon DEF Flow, Links, S
  <2>4. CASE /\ S[m + 1].part = 1 /\ AbsentSaved(S[m + 1].insert)
             /\ \A j \in 1 .. m : S[j].insert # S[m + 1].insert
    <3>1. S[m + 1].insert # i
      BY <2>1, <2>4, Zenon DEF i, S
    <3>3. \A j \in 1 .. k : T[j].insert # S[m + 1].insert
      BY ONLY <2>1, <2>2, <2>4
    <3> QED
      BY ONLY <2>2, <2>3, <2>4, <3>1, <3>3, T[k].unit = Units
  <2>5. CASE S[m + 1].insert = S[m].insert /\ S[m + 1].part = S[m].part + 1
    BY ONLY <2>2, <2>3, <2>5, T[k].unit = Units
  <2> QED
    BY <2>2, <2>3, <2>4, <2>5, Zenon
<1>14. Runs'
  <2> SUFFICES ASSUME NEW a \in 1 .. M, NEW c \in a .. M, c - a <= Units - T[a].unit
               PROVE  st[T[a].insert] = "killed" \/ T[c] = [T[a] EXCEPT !.unit = @ + (c - a)]
    BY <1>1, Zenon DEF Runs, T
  <2> DEFINE x == Units + a
             y == Units + c
  <2>1. /\ c \in 1 .. M /\ x \in 1 .. Len(S) /\ y \in x .. Len(S) /\ y - x = c - a
    BY ONLY <1>2, a \in 1 .. M, c \in a .. M
  <2>2. T[a] = S[x] /\ T[c] = S[y]
    BY <1>b, <2>1
  <2> HIDE DEF x, y
  <2>3. y - x <= Units - S[x].unit =>
          st[S[x].insert] = "killed" \/ S[y] = [S[x] EXCEPT !.unit = @ + (y - x)]
    BY <1>1, <2>1, Zenon DEF Flow, Runs, S
  <2> QED
    BY ONLY <2>1, <2>2, <2>3, c - a <= Units - T[a].unit
<1>15. ASSUME M # 0 PROVE T[M] = S[Len(S)]
  <2> DEFINE m == M
  <2>1. Units + m = Len(S) /\ m \in 1 .. M
    BY ONLY <1>2, <1>15
  <2> HIDE DEF m
  <2>2. T[m] = S[Units + m]
    BY <1>b, <2>1, Zenon
  <2>3. T[m] = S[Len(S)]
    BY ONLY <2>1, <2>2
  <2> QED
    BY <2>3, Zenon DEF m
<1>16. T = <<>> <=> M = 0
  BY <1>1
<1>17. Unfinished'
  BY <1>1, <1>3, <1>15, <1>16, Zenon DEF Flow, Unfinished, S, T
<1>18. ASSUME NEW j \in Inserts, Absent(j) PROVE Absent(j)'
  <2>1. AbsentSaved(j) /\ \A k \in DOMAIN S : S[k].insert # j
    BY <1>18, Zenon DEF Absent, S
  <2>2. j # i
    <3>1. 1 \in DOMAIN S
      BY <1>1, <1>2
    <3> QED
      BY <2>1, <3>1, Zenon DEF i, S
  <2>3. ASSUME NEW k \in 1 .. M PROVE T[k].insert # j
    <3>1. T[k] = S[Units + k] /\ Units + k \in DOMAIN S
      BY <1>b, <1>11
    <3> QED
      BY ONLY <2>1, <3>1
  <2> QED
    BY <1>1, <1>8, <2>1, <2>2, <2>3, Zenon DEF Absent, AbsentSaved, T
<1>19. ASSUME NEW j \in Inserts, NEW q, Behind(j, q) PROVE Behind(j, q)'
  <2>1. CASE q = 0
    BY <1>18, <1>19, <2>1, Zenon DEF Behind
  <2>2. CASE q # 0
    <3>1. S[Len(S)] = [insert |-> j, part |-> q, unit |-> Units]
      BY <1>3, <1>19, <2>2, Zenon DEF Behind, S
    <3>2. CASE M # 0
      <4>1. T # <<>> /\ T[Len(T)] = [insert |-> j, part |-> q, unit |-> Units]
        BY <1>1, <1>15, <1>16, <3>1, <3>2
      <4> QED
        BY <2>2, <4>1, Zenon DEF Behind, T
    <3>3. CASE M = 0
      <4>1. Len(S) = Units
        BY ONLY <1>2, <3>3
      <4>2. i = j /\ p = q
        BY <1>6, <3>1, <4>1
      <4>3. saved'[Len(saved')] = [insert |-> j, part |-> q]
        BY <1>7, <4>2, Zenon
      <4> QED
        BY <1>7, <1>16, <2>2, <3>3, <4>3, Zenon DEF Behind, T
    <3> QED
      BY <3>2, <3>3
  <2> QED
    BY <2>1, <2>2
<1>20. Writers'
  <2>1. \A k \in DOMAIN T : fifo[T[k].insert] = gen
    <3>1. \A k \in DOMAIN S : fifo[S[k].insert] = gen
      BY Zenon DEF Flow, Writers, S
    <3>2. ASSUME NEW k \in 1 .. M PROVE fifo[T[k].insert] = gen
      <4>1. T[k] = S[Units + k] /\ Units + k \in DOMAIN S
        BY <1>b, <1>11
      <4> QED
        BY ONLY <3>1, <4>1
    <3> QED
      BY <1>1, <3>2
  <2>2. ASSUME NEW j \in Inserts, fifo[j] = gen, st[j] = "write", left[j] # Units
        PROVE  T # <<>> /\ T[Len(T)] = [insert |-> j, part |-> part[j], unit |-> Units - left[j]]
    <3>1. S[Len(S)] = [insert |-> j, part |-> part[j], unit |-> Units - left[j]]
      BY <2>2, Zenon DEF Flow, Writers, S
    <3>2. left[j] # 0 /\ left[j] \in Nat
      BY <2>2 DEF Types, InfeedTypeOK, Locks
    <3>3. Units - left[j] # Units
      BY ONLY <1>2, <3>2
    <3>4. M # 0
      <4>1. M = 0 => Len(S) = Units
        BY ONLY <1>2
      <4> QED
        BY <1>6, <3>1, <3>3, <4>1
    <3> QED
      BY <1>1, <1>15, <1>16, <3>1, <3>4
  <2>3. ASSUME NEW j \in Inserts, fifo[j] = gen
        PROVE  /\ st[j] = "flock" => Absent(j)
               /\ st[j] = "build" => Behind(j, part[j])
               /\ st[j] = "write" /\ left[j] = Units => Behind(j, part[j] - 1)
    BY <2>3, Zenon DEF Flow, Writers
  <2>4. ASSUME NEW j \in Inserts, fifo[j] = gen
        PROVE  /\ st[j] = "flock" => Absent(j)'
               /\ st[j] = "build" => Behind(j, part[j])'
               /\ st[j] = "write" /\ left[j] = Units => Behind(j, part[j] - 1)'
    BY <1>18, <1>19, <2>3, <2>4, Zenon
  <2> QED
    BY <2>1, <2>2, <2>4, Zenon DEF Writers, T
<1> QED
  BY <1>10, <1>12, <1>13, <1>14, <1>17, <1>20, Zenon DEF Flow

(* A step that leaves the stream and what was saved alone.                  *)
LEMMA SameStream ==
  ASSUME Stream' = Stream, saved' = saved
  PROVE  /\ \A j : AbsentSaved(j)' <=> AbsentSaved(j)
         /\ \A j : Absent(j)' <=> Absent(j)
         /\ \A j, q : Behind(j, q)' <=> Behind(j, q)
<1>1. \A j : AbsentSaved(j)' <=> AbsentSaved(j)
  BY DEF AbsentSaved
<1>2. \A j : Absent(j)' <=> Absent(j)
  BY <1>1, Zenon DEF Absent
<1>3. ASSUME NEW j, NEW q PROVE Behind(j, q)' <=> Behind(j, q)
  BY <1>2, Zenon DEF Behind
<1> QED
  BY <1>1, <1>2, <1>3, Zenon

(* A step of one inserter that writes nothing.                              *)
LEMMA QuietFlow ==
  ASSUME Types, Open, Flow, Stream' = Stream, UNCHANGED <<gen, saved>>,
         NEW i \in Inserts, st[i] # "killed",
         \A j \in Inserts \ {i} : /\ st'[j] = st[j] /\ fifo'[j] = fifo[j]
                                  /\ part'[j] = part[j] /\ left'[j] = left[j],
         fifo[i] # 0 => fifo'[i] = fifo[i],
         st[i] = "write" /\ fifo[i] = gen => st'[i] = "killed",
         fifo'[i] = gen =>
           /\ st'[i] = "flock" => Absent(i)
           /\ st'[i] = "build" => Behind(i, part'[i])
           /\ st'[i] = "write" => left'[i] = Units /\ Behind(i, part'[i] - 1)
  PROVE  Flow'
<1>0. /\ \A j : AbsentSaved(j)' <=> AbsentSaved(j)
      /\ \A j : Absent(j)' <=> Absent(j)
      /\ \A j, q : Behind(j, q)' <=> Behind(j, q)
  BY SameStream, Zenon
<1>1. \A k \in DOMAIN Stream : Stream[k].insert \in Inserts
  <2>1. \A k \in DOMAIN Stream : Stream[k] \in Piece
    BY StreamIs
  <2> QED
    BY <2>1, Zenon DEF Piece
<1>2. \A j \in Inserts : st[j] = "killed" => st'[j] = "killed"
  BY Zenon
<1>3. Heads'
  <2>1. saved' = saved
    BY Zenon
  <2> QED
    BY <1>0, <2>1, Zenon DEF Flow, Heads, AbsentSaved
<1>4. Links'
  <2>1. saved' = saved
    OBVIOUS
  <2> QED
    BY <2>1 DEF Flow, Links, AbsentSaved
<1>5. Runs'
  <2> SUFFICES ASSUME NEW a \in DOMAIN Stream, NEW c \in a .. Len(Stream),
                      c - a <= Units - Stream[a].unit
               PROVE  \/ st'[Stream[a].insert] = "killed"
                      \/ Stream[c] = [Stream[a] EXCEPT !.unit = @ + (c - a)]
    BY Zenon DEF Runs
  <2>1. \/ st[Stream[a].insert] = "killed"
        \/ Stream[c] = [Stream[a] EXCEPT !.unit = @ + (c - a)]
    BY Zenon DEF Flow, Runs
  <2> QED
    BY <1>1, <1>2, <2>1, Zenon
<1>6. Unfinished'
  <2> SUFFICES ASSUME Stream # <<>>, Stream[Len(Stream)].unit # Units
               PROVE  LET j == Stream[Len(Stream)].insert
                      IN \/ st'[j] = "killed"
                         \/ st'[j] = "write" /\ left'[j] = Units - Stream[Len(Stream)].unit
    BY Zenon DEF Unfinished
  <2> DEFINE j == Stream[Len(Stream)].insert
  <2>0. Len(Stream) \in DOMAIN Stream
    BY StreamIs
  <2>1. j \in Inserts
    BY <1>1, <2>0, Zenon
  <2>a. fifo[j] = gen
    BY <2>0, Zenon DEF Flow, Writers
  <2>2. st[j] = "killed" \/ (st[j] = "write" /\ left[j] = Units - Stream[Len(Stream)].unit)
    BY Zenon DEF Flow, Unfinished
  <2> HIDE DEF j
  <2>3. \/ st'[j] = "killed"
        \/ st'[j] = "write" /\ left'[j] = Units - Stream[Len(Stream)].unit
    <3>1. CASE j = i
      BY <2>a, <2>2, <3>1, Zenon
    <3>2. CASE j # i
      <4>1. st'[j] = st[j] /\ left'[j] = left[j]
        BY <2>1, <3>2, Zenon
      <4> QED
        BY <2>2, <4>1, Zenon
    <3> QED
      BY <3>1, <3>2, Zenon
  <2> QED
    BY <2>3, Zenon DEF j
<1>7. Writers'
  <2>1. ASSUME NEW k \in DOMAIN Stream PROVE fifo'[Stream[k].insert] = gen
    <3>1. fifo[Stream[k].insert] = gen /\ gen # 0
      BY StreamIs DEF Flow, Writers
    <3> QED
      BY <1>1, <3>1, Zenon
  <2>2. ASSUME NEW j \in Inserts, fifo'[j] = gen, j # i
        PROVE  /\ st'[j] = "flock" => Absent(j)
               /\ st'[j] = "build" => Behind(j, part'[j])
               /\ st'[j] = "write" =>
                    IF left'[j] = Units THEN Behind(j, part'[j] - 1)
                    ELSE /\ Stream # <<>>
                         /\ Stream[Len(Stream)] =
                              [insert |-> j, part |-> part'[j], unit |-> Units - left'[j]]
    <3>1. st'[j] = st[j] /\ fifo[j] = gen /\ part'[j] = part[j] /\ left'[j] = left[j]
      BY <2>2, Zenon
    <3>2. /\ st[j] = "flock" => Absent(j)
          /\ st[j] = "build" => Behind(j, part[j])
          /\ st[j] = "write" =>
               IF left[j] = Units THEN Behind(j, part[j] - 1)
               ELSE /\ Stream # <<>>
                    /\ Stream[Len(Stream)] =
                         [insert |-> j, part |-> part[j], unit |-> Units - left[j]]
      BY <3>1, Zenon DEF Flow, Writers
    <3> QED
      BY ONLY <3>1, <3>2
  <2>3. ASSUME NEW j \in Inserts, fifo'[j] = gen
        PROVE  /\ st'[j] = "flock" => Absent(j)'
               /\ st'[j] = "build" => Behind(j, part[j])'
               /\ st'[j] = "write" =>
                    IF left'[j] = Units THEN Behind(j, part[j] - 1)'
                    ELSE /\ Stream # <<>>
                         /\ Stream[Len(Stream)] =
                              [insert |-> j, part |-> part'[j], unit |-> Units - left'[j]]
    <3>1. Absent(j)' <=> Absent(j)
      BY <1>0, Zenon
    <3>2. Behind(j, part[j])' <=> Behind(j, part'[j])
      BY <1>0, Zenon DEF Behind
    <3>3. Behind(j, part[j] - 1)' <=> Behind(j, part'[j] - 1)
      BY <1>0, Zenon DEF Behind
    <3> QED
      BY <2>2, <2>3, <3>1, <3>2, <3>3, Zenon
  <2> QED
    BY <2>1, <2>3, Zenon DEF Writers
<1> QED
  BY <1>3, <1>4, <1>5, <1>6, <1>7, Zenon DEF Flow

-----------------------------------------------------------------------------
(* The types. *)
LEMMA ReaderType ==
  ASSUME Types, Locks, Reader, Reads \/ ReadEnds \/ infeed_open_fifo \/ Fork
         \/ \E g \in 1 .. MaxOpens : ScriptsEnd(g)
  PROVE  Types'
<1>0. /\ gen \in 0 .. MaxOpens /\ pipe \in [1 .. MaxOpens -> Seq(Piece)] /\ buf \in Seq(Piece)
      /\ saved \in Seq(Packet) /\ heir \in [1 .. MaxOpens -> BOOLEAN]
      /\ \A g \in 1 .. MaxOpens : Len(pipe[g]) <= PipeSize
      /\ Len(buf) <= Units /\ (at # "closed" => gen >= 1)
      /\ Units \in Nat /\ Units # 0 /\ PipeSize \in Nat /\ MaxOpens \in Nat
  BY Zenon DEF Types, InfeedTypeOK
<1>a. <<>> \in Seq(Piece) /\ Len(<<>>) = 0
  OBVIOUS
<1>b. at # "closed" => gen \in 1 .. MaxOpens
  BY <1>0
<1>c. ASSUME UNCHANGED inserters, gen' \in 0 .. MaxOpens,
             at' \in {"closed", "read", "save", "bad", "error", "unlink"},
             heir' \in [1 .. MaxOpens -> BOOLEAN],
             pipe' \in [1 .. MaxOpens -> Seq(Piece)], buf' \in Seq(Piece), saved' \in Seq(Packet),
             \A g \in 1 .. MaxOpens : Len(pipe'[g]) <= PipeSize, Len(buf') <= Units,
             at' # "closed" => gen' >= 1
      PROVE  Types'
  BY <1>c, Zenon DEF Types, InfeedTypeOK, inserters
<1>1. ASSUME NEW g \in 1 .. MaxOpens, pipe' = [pipe EXCEPT ![g] = <<>>]
      PROVE  pipe' \in [1 .. MaxOpens -> Seq(Piece)] /\ \A h \in 1 .. MaxOpens : Len(pipe'[h]) <= PipeSize
  <2>1. pipe' \in [1 .. MaxOpens -> Seq(Piece)]
    BY ONLY <1>0, <1>a, <1>1
  <2>2. ASSUME NEW h \in 1 .. MaxOpens PROVE Len(pipe'[h]) <= PipeSize
    <3>1. pipe'[h] = IF h = g THEN <<>> ELSE pipe[h]
      BY <1>0, <1>1, Zenon
    <3> QED
      BY ONLY <1>0, <1>a, <3>1
  <2> QED
    BY <2>1, <2>2
<1>2. ASSUME NEW n, get_emwin_packet_infeed(n) PROVE Types'
  <2>1. /\ at = "read" /\ n \in 1 .. Len(pipe[gen]) /\ Len(buf) + n <= Units
        /\ buf' = buf \o SubSeq(pipe[gen], 1, n)
        /\ pipe' = [pipe EXCEPT ![gen] = SubSeq(pipe[gen], n + 1, Len(pipe[gen]))]
        /\ at' \in {"read", "save", "bad"} /\ UNCHANGED <<inserters, gen, heir, saved>>
    BY <1>2, Zenon DEF get_emwin_packet_infeed
  <2>2. gen \in 1 .. MaxOpens /\ pipe[gen] \in Seq(Piece)
    BY <1>0, <1>b, <2>1, Zenon
  <2> DEFINE y == SubSeq(pipe[gen], n + 1, Len(pipe[gen]))
  <2>3. buf' \in Seq(Piece) /\ y \in Seq(Piece) /\ Len(buf') = Len(buf) + n /\ Len(y) = Len(pipe[gen]) - n
    <3> DEFINE b == buf
               p == pipe[gen]
    <3>1. b \in Seq(Piece) /\ p \in Seq(Piece) /\ n \in 1 .. Len(p)
      BY <1>0, <2>1, <2>2, Zenon
    <3> HIDE DEF b, p
    <3>2. /\ b \o SubSeq(p, 1, n) \in Seq(Piece) /\ SubSeq(p, n + 1, Len(p)) \in Seq(Piece)
          /\ Len(b \o SubSeq(p, 1, n)) = Len(b) + n
          /\ Len(SubSeq(p, n + 1, Len(p))) = Len(p) - n
      BY <3>1, ReadMoves
    <3> QED
      BY <2>1, <3>2, Zenon DEF b, p
  <2>4. pipe' = [pipe EXCEPT ![gen] = y]
    BY <2>1
  <2> HIDE DEF y
  <2>5. pipe' \in [1 .. MaxOpens -> Seq(Piece)]
    BY ONLY <1>0, <2>2, <2>3, <2>4
  <2>6. ASSUME NEW h \in 1 .. MaxOpens PROVE Len(pipe'[h]) <= PipeSize
    <3>1. pipe'[h] = IF h = gen THEN y ELSE pipe[h]
      BY <1>0, <2>4, Zenon
    <3>2. Len(y) <= PipeSize
      <4>1. Len(pipe[gen]) \in Nat /\ Len(pipe[gen]) <= PipeSize
        BY <1>0, <2>2
      <4> QED
        BY ONLY <1>0, <2>1, <2>3, <4>1
    <3> QED
      BY <1>0, <3>1, <3>2, Zenon
  <2> QED
    BY <1>0, <1>c, <2>1, <2>2, <2>3, <2>5, <2>6, Zenon
<1>3. CASE save_emwin_packet
  <2>1. /\ at = "save" /\ at' \in {"read", "error"} /\ UNCHANGED <<inserters, gen, heir, pipe>>
        /\ \/ buf' = <<>> /\ saved' = Append(saved, [insert |-> buf[1].insert, part |-> buf[1].part])
           \/ UNCHANGED <<buf, saved>>
    BY <1>3 DEF save_emwin_packet
  <2>2. buf[1] \in Piece
    BY <1>0, <2>1 DEF Reader
  <2>3. [insert |-> buf[1].insert, part |-> buf[1].part] \in Packet
    BY <2>2, Zenon DEF Piece, Packet
  <2> DEFINE e == [insert |-> buf[1].insert, part |-> buf[1].part]
  <2>a. /\ e \in Packet
        /\ buf' = <<>> \/ buf' = buf
        /\ saved' = saved \/ saved' = Append(saved, e)
    BY <2>1, <2>3, Zenon
  <2> HIDE DEF e
  <2>b. Append(saved, e) \in Seq(Packet)
    BY ONLY <1>0, <2>a
  <2>4. saved' \in Seq(Packet)
    BY <1>0, <2>a, <2>b, Zenon
  <2>c. 0 <= Units
    BY ONLY <1>0
  <2>5. buf' \in Seq(Piece) /\ Len(buf') <= Units
    BY <1>0, <1>a, <2>a, <2>c, Zenon
  <2> QED
    BY <1>0, <1>c, <2>1, <2>4, <2>5, Zenon
<1>4. CASE infeed_close_fifo
  <2>1. /\ at # "closed" /\ at' = "unlink" /\ buf' = <<>> /\ UNCHANGED <<inserters, gen, heir, saved>>
        /\ \/ pipe' = pipe
           \/ pipe' = [pipe EXCEPT ![gen] = <<>>]
    BY <1>4 DEF infeed_close_fifo
  <2>2. /\ pipe' \in [1 .. MaxOpens -> Seq(Piece)]
        /\ \A g \in 1 .. MaxOpens : Len(pipe'[g]) <= PipeSize
    BY <1>0, <1>1, <1>b, <2>1, Zenon
  <2>3. buf' \in Seq(Piece) /\ Len(buf') <= Units
    BY <1>0, <1>a, <2>1
  <2> QED
    BY <1>0, <1>c, <2>1, <2>2, <2>3, Zenon
<1>5. CASE unlink \/ ReadEnds
  BY <1>0, <1>c, <1>5, Zenon DEF unlink, ReadEnds
<1>6. CASE infeed_open_fifo
  BY <1>0, <1>c, <1>6 DEF infeed_open_fifo
<1>7. CASE Fork
  <2>1. heir' \in [1 .. MaxOpens -> BOOLEAN] /\ UNCHANGED <<inserters, gen, at, pipe, buf, saved>>
    BY <1>0, <1>7, Zenon DEF Fork
  <2>2. at \in {"closed", "read", "save", "bad", "error", "unlink"}
    BY DEF Types, InfeedTypeOK
  <2> QED
    BY <1>0, <1>c, <2>1, <2>2, Zenon
<1>8. ASSUME NEW g \in 1 .. MaxOpens, ScriptsEnd(g) PROVE Types'
  <2>1. /\ heir' \in [1 .. MaxOpens -> BOOLEAN] /\ UNCHANGED <<inserters, gen, at, buf, saved>>
        /\ \/ pipe' = pipe
           \/ pipe' = [pipe EXCEPT ![g] = <<>>]
    BY <1>0, <1>8, Zenon DEF ScriptsEnd
  <2>2. at \in {"closed", "read", "save", "bad", "error", "unlink"}
    BY DEF Types, InfeedTypeOK
  <2>3. /\ pipe' \in [1 .. MaxOpens -> Seq(Piece)]
        /\ \A h \in 1 .. MaxOpens : Len(pipe'[h]) <= PipeSize
    BY <1>0, <1>1, <2>1, Zenon
  <2> QED
    BY <1>0, <1>c, <2>1, <2>2, <2>3, Zenon
<1> QED
  BY <1>2, <1>3, <1>4, <1>5, <1>6, <1>7, <1>8, Zenon DEF Reads

State == {"start", "flock", "build", "write", "done", "failed", "killed"}

LEMMA InserterTypes ==
  ASSUME Types, st' \in [Inserts -> State], fifo' \in [Inserts -> 0 .. MaxOpens],
         part' \in [Inserts -> Nat], left' \in [Inserts -> 0 .. Units],
         lock' \in [1 .. MaxOpens -> Inserts \cup {None}],
         UNCHANGED <<file, gen, at, heir, pipe, buf, saved>>
  PROVE  Types'
BY Zenon DEF Types, InfeedTypeOK, State

-----------------------------------------------------------------------------
(* The inserter ends: its lock is free, and if it was writing it was killed. *)
LEMMA EndStep ==
  ASSUME Types, Locks, Open => Flow, NEW i \in Inserts, NEW s \in {"done", "failed", "killed"},
         End(i, s), st[i] \in {"flock", "build", "write"}, st[i] = "write" => s = "killed",
         UNCHANGED <<file, fifo, gen, at, heir, pipe, buf, saved>>
  PROVE  Types' /\ Locks' /\ (Open' => Flow')
<1>0. /\ st \in [Inserts -> State] /\ fifo \in [Inserts -> 0 .. MaxOpens]
      /\ part \in [Inserts -> Nat] /\ left \in [Inserts -> 0 .. Units]
      /\ lock \in [1 .. MaxOpens -> Inserts \cup {None}] /\ Units \in Nat
      /\ None \notin Inserts
  BY Zenon DEF Types, InfeedTypeOK, State
<1>1. /\ st' = [st EXCEPT ![i] = s] /\ part' = [part EXCEPT ![i] = 0]
      /\ left' = [left EXCEPT ![i] = 0] /\ fifo' = fifo /\ s \in State
  BY DEF End, Go, State
<1>2. /\ lock' \in [1 .. MaxOpens -> Inserts \cup {None}]
      /\ \A g \in 1 .. MaxOpens : lock'[g] = IF lock[g] = i THEN None ELSE lock[g]
  <2>1. CASE Holds(i)
    <3>1. lock' = [lock EXCEPT ![fifo[i]] = None] /\ lock[fifo[i]] = i
      BY <2>1, Zenon DEF End, Holds
    <3>2. fifo[i] \in 1 .. MaxOpens
      BY <1>0, <2>1 DEF Holds
    <3>3. \A g \in 1 .. MaxOpens : lock[g] = i => g = fifo[i]
      <4> SUFFICES ASSUME NEW g \in 1 .. MaxOpens, lock[g] = i PROVE g = fifo[i]
        BY Zenon
      <4>1. lock[g] # None => fifo[lock[g]] = g
        BY Zenon DEF Locks
      <4>2. lock[g] # None
        BY <1>0, Zenon
      <4> QED
        BY <4>1, <4>2, Zenon
    <3> QED
      BY <1>0, <3>1, <3>2, <3>3, Zenon
  <2>2. CASE ~Holds(i)
    <3>1. lock' = lock
      BY <2>2, Zenon DEF End
    <3>2. ASSUME NEW g \in 1 .. MaxOpens, lock[g] = i PROVE FALSE
      <4>1. lock[g] # None
        BY <1>0, <3>2, Zenon
      <4>2. fifo[lock[g]] = g
        BY <4>1, Zenon DEF Locks
      <4>3. fifo[i] = g /\ g # 0
        BY <3>2, <4>2
      <4> QED
        BY <2>2, <3>2, <4>3, Zenon DEF Holds
    <3> QED
      BY <1>0, <3>1, <3>2, Zenon
  <2> QED
    BY <2>1, <2>2, Zenon
<1>3. Types'
  <2>1. /\ st' \in [Inserts -> State] /\ part' \in [Inserts -> Nat] /\ left' \in [Inserts -> 0 .. Units]
    BY ONLY <1>0, <1>1
  <2> QED
    BY <1>0, <1>1, <1>2, <2>1, InserterTypes, Zenon
<1>4. Locks'
  <2>0. \A j : AbsentSaved(j)' <=> AbsentSaved(j)
    BY DEF AbsentSaved
  <2>1. ASSUME NEW j \in Inserts
        PROVE  /\ fifo[j] <= gen
               /\ st'[j] = "start" => fifo[j] = 0
               /\ st'[j] = "flock" => fifo[j] # 0
               /\ st'[j] \in {"start", "flock"} => part'[j] = 0 /\ left'[j] = 0 /\ AbsentSaved(j)
               /\ st'[j] \in {"build", "write"} => fifo[j] # 0 /\ lock'[fifo[j]] = j
               /\ st'[j] = "build" => left'[j] = 0
               /\ st'[j] = "write" => part'[j] # 0 /\ left'[j] # 0
    <3>1. CASE j = i
      BY <1>0, <1>1, <3>1 DEF Locks
    <3>2. CASE j # i
      <4>1. st'[j] = st[j] /\ part'[j] = part[j] /\ left'[j] = left[j]
        BY ONLY <1>0, <1>1, <3>2, j \in Inserts
      <4>2. st[j] \in {"build", "write"} => lock'[fifo[j]] = j
        <5>1. ASSUME st[j] \in {"build", "write"} PROVE lock'[fifo[j]] = j
          <6>1. fifo[j] # 0 /\ lock[fifo[j]] = j
            BY <5>1, Zenon DEF Locks
          <6>2. fifo[j] \in 1 .. MaxOpens
            BY <1>0, <6>1
          <6> QED
            BY <1>2, <3>2, <6>1, <6>2, Zenon
        <5> QED
          BY <5>1, Zenon
      <4> QED
        BY <4>1, <4>2 DEF Locks
    <3> QED
      BY <3>1, <3>2, Zenon
  <2>2. ASSUME NEW g \in 1 .. MaxOpens
        PROVE  /\ lock'[g] # None => fifo[lock'[g]] = g /\ st'[lock'[g]] \in {"build", "write"}
               /\ g > gen => pipe[g] = <<>>
    <3>1. g > gen => pipe[g] = <<>>
      BY Zenon DEF Locks
    <3>2. ASSUME lock'[g] # None
          PROVE  fifo[lock'[g]] = g /\ st'[lock'[g]] \in {"build", "write"}
      <4>1. lock'[g] = lock[g] /\ lock[g] # i /\ lock[g] # None
        BY <1>2, <3>2, Zenon
      <4>2. lock[g] \in Inserts /\ fifo[lock[g]] = g /\ st[lock[g]] \in {"build", "write"}
        BY <1>0, <4>1 DEF Locks
      <4>3. st'[lock[g]] = st[lock[g]]
        BY ONLY <1>0, <1>1, <4>1, <4>2
      <4> QED
        BY <4>1, <4>2, <4>3, Zenon
    <3> QED
      BY <3>1, <3>2, Zenon
  <2>3. gen' = gen /\ pipe' = pipe /\ fifo' = fifo
    OBVIOUS
  <2> QED
    BY <2>0, <2>1, <2>2, <2>3 DEF Locks
<1>5. ASSUME Open' PROVE Flow'
  <2>1. Open /\ Flow
    BY <1>5, Zenon DEF Open
  <2>2. Stream' = Stream
    BY DEF Stream
  <2>3. /\ st'[i] = s /\ fifo'[i] = fifo[i] /\ st[i] # "killed"
        /\ \A j \in Inserts \ {i} : /\ st'[j] = st[j] /\ fifo'[j] = fifo[j]
                                     /\ part'[j] = part[j] /\ left'[j] = left[j]
    BY <1>0, <1>1, Zenon
  <2>4. st'[i] # "flock" /\ st'[i] # "build" /\ st'[i] # "write"
    BY <2>3, Zenon
  <2>a. UNCHANGED <<gen, saved>>
    OBVIOUS
  <2>5. /\ fifo[i] # 0 => fifo'[i] = fifo[i]
        /\ st[i] = "write" => st'[i] = "killed"
        /\ fifo'[i] = gen =>
             /\ st'[i] = "flock" => Absent(i)
             /\ st'[i] = "build" => Behind(i, part'[i])
             /\ st'[i] = "write" => left'[i] = Units /\ Behind(i, part'[i] - 1)
    BY <2>3, <2>4, Zenon
  <2> QED
    BY <2>1, <2>2, <2>3, <2>5, <2>a, QuietFlow, Zenon
<1> QED
  BY <1>3, <1>4, <1>5

(* A step of one inserter that goes on.                                     *)
LEMMA OneLocks ==
  ASSUME Types, Locks, NEW i \in Inserts, UNCHANGED <<gen, saved>>,
         \A j \in Inserts \ {i} : /\ st'[j] = st[j] /\ fifo'[j] = fifo[j]
                                  /\ part'[j] = part[j] /\ left'[j] = left[j],
         fifo'[i] <= gen, st'[i] # "start",
         st'[i] = "flock" => fifo'[i] # 0 /\ part'[i] = 0 /\ left'[i] = 0 /\ AbsentSaved(i),
         st'[i] \in {"build", "write"} => fifo'[i] # 0 /\ lock'[fifo'[i]] = i,
         st'[i] = "build" => left'[i] = 0,
         st'[i] = "write" => part'[i] # 0 /\ left'[i] # 0,
         st[i] \in {"build", "write"} => st'[i] \in {"build", "write"} /\ fifo'[i] = fifo[i],
         \A g \in 1 .. MaxOpens :
           \/ lock'[g] = lock[g]
           \/ lock[g] = None /\ lock'[g] = i /\ fifo'[i] = g /\ st'[i] \in {"build", "write"},
         \A g \in 1 .. MaxOpens : g > gen => pipe'[g] = pipe[g]
  PROVE  Locks'
<1>0. /\ fifo \in [Inserts -> 0 .. MaxOpens] /\ lock \in [1 .. MaxOpens -> Inserts \cup {None}]
      /\ None \notin Inserts
  BY Zenon DEF Types, InfeedTypeOK
<1>1. \A j : AbsentSaved(j)' <=> AbsentSaved(j)
  BY Zenon DEF AbsentSaved
<1>2. ASSUME NEW j \in Inserts
      PROVE  /\ fifo'[j] <= gen
             /\ st'[j] = "start" => fifo'[j] = 0
             /\ st'[j] = "flock" => fifo'[j] # 0
             /\ st'[j] \in {"start", "flock"} => part'[j] = 0 /\ left'[j] = 0 /\ AbsentSaved(j)
             /\ st'[j] \in {"build", "write"} => fifo'[j] # 0 /\ lock'[fifo'[j]] = j
             /\ st'[j] = "build" => left'[j] = 0
             /\ st'[j] = "write" => part'[j] # 0 /\ left'[j] # 0
  <2>1. CASE j = i
    BY <2>1, Zenon
  <2>2. CASE j # i
    <3>1. st'[j] = st[j] /\ fifo'[j] = fifo[j] /\ part'[j] = part[j] /\ left'[j] = left[j]
      BY <2>2, Zenon
    <3>2. ASSUME st[j] \in {"build", "write"} PROVE fifo[j] # 0 /\ lock'[fifo[j]] = j
      <4>1. fifo[j] # 0 /\ lock[fifo[j]] = j
        BY <3>2, Zenon DEF Locks
      <4>2. fifo[j] \in 1 .. MaxOpens
        <5>1. fifo[j] \in 0 .. MaxOpens /\ MaxOpens \in Nat
          BY <1>0
        <5> QED
          BY ONLY <4>1, <5>1
      <4> QED
        BY <1>0, <4>1, <4>2, Zenon
    <3>3. /\ fifo[j] <= gen
          /\ st[j] = "start" => fifo[j] = 0
          /\ st[j] = "flock" => fifo[j] # 0
          /\ st[j] \in {"start", "flock"} => part[j] = 0 /\ left[j] = 0 /\ AbsentSaved(j)
          /\ st[j] = "build" => left[j] = 0
          /\ st[j] = "write" => part[j] # 0 /\ left[j] # 0
      BY Zenon DEF Locks
    <3> QED
      BY <3>1, <3>2, <3>3, Zenon
  <2> QED
    BY <2>1, <2>2, Zenon
<1>3. ASSUME NEW g \in 1 .. MaxOpens, lock'[g] # None
      PROVE  fifo'[lock'[g]] = g /\ st'[lock'[g]] \in {"build", "write"}
  <2>1. CASE lock'[g] = lock[g]
    <3>1. lock[g] \in Inserts /\ fifo[lock[g]] = g /\ st[lock[g]] \in {"build", "write"}
      BY <1>0, <1>3, <2>1 DEF Locks
    <3> QED
      BY <2>1, <3>1
  <2>2. CASE lock'[g] = i /\ fifo'[i] = g /\ st'[i] \in {"build", "write"}
    BY <2>2, Zenon
  <2> QED
    BY <2>1, <2>2, Zenon
<1>4. \A g \in 1 .. MaxOpens : g > gen => pipe'[g] = <<>>
  BY DEF Locks
<1>5. gen' = gen
  BY Zenon
<1> QED
  BY <1>1, <1>2, <1>3, <1>4, <1>5 DEF Locks

LEMMA OpenStep ==
  ASSUME Types, Locks, Open => Flow, NEW i \in Inserts, open_output(i)
  PROVE  Types' /\ Locks' /\ (Open' => Flow')
<1>0. /\ st \in [Inserts -> State] /\ fifo \in [Inserts -> 0 .. MaxOpens] /\ gen \in 0 .. MaxOpens
      /\ part \in [Inserts -> Nat] /\ left \in [Inserts -> 0 .. Units] /\ MaxOpens \in Nat
      /\ lock \in [1 .. MaxOpens -> Inserts \cup {None}]
  BY Zenon DEF Types, InfeedTypeOK, State
<1>1. /\ UNCHANGED <<file, part, left, lock, gen, at, heir, pipe, buf, saved>>
      /\ st[i] = "start" /\ fifo[i] = 0 /\ part[i] = 0 /\ left[i] = 0 /\ AbsentSaved(i)
  BY Zenon DEF open_output, Locks
<1>2. PICK s \in {"flock", "failed"}, f \in 0 .. MaxOpens :
        /\ st' = [st EXCEPT ![i] = s] /\ fifo' = [fifo EXCEPT ![i] = f]
        /\ s = "flock" => f # 0
        /\ f = 0 \/ f = gen
  <2>1. CASE Openable /\ Go(i, "flock") /\ fifo' = [fifo EXCEPT ![i] = gen]
    <3>1. gen # 0
      BY <1>0, <2>1 DEF Openable, Types
    <3> QED
      BY <1>0, <2>1, <3>1, Zenon DEF Go
  <2>2. CASE Go(i, "failed") /\ UNCHANGED fifo
    <3>1. fifo' = [fifo EXCEPT ![i] = 0]
      BY <1>0, <1>1, <2>2, Zenon
    <3> QED
      BY <1>0, <2>2, <3>1 DEF Go
  <2> QED
    BY <2>1, <2>2, Zenon DEF open_output
<1>3. /\ st'[i] = s /\ fifo'[i] = f
      /\ \A j \in Inserts \ {i} : /\ st'[j] = st[j] /\ fifo'[j] = fifo[j]
                                   /\ part'[j] = part[j] /\ left'[j] = left[j]
  BY <1>0, <1>1, <1>2, Zenon
<1>4. Types'
  <2>1. st' \in [Inserts -> State] /\ fifo' \in [Inserts -> 0 .. MaxOpens]
    BY <1>0, <1>2, Zenon DEF State
  <2> QED
    BY <1>0, <1>1, <2>1, InserterTypes, Zenon
<1>5. Locks'
  <2>1. f <= gen
    BY <1>0, <1>2
  <2> QED
    BY <1>1, <1>2, <1>3, <2>1, OneLocks, Zenon
<1>6. ASSUME Open' PROVE Flow'
  <2>1. Open /\ Flow
    BY <1>1, <1>6, Zenon DEF Open
  <2>2. Stream' = Stream
    BY <1>1, Zenon DEF Stream
  <2>3. Absent(i)
    <3>1. \A k \in DOMAIN Stream : fifo[Stream[k].insert] = gen /\ gen # 0
      BY <2>1, StreamIs DEF Flow, Writers
    <3> QED
      BY <1>1, <3>1, Zenon DEF Absent
  <2>4. /\ UNCHANGED <<gen, saved>> /\ st[i] # "killed" /\ fifo[i] = 0 /\ st[i] # "write"
        /\ st'[i] # "build" /\ st'[i] # "write"
    BY <1>1, <1>2, <1>3, Zenon
  <2> QED
    BY <1>3, <2>1, <2>2, <2>3, <2>4, QuietFlow, Zenon
<1> QED
  BY <1>4, <1>5, <1>6, Zenon

LEMMA FlockStep ==
  ASSUME Types, Locks, Open => Flow, NEW i \in Inserts, flock(i)
  PROVE  Types' /\ Locks' /\ (Open' => Flow')
<1>0. /\ st \in [Inserts -> State] /\ fifo \in [Inserts -> 0 .. MaxOpens] /\ gen \in 0 .. MaxOpens
      /\ part \in [Inserts -> Nat] /\ left \in [Inserts -> 0 .. Units] /\ MaxOpens \in Nat
      /\ lock \in [1 .. MaxOpens -> Inserts \cup {None}]
  BY DEF Types, InfeedTypeOK, State
<1>1. /\ UNCHANGED <<file, fifo, gen, at, heir, pipe, buf, saved>>
      /\ st[i] = "flock" /\ fifo[i] # 0 /\ fifo[i] <= gen /\ lock[fifo[i]] = None
      /\ part[i] = 0 /\ left[i] = 0
  BY Zenon DEF flock, Locks
<1>2. CASE End(i, "failed")
  BY <1>1, <1>2, EndStep, Zenon
<1>3. CASE Go(i, "build") /\ lock' = [lock EXCEPT ![fifo[i]] = i] /\ UNCHANGED <<part, left>>
  <2>1. /\ st' = [st EXCEPT ![i] = "build"] /\ lock' = [lock EXCEPT ![fifo[i]] = i]
        /\ part' = part /\ left' = left /\ fifo' = fifo
    BY <1>1, <1>3, Zenon DEF Go
  <2>2. fifo[i] \in 1 .. MaxOpens
    BY <1>0, <1>1
  <2>3. /\ st'[i] = "build" /\ lock'[fifo[i]] = i
        /\ \A j \in Inserts \ {i} : /\ st'[j] = st[j] /\ fifo'[j] = fifo[j]
                                     /\ part'[j] = part[j] /\ left'[j] = left[j]
        /\ \A g \in 1 .. MaxOpens : lock'[g] = lock[g] \/ g = fifo[i]
    BY <1>0, <2>1, <2>2, Zenon
  <2>4. Types'
    <3>1. st' \in [Inserts -> State] /\ lock' \in [1 .. MaxOpens -> Inserts \cup {None}]
      BY <1>0, <2>1, <2>2, Zenon DEF State
    <3> QED
      BY <1>0, <1>1, <2>1, <3>1, InserterTypes, Zenon
  <2>5. Locks'
    BY <1>1, <2>1, <2>3, OneLocks
  <2>6. ASSUME Open' PROVE Flow'
    <3>1. Open /\ Flow
      BY <1>1, <2>6, Zenon DEF Open
    <3>2. Stream' = Stream
      BY <1>1, Zenon DEF Stream
    <3>3. fifo[i] = gen => Behind(i, 0)
      <4>1. fifo[i] = gen => Absent(i)
        BY <1>1, <3>1, Zenon DEF Flow, Writers
      <4> QED
        BY <4>1, Zenon DEF Behind
    <3>4. UNCHANGED <<gen, saved>> /\ part'[i] = 0
      BY <1>1, <2>1, Zenon
    <3> QED
      BY <1>1, <2>1, <2>3, <3>1, <3>2, <3>3, <3>4, QuietFlow, Zenon
  <2> QED
    BY <2>4, <2>5, <2>6, Zenon
<1> QED
  BY <1>2, <1>3, Zenon DEF flock, init_emwin_packet_st

LEMMA BuildStep ==
  ASSUME Types, Locks, Open => Flow, NEW i \in Inserts, build_emwin_packet(i)
  PROVE  Types' /\ Locks' /\ (Open' => Flow')
<1>0. /\ st \in [Inserts -> State] /\ fifo \in [Inserts -> 0 .. MaxOpens] /\ gen \in 0 .. MaxOpens
      /\ part \in [Inserts -> Nat] /\ left \in [Inserts -> 0 .. Units] /\ MaxOpens \in Nat
      /\ lock \in [1 .. MaxOpens -> Inserts \cup {None}] /\ Units \in Nat /\ Units # 0
  BY Zenon DEF Types, InfeedTypeOK, State
<1>1. /\ UNCHANGED <<file, fifo, gen, at, heir, pipe, buf, saved>>
      /\ st[i] = "build" /\ fifo[i] # 0 /\ fifo[i] <= gen /\ lock[fifo[i]] = i
  BY Zenon DEF build_emwin_packet, Locks
<1>2. CASE End(i, "failed")
  BY <1>1, <1>2, EndStep, Zenon
<1>3. CASE /\ Go(i, "write")
           /\ part' = [part EXCEPT ![i] = @ + 1] /\ left' = [left EXCEPT ![i] = Units]
           /\ UNCHANGED lock
  <2>1. /\ st' = [st EXCEPT ![i] = "write"] /\ lock' = lock /\ fifo' = fifo
        /\ part' = [part EXCEPT ![i] = part[i] + 1] /\ left' = [left EXCEPT ![i] = Units]
    BY <1>1, <1>3, Zenon DEF Go
  <2>3. /\ st'[i] = "write" /\ part'[i] = part[i] + 1 /\ left'[i] = Units
        /\ \A j \in Inserts \ {i} : /\ st'[j] = st[j] /\ fifo'[j] = fifo[j]
                                     /\ part'[j] = part[j] /\ left'[j] = left[j]
    <3>1. st'[i] = "write"
      BY ONLY <1>0, <2>1, i \in Inserts
    <3>2. part'[i] = part[i] + 1 /\ left'[i] = Units
      BY ONLY <1>0, <2>1, i \in Inserts
    <3>3. \A j \in Inserts \ {i} : st'[j] = st[j] /\ part'[j] = part[j] /\ left'[j] = left[j]
      BY ONLY <1>0, <2>1, i \in Inserts
    <3> QED
      BY <2>1, <3>1, <3>2, <3>3, Zenon
  <2>a. part'[i] - 1 = part[i] /\ part'[i] # 0
    <3>1. part[i] \in Nat /\ part'[i] = part[i] + 1
      BY <1>0, <2>3, Zenon
    <3> QED
      BY ONLY <3>1
  <2>4. Types'
    <3>1. /\ st' \in [Inserts -> State] /\ part' \in [Inserts -> Nat]
          /\ left' \in [Inserts -> 0 .. Units]
      BY <1>0, <2>1 DEF State
    <3> QED
      BY <1>0, <1>1, <2>1, <3>1, InserterTypes, Zenon
  <2>5. Locks'
    BY <1>0, <1>1, <2>1, <2>3, <2>a, OneLocks, Zenon
  <2>6. ASSUME Open' PROVE Flow'
    <3>1. Open /\ Flow
      BY <1>1, <2>6, Zenon DEF Open
    <3>2. Stream' = Stream
      BY <1>1, Zenon DEF Stream
    <3>3. fifo[i] = gen => Behind(i, part'[i] - 1)
      <4>1. fifo[i] = gen => Behind(i, part[i])
        BY <1>1, <3>1, Zenon DEF Flow, Writers
      <4> QED
        BY <4>1, <2>a, Zenon
    <3>4. UNCHANGED <<gen, saved>>
      BY <1>1, Zenon
    <3> QED
      BY <1>1, <2>1, <2>3, <3>1, <3>2, <3>3, <3>4, QuietFlow, Zenon
  <2> QED
    BY <2>4, <2>5, <2>6
<1> QED
  BY <1>2, <1>3, Zenon DEF build_emwin_packet

(* What is written is at the end of the stream. *)
LEMMA WriteAppends ==
  ASSUME NEW T, NEW b \in Seq(T), NEW p \in Seq(T), NEW q \in Seq(T)
  PROVE  /\ b \o (p \o q) \in Seq(T) /\ Len(b \o (p \o q)) = Len(b \o p) + Len(q)
         /\ \A k \in 1 .. Len(b \o p) : (b \o (p \o q))[k] = (b \o p)[k]
         /\ \A k \in 1 .. Len(q) : (b \o (p \o q))[Len(b \o p) + k] = q[k]
<1> DEFINE c == b \o p
           d == p \o q
           e == b \o d
<1>1. /\ c \in Seq(T) /\ Len(c) = Len(b) + Len(p)
      /\ \A k \in 1 .. Len(b) : c[k] = b[k]
      /\ \A k \in 1 .. Len(p) : c[Len(b) + k] = p[k]
  BY ConcatIs
<1>2. /\ d \in Seq(T) /\ Len(d) = Len(p) + Len(q)
      /\ \A k \in 1 .. Len(p) : d[k] = p[k]
      /\ \A k \in 1 .. Len(q) : d[Len(p) + k] = q[k]
  BY ConcatIs
<1> HIDE DEF d
<1>3. /\ e \in Seq(T) /\ Len(e) = Len(b) + Len(d)
      /\ \A k \in 1 .. Len(b) : e[k] = b[k]
      /\ \A k \in 1 .. Len(d) : e[Len(b) + k] = d[k]
  <2>1. d \in Seq(T) /\ b \in Seq(T)
    BY <1>2, Zenon
  <2> QED
    BY ONLY <2>1, ConcatIs
<1>4. Len(b) \in Nat /\ Len(p) \in Nat /\ Len(q) \in Nat
  OBVIOUS
<1> HIDE DEF c, e
<1>5. Len(e) = Len(c) + Len(q)
  BY ONLY <1>1, <1>2, <1>3, <1>4
<1>6. ASSUME NEW k \in 1 .. Len(c) PROVE e[k] = c[k]
  <2>1. CASE k <= Len(b)
    BY ONLY <1>1, <1>3, <1>4, <1>6, <2>1
  <2>2. CASE ~(k <= Len(b))
    <3>1. PICK m \in 1 .. Len(p) : k = Len(b) + m
      <4>1. k - Len(b) \in 1 .. Len(p) /\ k = Len(b) + (k - Len(b))
        BY ONLY <1>1, <1>4, <1>6, <2>2
      <4> QED
        BY <4>1, Zenon
    <3>2. m \in 1 .. Len(d)
      BY ONLY <1>2, <1>4, <3>1
    <3> QED
      BY <1>1, <1>2, <1>3, <3>1, <3>2, Zenon
  <2> QED
    BY <2>1, <2>2, Zenon
<1>7. ASSUME NEW k \in 1 .. Len(q) PROVE e[Len(c) + k] = q[k]
  <2>1. Len(p) + k \in 1 .. Len(d) /\ Len(b) + (Len(p) + k) = Len(c) + k
    BY ONLY <1>1, <1>2, <1>4, <1>7
  <2>2. e[Len(b) + (Len(p) + k)] = d[Len(p) + k]
    BY <1>3, <2>1, Zenon
  <2> QED
    BY <1>2, <2>1, <2>2, Zenon
<1> QED
  BY <1>3, <1>5, <1>6, <1>7, Zenon DEF c, d, e

LEMMA WriteStep ==
  ASSUME Types, Locks, Open => Flow, NEW i \in Inserts, NEW n \in 1 .. Units, writef(i, n)
  PROVE  Types' /\ Locks' /\ (Open' => Flow')
<1>0. /\ st \in [Inserts -> State] /\ fifo \in [Inserts -> 0 .. MaxOpens] /\ gen \in 0 .. MaxOpens
      /\ part \in [Inserts -> Nat] /\ left \in [Inserts -> 0 .. Units] /\ MaxOpens \in Nat
      /\ pipe \in [1 .. MaxOpens -> Seq(Piece)] /\ Units \in Nat /\ Units # 0
      /\ \A g \in 1 .. MaxOpens : Len(pipe[g]) <= PipeSize
  BY Zenon DEF Types, InfeedTypeOK, State
<1> DEFINE f == fifo[i]
           P == Pieces(i, n)
<1>1. /\ st[i] = "write" /\ n \in 1 .. left[i] /\ Len(pipe[f]) + n <= PipeSize
      /\ pipe' = [pipe EXCEPT ![f] = pipe[f] \o P] /\ left' = [left EXCEPT ![i] = left[i] - n]
      /\ st' = IF left[i] = n THEN [st EXCEPT ![i] = "build"] ELSE st
      /\ f # 0 /\ f <= gen /\ lock[f] = i /\ part[i] # 0
  BY Zenon DEF writef, Locks, Go
<1>2. /\ UNCHANGED <<file, fifo, part, lock, gen, at, heir, buf, saved>>
      /\ fifo' = fifo /\ part' = part /\ lock' = lock /\ gen' = gen /\ saved' = saved
      /\ buf' = buf /\ at' = at
  BY Zenon DEF writef
<1>3. /\ P \in Seq(Piece) /\ Len(P) = n
      /\ \A k \in 1 .. n :
           P[k] = [insert |-> i, part |-> part[i], unit |-> Units - left[i] + k]
  BY <1>1, PiecesType, Zenon
<1>4. f \in 1 .. MaxOpens
  BY <1>0, <1>1
<1>5. left[i] - n \in 0 .. Units /\ (left[i] = n <=> left[i] - n = 0)
  <2>1. left[i] \in 0 .. Units /\ n \in 1 .. left[i] /\ Units \in Nat
    BY <1>0, <1>1, Zenon
  <2> QED
    BY ONLY <2>1
<1> HIDE DEF P
<1>6. Types'
  <2>1. pipe[f] \o P \in Seq(Piece) /\ Len(pipe[f] \o P) = Len(pipe[f]) + n
    <3> DEFINE p == pipe[f]
    <3>1. p \in Seq(Piece) /\ P \in Seq(Piece)
      BY <1>0, <1>3, <1>4, Zenon
    <3> HIDE DEF p
    <3>2. p \o P \in Seq(Piece) /\ Len(p \o P) = Len(p) + Len(P)
      BY ONLY <3>1, ConcatIs
    <3> QED
      BY <1>3, <3>2, Zenon DEF p
  <2>2. pipe' \in [1 .. MaxOpens -> Seq(Piece)]
    BY <1>0, <1>1, <1>4, <2>1, Zenon
  <2>3. \A g \in 1 .. MaxOpens : Len(pipe'[g]) <= PipeSize
    BY <1>0, <1>1, <1>4, <2>1, Zenon
  <2>4. st' \in [Inserts -> State] /\ left' \in [Inserts -> 0 .. Units]
    BY <1>0, <1>1, <1>5, Zenon DEF State
  <2> QED
    BY <1>2, <2>2, <2>3, <2>4, Zenon DEF Types, InfeedTypeOK, State
<1>7. /\ left'[i] = left[i] - n
      /\ st'[i] = IF left[i] = n THEN "build" ELSE "write"
      /\ \A j \in Inserts \ {i} : /\ st'[j] = st[j] /\ fifo'[j] = fifo[j]
                                   /\ part'[j] = part[j] /\ left'[j] = left[j]
      /\ \A g \in 1 .. MaxOpens : g # f => pipe'[g] = pipe[g]
      /\ pipe'[f] = pipe[f] \o P
  BY <1>0, <1>1, <1>2, <1>4, Zenon
<1>8. Locks'
  <2>1. st'[i] = "build" => left'[i] = 0
    BY <1>5, <1>7, Zenon
  <2>2. st'[i] = "write" => left'[i] # 0
    BY <1>5, <1>7, Zenon
  <2>3. st'[i] \in {"build", "write"} /\ st'[i] # "start" /\ st'[i] # "flock"
    BY <1>7, Zenon
  <2>4. \A g \in 1 .. MaxOpens : g > gen => pipe'[g] = pipe[g]
    BY <1>0, <1>1, <1>7
  <2> QED
    BY <1>1, <1>2, <1>7, <2>1, <2>2, <2>3, <2>4, OneLocks, Zenon
<1>9. ASSUME Open' PROVE Flow'
  <2>1. Open /\ Flow
    BY <1>2, <1>9, Zenon DEF Open
  <2>2. CASE f = gen
    <3>1. Stream' = buf \o (pipe[gen] \o P) /\ Stream = buf \o pipe[gen]
      BY <1>2, <1>7, <2>2, Zenon DEF Stream
    <3>2. pipe[gen] \in Seq(Piece) /\ buf \in Seq(Piece)
      BY <2>1, StreamIs, Zenon
    <3>3. /\ Stream' \in Seq(Piece) /\ Len(Stream') = Len(Stream) + Len(P)
          /\ \A k \in 1 .. Len(Stream) : Stream'[k] = Stream[k]
          /\ \A k \in 1 .. Len(P) : Stream'[Len(Stream) + k] = P[k]
      <4> DEFINE p == pipe[gen]
                 e == buf \o (p \o P)
                 c == buf \o p
      <4>1. p \in Seq(Piece) /\ buf \in Seq(Piece) /\ P \in Seq(Piece)
        BY <1>3, <3>2, Zenon
      <4> HIDE DEF p
      <4>2. /\ e \in Seq(Piece) /\ Len(e) = Len(c) + Len(P)
            /\ \A k \in 1 .. Len(c) : e[k] = c[k]
            /\ \A k \in 1 .. Len(P) : e[Len(c) + k] = P[k]
        BY ONLY <4>1, WriteAppends
      <4> QED
        BY <3>1, <4>2, Zenon DEF p
    <3>4. \A k \in 1 .. n : Stream'[Len(Stream) + k] =
            [insert |-> i, part |-> part[i], unit |-> Units - left[i] + k]
      BY <1>3, <3>3, Zenon
    <3>5. UNCHANGED <<fifo, part, gen, saved>>
      BY <1>2, Zenon
    <3> QED
      BY <1>1, <1>3, <2>1, <2>2, <3>3, <3>4, <3>5, WriteFlow, Zenon
  <2>3. CASE f # gen
    <3>1. gen \in 1 .. MaxOpens
      BY <2>1, StreamIs, Zenon
    <3>2. Stream' = Stream
      BY <1>2, <1>7, <2>3, <3>1, Zenon DEF Stream
    <3>3. UNCHANGED <<gen, saved>> /\ fifo'[i] # gen /\ st[i] # "killed"
      BY <1>1, <1>2, <2>3, Zenon
    <3> QED
      BY <1>2, <1>7, <2>1, <2>3, <3>2, <3>3, QuietFlow, Zenon
  <2> QED
    BY <2>2, <2>3, Zenon
<1> QED
  BY <1>6, <1>8, <1>9, Zenon

(* A step of an inserter keeps the invariant. *)
LEMMA InserterInv ==
  ASSUME InfeedInv, NEW i \in Inserts, InserterStep(i) \/ Kill(i)
  PROVE  InfeedInv'
<1>0. Types /\ Locks /\ (Open => Flow)
  BY DEF InfeedInv
<1>1. Types' /\ Locks' /\ (Open' => Flow')
  <2>1. CASE open_output(i)
    BY <1>0, <2>1, OpenStep, Zenon
  <2>2. CASE flock(i)
    BY <1>0, <2>2, FlockStep
  <2>3. CASE build_emwin_packet(i)
    BY <1>0, <2>3, BuildStep
  <2>4. CASE Sent(i)
    <3>1. /\ End(i, "done") /\ st[i] = "build"
          /\ UNCHANGED <<file, fifo, gen, at, heir, pipe, buf, saved>>
      BY <2>4, Zenon DEF Sent
    <3> QED
      BY <1>0, <3>1, EndStep, Zenon
  <2>5. CASE \E n \in 1 .. Units : writef(i, n)
    BY <1>0, <2>5, WriteStep, Zenon
  <2>6. CASE SigPipe(i)
    <3>1. /\ End(i, "killed") /\ st[i] = "write"
          /\ UNCHANGED <<file, fifo, gen, at, heir, pipe, buf, saved>>
      BY <2>6, Zenon DEF SigPipe
    <3> QED
      BY <1>0, <3>1, EndStep, Zenon
  <2>7. CASE Kill(i)
    <3>1. /\ End(i, "killed") /\ st[i] \in {"flock", "build", "write"}
          /\ UNCHANGED <<file, fifo, gen, at, heir, pipe, buf, saved>>
      BY <2>7, Zenon DEF Kill
    <3> QED
      BY <1>0, <3>1, EndStep, Zenon
  <2> QED
    BY <2>1, <2>2, <2>3, <2>4, <2>5, <2>6, <2>7, Zenon DEF InserterStep
<1>2. UNCHANGED <<file, gen, at, buf, saved>>
  BY Zenon DEF InserterStep, open_output, flock, build_emwin_packet, Sent, writef, SigPipe, Kill
<1>3. ASSUME NEW j \in Inserts, st[j] = "killed" PROVE st'[j] = "killed" /\ fifo'[j] = fifo[j]
  <2>1. /\ st \in [Inserts -> State] /\ fifo \in [Inserts -> 0 .. MaxOpens]
    BY <1>0, Zenon DEF Types, InfeedTypeOK, State
  <2>2. st[i] # "killed"
    BY Zenon DEF InserterStep, open_output, flock, build_emwin_packet, Sent, writef, SigPipe, Kill
  <2>3. \/ fifo' = fifo
        \/ fifo' = [fifo EXCEPT ![i] = gen]
    BY Zenon DEF InserterStep, open_output, flock, build_emwin_packet, Sent, writef, SigPipe, Kill
  <2>4. st' = st \/ \E s \in State : st' = [st EXCEPT ![i] = s]
    BY Zenon DEF InserterStep, open_output, flock, init_emwin_packet_st, build_emwin_packet, Sent, writef,
           SigPipe, Kill, End, Go, State
  <2> QED
    BY <1>3, <2>1, <2>2, <2>3, <2>4, Zenon
<1>4. Reader'
  <2>0. Reader
    BY DEF InfeedInv
  <2>1. /\ (~Open => buf = <<>>)'
        /\ (at = "read" => Len(buf) < Units)'
        /\ (at \in {"save", "bad"} => Len(buf) = Units)'
        /\ (at = "save" => Whole(buf))'
    BY <1>2, <2>0 DEF Reader, Open, Whole
  <2>2. ASSUME at = "bad"
        PROVE  ~file[buf[1].insert].named \/ (st'[buf[1].insert] = "killed" /\ fifo'[buf[1].insert] = gen)
    <3>1. buf \in Seq(Piece) /\ Len(buf) = Units
      BY <1>0, <2>0, <2>2, Zenon DEF Types, Reader
    <3>2. buf[1] \in Piece
      BY <3>1
    <3>3. buf[1].insert \in Inserts
      BY <3>2, Zenon DEF Piece
    <3>4. ~file[buf[1].insert].named \/ (st[buf[1].insert] = "killed" /\ fifo[buf[1].insert] = gen)
      BY <2>0, <2>2, Zenon DEF Reader, RefusedIsTorn
    <3> QED
      BY <1>3, <3>3, <3>4, Zenon
  <2>3. RefusedIsTorn'
    BY <1>2, <2>2, Zenon DEF RefusedIsTorn
  <2> QED
    BY <2>1, <2>3, Zenon DEF Reader
<1>5. SavedApart'
  <2>1. saved' = saved /\ SavedApart
    BY <1>2 DEF InfeedInv
  <2> QED
    BY <2>1 DEF SavedApart
<1> QED
  BY <1>1, <1>4, <1>5, Zenon DEF InfeedInv

-----------------------------------------------------------------------------
(* Steps of the thread and of the scripts. *)
LEMMA FrameFlow ==
  ASSUME Flow, Stream' = Stream, UNCHANGED <<st, fifo, part, left, gen, saved>>
  PROVE  Flow'
<1>0. /\ \A j : AbsentSaved(j)' <=> AbsentSaved(j)
      /\ \A j : Absent(j)' <=> Absent(j)
      /\ \A j, q : Behind(j, q)' <=> Behind(j, q)
  BY SameStream, Zenon
<1>1. st' = st /\ fifo' = fifo /\ part' = part /\ left' = left /\ gen' = gen /\ saved' = saved
  OBVIOUS
<1>2. Heads' /\ Links'
  BY <1>1 DEF Flow, Heads, Links, AbsentSaved
<1>3. Runs' /\ Unfinished'
  BY <1>1, Zenon DEF Flow, Runs, Unfinished
<1>4. Writers'
  BY <1>0, <1>1, Zenon DEF Flow, Writers, Behind
<1> QED
  BY <1>2, <1>3, <1>4, Zenon DEF Flow

LEMMA FrameLocks ==
  ASSUME Types, Locks, UNCHANGED <<st, fifo, part, left, lock, saved>>,
         gen' \in Nat, gen' >= gen,
         \A g \in 1 .. MaxOpens : g > gen => pipe'[g] = pipe[g] \/ pipe'[g] = <<>>
  PROVE  Locks'
<1>0. gen \in Nat /\ fifo \in [Inserts -> 0 .. MaxOpens] /\ MaxOpens \in Nat
  BY DEF Types, InfeedTypeOK
<1>1. st' = st /\ fifo' = fifo /\ part' = part /\ left' = left /\ lock' = lock /\ saved' = saved
  OBVIOUS
<1>2. \A i \in Inserts : fifo[i] <= gen'
  BY <1>0 DEF Locks
<1>3. \A g \in 1 .. MaxOpens : g > gen' => pipe'[g] = <<>>
  BY <1>0 DEF Locks
<1>4. \A j : AbsentSaved(j)' <=> AbsentSaved(j)
  BY <1>1, Zenon DEF AbsentSaved
<1> QED
  BY <1>1, <1>2, <1>3, <1>4 DEF Locks

LEMMA ReadStep ==
  ASSUME InfeedInv, Types', NEW n \in 1 .. Units, get_emwin_packet_infeed(n)
  PROVE  InfeedInv'
<1> DEFINE p == pipe[gen]
           b == buf \o SubSeq(p, 1, n)
<1>0. Types /\ Locks /\ Reader /\ Open /\ Flow
  BY Zenon DEF InfeedInv, get_emwin_packet_infeed, Open
<1>1. /\ UNCHANGED <<st, fifo, part, left, lock, file, gen, saved>>
      /\ n \in 1 .. Len(p) /\ Len(buf) + n <= Units
      /\ buf' = b /\ pipe' = [pipe EXCEPT ![gen] = SubSeq(p, n + 1, Len(p))]
      /\ at' = IF Len(b) < Units THEN "read"
               ELSE IF Whole(b) /\ file[b[1].insert].named THEN "save"
               ELSE "bad"
  BY Zenon DEF get_emwin_packet_infeed, inserters
<1>a. st' = st /\ fifo' = fifo /\ file' = file /\ gen' = gen /\ saved' = saved
  BY <1>1, Zenon
<1>2. gen \in 1 .. MaxOpens /\ p \in Seq(Piece) /\ buf \in Seq(Piece) /\ Stream \in Seq(Piece)
  BY <1>0, StreamIs, Zenon
<1>3. /\ b \in Seq(Piece) /\ Len(b) = Len(buf) + n
      /\ SubSeq(p, n + 1, Len(p)) \in Seq(Piece)
      /\ b \o SubSeq(p, n + 1, Len(p)) = buf \o p
  <2>1. p \in Seq(Piece) /\ buf \in Seq(Piece) /\ n \in 1 .. Len(p)
    BY <1>1, <1>2, Zenon
  <2> HIDE DEF p
  <2>2. /\ b \in Seq(Piece) /\ SubSeq(p, n + 1, Len(p)) \in Seq(Piece)
        /\ Len(b) = Len(buf) + n
        /\ Len(SubSeq(p, n + 1, Len(p))) = Len(p) - n
        /\ b \o SubSeq(p, n + 1, Len(p)) = buf \o p
    <3>1. \A x, y \in Seq(Piece) : \A m \in 1 .. Len(y) :
            /\ x \o SubSeq(y, 1, m) \in Seq(Piece) /\ SubSeq(y, m + 1, Len(y)) \in Seq(Piece)
            /\ Len(x \o SubSeq(y, 1, m)) = Len(x) + m
            /\ Len(SubSeq(y, m + 1, Len(y))) = Len(y) - m
            /\ (x \o SubSeq(y, 1, m)) \o SubSeq(y, m + 1, Len(y)) = x \o y
      BY ReadMoves, Zenon
    <3> QED
      BY <2>1, <3>1, Zenon
  <2> QED
    BY <2>2, Zenon
<1>4. pipe'[gen] = SubSeq(p, n + 1, Len(p)) /\ \A g \in 1 .. MaxOpens : g # gen => pipe'[g] = pipe[g]
  BY <1>0, <1>1, <1>2, Zenon DEF Types
<1>5. Stream' = Stream
  BY <1>1, <1>3, <1>4, <1>a, Zenon DEF Stream
<1>6. Flow'
  BY <1>0, <1>1, <1>5, FrameFlow, Zenon
<1>7. Locks'
  <2>1. \A g \in 1 .. MaxOpens : g > gen => pipe'[g] = pipe[g]
    BY <1>2, <1>4
  <2>2. gen' \in Nat /\ gen' >= gen
    BY <1>2, <1>a
  <2> QED
    BY <1>0, <1>1, <2>1, <2>2, FrameLocks, Zenon
<1>8. SavedApart'
  BY <1>a DEF InfeedInv, SavedApart
<1>9. \A k \in 1 .. Len(b) : k \in DOMAIN Stream /\ b[k] = Stream[k]
  <2> DEFINE q == SubSeq(p, n + 1, Len(p))
  <2>1. Stream = b \o q
    BY <1>3, Zenon DEF Stream
  <2>2. b \in Seq(Piece) /\ q \in Seq(Piece)
    BY <1>3, Zenon
  <2> HIDE DEF b, q
  <2>3. /\ Len(b \o q) = Len(b) + Len(q) /\ b \o q \in Seq(Piece)
        /\ \A k \in 1 .. Len(b) : (b \o q)[k] = b[k]
    BY ONLY <2>2, ConcatIs
  <2>4. \A k \in 1 .. Len(b) : k \in DOMAIN (b \o q)
    BY ONLY <2>2, <2>3
  <2> QED
    BY <2>1, <2>3, <2>4, Zenon
<1>10. Len(b) \in Nat /\ Len(b) <= Units /\ Units \in Nat /\ Units # 0
  BY <1>1, <1>2, <1>3
<1> HIDE DEF b
<1>11. ASSUME ~(Len(b) < Units), ~Whole(b)
       PROVE  st[b[1].insert] = "killed" /\ fifo[b[1].insert] = gen
  <2>1. Len(b) = Units /\ 1 \in 1 .. Len(b)
    BY ONLY <1>10, <1>11
  <2>2. 1 \in DOMAIN Stream /\ b[1] = Stream[1]
    BY <1>9, <2>1, Zenon
  <2>3. Stream # <<>>
    BY <2>2
  <2>4. Stream[1].unit = 1
    BY <1>0, <2>3, Zenon DEF Flow, Heads
  <2>5. fifo[b[1].insert] = gen
    BY <1>0, <2>2, Zenon DEF Flow, Writers
  <2>6. PICK c \in 1 .. Units : b[c] # [b[1] EXCEPT !.unit = c]
    BY <1>11, Zenon DEF Whole
  <2>7. c \in DOMAIN Stream /\ b[c] = Stream[c]
    BY <1>9, <2>1, <2>6, Zenon
  <2>8. c \in 1 .. Len(Stream) /\ c - 1 <= Units - 1 /\ 1 + (c - 1) = c
    BY <1>2, <1>10, <2>6, <2>7
  <2>9. \/ st[Stream[1].insert] = "killed"
        \/ Stream[c] = [Stream[1] EXCEPT !.unit = @ + (c - 1)]
    BY <1>0, <2>2, <2>4, <2>8, Zenon DEF Flow, Runs
  <2>10. Stream[1] \in Piece
    BY <1>2, <2>2
  <2>11. [Stream[1] EXCEPT !.unit = @ + (c - 1)] = [Stream[1] EXCEPT !.unit = c]
    BY <2>4, <2>8, <2>10, Zenon DEF Piece
  <2> QED
    BY <2>2, <2>5, <2>6, <2>7, <2>9, <2>11, Zenon
<1>12. Reader'
  <2>1. at' \in {"read", "save", "bad"}
    BY <1>1, Zenon
  <2>2. at' = "read" => Len(b) < Units
    BY <1>1, Zenon
  <2>3. at' \in {"save", "bad"} => Len(b) = Units
    BY <1>1, <1>10
  <2>4. at' = "save" => Whole(b)
    BY <1>1, Zenon
  <2>5. at' = "bad" => ~(Len(b) < Units) /\ (~Whole(b) \/ ~file[b[1].insert].named)
    BY <1>1, Zenon
  <2>6. RefusedIsTorn'
    BY <1>1, <1>a, <1>11, <2>5, Zenon DEF RefusedIsTorn
  <2>7. Open'
    BY <2>1, Zenon DEF Open
  <2>8. Whole(buf)' <=> Whole(b)
    BY <1>1, Zenon DEF Whole
  <2> QED
    BY <1>1, <2>2, <2>3, <2>4, <2>6, <2>7, <2>8, Zenon DEF Reader
<1> QED
  BY <1>6, <1>7, <1>8, <1>12, Zenon DEF InfeedInv

LEMMA SaveStep ==
  ASSUME InfeedInv, Types', save_emwin_packet
  PROVE  InfeedInv'
<1> DEFINE p == pipe[gen]
<1>0. Types /\ Locks /\ Reader /\ SavedApart /\ Open /\ Flow
  BY Zenon DEF InfeedInv, save_emwin_packet, Open
<1>1. /\ UNCHANGED <<st, fifo, part, left, lock, file, gen, pipe>>
      /\ st' = st /\ fifo' = fifo /\ part' = part /\ left' = left /\ lock' = lock
      /\ gen' = gen /\ pipe' = pipe
  BY Zenon DEF save_emwin_packet, inserters
<1>2. gen \in 1 .. MaxOpens /\ p \in Seq(Piece) /\ buf \in Seq(Piece) /\ Stream \in Seq(Piece)
  BY <1>0, StreamIs, Zenon
<1>3. CASE at' = "error" /\ UNCHANGED <<buf, saved>>
  <2>0. buf' = buf /\ saved' = saved /\ at' = "error" /\ UNCHANGED saved
    BY <1>3
  <2>1. Stream' = Stream
    BY <1>1, <2>0, Zenon DEF Stream
  <2>2. Flow'
    BY <1>0, <1>1, <2>0, <2>1, FrameFlow, Zenon
  <2>3. Locks'
    BY <1>0, <1>1, <1>2, <2>0, FrameLocks
  <2>4. Reader' /\ SavedApart'
    BY <1>0, <2>0 DEF Reader, RefusedIsTorn, Open, SavedApart
  <2> QED
    BY <2>2, <2>3, <2>4, Zenon DEF InfeedInv
<1>4. CASE /\ at' = "read" /\ buf' = <<>>
           /\ saved' = Append(saved, [insert |-> buf[1].insert, part |-> buf[1].part])
  <2>1. Len(buf) = Units /\ Whole(buf) /\ Units \in Nat /\ Units # 0
    BY <1>0, Zenon DEF Reader, save_emwin_packet
  <2>2. /\ Len(Stream) = Units + Len(p)
        /\ \A k \in 1 .. Units : Stream[k] = buf[k]
        /\ \A k \in 1 .. Len(p) : Stream[Units + k] = p[k]
    BY <1>0, <2>1, StreamIs, Zenon
  <2>3. Stream[1] = buf[1] /\ Len(p) \in Nat
    BY <1>2, <2>1, <2>2
  <2>4. \A c \in 1 .. Units : Stream[c] = [Stream[1] EXCEPT !.unit = c]
    BY <2>1, <2>2, <2>3, Zenon DEF Whole
  <2>5. saved' = Append(saved, [insert |-> Stream[1].insert, part |-> Stream[1].part])
    BY <1>4, <2>3, Zenon
  <2>6. Stream' = p
    <3>1. Stream' = <<>> \o p
      BY <1>1, <1>4, Zenon DEF Stream
    <3> HIDE DEF p
    <3>2. <<>> \o p = p
      BY <1>2
    <3> QED
      BY <3>1, <3>2, Zenon
  <2>7. /\ Stream' \in Seq(Piece) /\ Len(Stream') = Len(Stream) - Units
        /\ \A k \in 1 .. Len(Stream') : Stream'[k] = Stream[Units + k]
    BY <1>2, <2>1, <2>2, <2>3, <2>6
  <2>8. Len(Stream) >= Units
    BY <2>1, <2>2, <2>3
  <2>9. Flow' /\ SavedApart'
    <3>1. UNCHANGED <<st, fifo, part, left, gen>>
      BY <1>1, Zenon
    <3> QED
      BY <1>0, <2>4, <2>5, <2>7, <2>8, <3>1, SaveFlow, Zenon
  <2>10. Locks'
    <3> DEFINE m == Stream[1].insert
    <3>1. 1 \in DOMAIN Stream /\ gen # 0
      BY <1>2, <2>1, <2>8
    <3>2. m \in Inserts /\ fifo[m] = gen
      <4>1. Stream[1] \in Piece
        BY <1>2, <3>1
      <4> QED
        BY <1>0, <3>1, <4>1, Zenon DEF Flow, Writers, Piece
    <3>3. st[m] # "start" /\ st[m] # "flock"
      <4>1. ~Absent(m)
        BY <3>1, Zenon DEF Absent
      <4>2. st[m] = "flock" => Absent(m)
        BY <1>0, <3>2, Zenon DEF Flow, Writers
      <4>3. st[m] = "start" => fifo[m] = 0
        BY <1>0, <3>2, Zenon DEF Locks
      <4> QED
        BY <3>1, <3>2, <4>1, <4>2, <4>3, Zenon
    <3>4. saved \in Seq(Packet) /\ [insert |-> m, part |-> Stream[1].part].insert = m
      BY <1>0, Zenon DEF Types
    <3> HIDE DEF m
    <3>5. ASSUME NEW j, AbsentSaved(j), j # m PROVE AbsentSaved(j)'
      <4>1. saved' = Append(saved, [insert |-> m, part |-> Stream[1].part])
        BY <2>5, Zenon DEF m
      <4>2. \A k \in DOMAIN saved' :
              \/ k \in DOMAIN saved /\ saved'[k] = saved[k]
              \/ saved'[k] = [insert |-> m, part |-> Stream[1].part]
        <5> DEFINE x == [insert |-> m, part |-> Stream[1].part]
        <5> HIDE DEF x
        <5>1. DOMAIN saved = 1 .. Len(saved) /\ Len(saved) \in Nat
          BY <3>4
        <5>2. /\ DOMAIN Append(saved, x) = 1 .. Len(saved) + 1
              /\ \A k \in 1 .. Len(saved) : Append(saved, x)[k] = saved[k]
              /\ Append(saved, x)[Len(saved) + 1] = x
          BY <3>4
        <5>3. \A k \in 1 .. Len(saved) + 1 : k \in 1 .. Len(saved) \/ k = Len(saved) + 1
          BY <5>1
        <5> QED
          BY <4>1, <5>1, <5>2, <5>3, Zenon DEF x
      <4> QED
        BY <3>4, <3>5, <4>2, Zenon DEF AbsentSaved
    <3>6. \A j \in Inserts : st[j] \in {"start", "flock"} => AbsentSaved(j)'
      BY <1>0, <3>3, <3>5, Zenon DEF Locks
    <3> QED
      BY <1>0, <1>1, <3>6 DEF Locks
  <2>11. Reader'
    <3>1. at' = "read" /\ buf' = <<>> /\ Len(<<>>) < Units
      BY <1>4, <2>1
    <3> QED
      BY <3>1, Zenon DEF Reader, RefusedIsTorn, Open
  <2> QED
    BY <2>9, <2>10, <2>11, Zenon DEF InfeedInv
<1> QED
  BY <1>3, <1>4, Zenon DEF save_emwin_packet

(* The thread gives up the fifo, or makes one: what was read of a packet is *)
(* not kept, and nobody writes to the new one yet.                          *)
LEMMA FifoStep ==
  ASSUME InfeedInv, Types', ReadEnds \/ infeed_close_fifo \/ unlink \/ infeed_open_fifo
  PROVE  InfeedInv'
<1>0. Types /\ Locks /\ Reader /\ SavedApart /\ gen \in Nat
  BY DEF InfeedInv, Types, InfeedTypeOK
<1>1. /\ UNCHANGED <<st, fifo, part, left, lock, saved>>
      /\ saved' = saved /\ fifo' = fifo /\ st' = st
  BY Zenon DEF ReadEnds, infeed_close_fifo, unlink, infeed_open_fifo, inserters
<1>2. SavedApart'
  BY <1>0, <1>1 DEF SavedApart
<1>3. Locks'
  <2>1. gen' \in Nat /\ gen' >= gen
    BY <1>0 DEF ReadEnds, infeed_close_fifo, unlink, infeed_open_fifo
  <2>2. \/ pipe' = pipe
        \/ pipe' = [pipe EXCEPT ![gen] = <<>>]
    BY Zenon DEF ReadEnds, infeed_close_fifo, unlink, infeed_open_fifo
  <2>3. \A g \in 1 .. MaxOpens : g > gen => pipe'[g] = pipe[g]
    BY <1>0, <2>2 DEF Types
  <2> QED
    BY <1>0, <1>1, <2>1, <2>3, FrameLocks, Zenon
<1>4. Reader'
  <2>1. CASE ReadEnds
    <3>1. at' = "error" /\ buf' = buf
      BY <2>1, Zenon DEF ReadEnds
    <3> QED
      BY <3>1, Zenon DEF Reader, RefusedIsTorn, Open
  <2>2. CASE infeed_close_fifo \/ unlink
    <3>1. at' \in {"unlink", "closed"} /\ buf' = <<>>
      BY <1>0, <2>2, Zenon DEF infeed_close_fifo, unlink, Reader, Open
    <3> QED
      BY <3>1, Zenon DEF Reader, RefusedIsTorn, Open
  <2>3. CASE infeed_open_fifo
    <3>1. at' = "read" /\ buf' = <<>>
      BY <1>0, <2>3, Zenon DEF infeed_open_fifo, Reader, Open
    <3>2. Len(<<>>) < Units
      OBVIOUS
    <3> QED
      BY <3>1, <3>2, Zenon DEF Reader, RefusedIsTorn, Open
  <2> QED
    BY <2>1, <2>2, <2>3, Zenon
<1>5. ASSUME Open' PROVE Flow'
  <2>1. CASE ReadEnds
    <3>1. Open /\ Flow
      BY <2>1, Zenon DEF ReadEnds, Open, InfeedInv
    <3>2. buf' = buf /\ pipe' = pipe /\ gen' = gen
      BY <2>1, Zenon DEF ReadEnds
    <3>3. Stream' = Stream
      BY <3>2, Zenon DEF Stream
    <3> QED
      BY <1>1, <3>1, <3>2, <3>3, FrameFlow, Zenon
  <2>2. CASE infeed_open_fifo
    <3>1. buf' = <<>> /\ gen' = gen + 1 /\ pipe' = pipe /\ gen + 1 \in 1 .. MaxOpens
      BY <1>0, <2>2 DEF infeed_open_fifo, Reader, Open
    <3>2. pipe'[gen'] = <<>>
      <4>1. gen + 1 > gen
        BY <1>0
      <4> QED
        BY <1>0, <3>1, <4>1, Zenon DEF Locks
    <3>3. Stream' = <<>>
      BY <3>1, <3>2 DEF Stream
    <3>4. \A i \in Inserts : fifo[i] # gen'
      <4>1. \A i \in Inserts : fifo[i] <= gen /\ fifo[i] \in Nat
        BY <1>0 DEF Locks, Types, InfeedTypeOK
      <4> QED
        BY <1>0, <3>1, <4>1
    <3>5. DOMAIN (<<>>) = {} /\ Len(<<>>) = 0
      OBVIOUS
    <3>6. Heads' /\ Unfinished'
      BY <3>3, Zenon DEF Heads, Unfinished
    <3>7. Links' /\ Runs'
      BY <3>3, <3>5 DEF Links, Runs
    <3>8. Writers'
      <4>1. \A k \in DOMAIN Stream' : fifo'[Stream'[k].insert] = gen'
        BY <3>3, <3>5, Zenon
      <4>2. \A i \in Inserts : ~(fifo'[i] = gen')
        BY <1>1, <3>4, Zenon
      <4> QED
        BY <4>1, <4>2, Zenon DEF Writers
    <3> QED
      BY <3>6, <3>7, <3>8, Zenon DEF Flow
  <2>3. CASE infeed_close_fifo \/ unlink
    BY <1>5, <2>3, Zenon DEF infeed_close_fifo, unlink, Open
  <2> QED
    BY <2>1, <2>2, <2>3, Zenon
<1> QED
  BY <1>2, <1>3, <1>4, <1>5, Zenon DEF InfeedInv

(* A script inherits the fifo or ends: what the thread reads is the same. *)
LEMMA ScriptStep ==
  ASSUME InfeedInv, Types', Fork \/ \E g \in 1 .. MaxOpens : ScriptsEnd(g)
  PROVE  InfeedInv'
<1>0. Types /\ Locks /\ Reader /\ SavedApart /\ gen \in Nat
  BY DEF InfeedInv, Types, InfeedTypeOK
<1>1. /\ UNCHANGED <<st, fifo, part, left, lock, saved>> /\ UNCHANGED gen
      /\ saved' = saved /\ fifo' = fifo /\ st' = st /\ gen' = gen /\ at' = at /\ buf' = buf
      /\ file' = file
  BY Zenon DEF Fork, ScriptsEnd, inserters
<1>2. \/ pipe' = pipe
      \/ \E g \in 1 .. MaxOpens : ~IsOpen(g) /\ pipe' = [pipe EXCEPT ![g] = <<>>]
  BY Zenon DEF Fork, ScriptsEnd
<1>3. SavedApart' /\ Reader'
  BY <1>0, <1>1, Zenon DEF SavedApart, Reader, RefusedIsTorn, Open, Whole
<1>4. Locks'
  <2>1. \A g \in 1 .. MaxOpens : pipe'[g] = pipe[g] \/ pipe'[g] = <<>>
    BY <1>0, <1>2, Zenon DEF Types
  <2> QED
    BY <1>0, <1>1, <2>1, FrameLocks
<1>5. ASSUME Open' PROVE Flow'
  <2>1. Open /\ Flow
    BY <1>1, <1>5, Zenon DEF Open, InfeedInv
  <2>2. gen \in 1 .. MaxOpens /\ IsOpen(gen)
    <3>1. gen \in 1 .. MaxOpens
      BY <1>0, <2>1, StreamIs, Zenon
    <3> QED
      BY <2>1, <3>1, Zenon DEF IsOpen, Open
  <2>3. pipe'[gen] = pipe[gen]
    BY <1>0, <1>2, <2>2, Zenon DEF Types
  <2>4. Stream' = Stream
    BY <1>1, <2>3, Zenon DEF Stream
  <2> QED
    BY <1>1, <2>1, <2>4, FrameFlow, Zenon
<1> QED
  BY <1>3, <1>4, <1>5, Zenon DEF InfeedInv

-----------------------------------------------------------------------------
LEMMA InitInv == Init => InfeedInv
<1> SUFFICES ASSUME Init PROVE InfeedInv
  OBVIOUS
<1>0. <<>> \in Seq(Piece) /\ <<>> \in Seq(Packet) /\ Len(<<>>) = 0 /\ DOMAIN (<<>>) = {}
  OBVIOUS
<1>1. Types
  <2>1. /\ pipe \in [1 .. MaxOpens -> Seq(Piece)] /\ buf \in Seq(Piece) /\ saved \in Seq(Packet)
        /\ \A g \in 1 .. MaxOpens : Len(pipe[g]) <= PipeSize
        /\ Len(buf) <= Units
    <3>1. pipe = [g \in 1 .. MaxOpens |-> <<>>] /\ buf = <<>> /\ saved = <<>>
      BY Zenon DEF Init
    <3>2. PipeSize \in Nat /\ Units \in Nat
      OBVIOUS
    <3> QED
      BY ONLY <1>0, <3>1, <3>2
  <2>2. /\ part \in [Inserts -> Nat] /\ left \in [Inserts -> 0 .. Units]
        /\ fifo \in [Inserts -> 0 .. MaxOpens] /\ gen \in 0 .. MaxOpens
    BY DEF Init
  <2> QED
    BY <2>1, <2>2, Zenon DEF Types, InfeedTypeOK, Init
<1>2. Locks
  BY <1>0 DEF Init, Locks, AbsentSaved
<1>3. Reader /\ SavedApart /\ ~Open
  BY <1>0 DEF Init, Reader, RefusedIsTorn, SavedApart, Open
<1> QED
  BY <1>1, <1>2, <1>3 DEF InfeedInv

LEMMA NextInv == InfeedInv /\ [Next]_vars => InfeedInv'
<1> SUFFICES ASSUME InfeedInv, [Next]_vars PROVE InfeedInv'
  BY Zenon
<1>0. Types /\ Locks /\ Reader
  BY DEF InfeedInv
<1>1. CASE \E i \in Inserts : InserterStep(i) \/ Kill(i)
  BY <1>1, InserterInv, Zenon
<1>2. CASE Reads \/ ReadEnds \/ infeed_open_fifo \/ Fork
           \/ \E g \in 1 .. MaxOpens : ScriptsEnd(g)
  <2>1. Types'
    BY <1>0, <1>2, ReaderType, Zenon
  <2>2. CASE \E n \in 1 .. Units : get_emwin_packet_infeed(n)
    BY <2>1, <2>2, ReadStep, Zenon
  <2>3. CASE save_emwin_packet
    BY <2>1, <2>3, SaveStep, Zenon
  <2>4. CASE ReadEnds \/ infeed_close_fifo \/ unlink \/ infeed_open_fifo
    BY <2>1, <2>4, FifoStep, Zenon
  <2>5. CASE Fork \/ \E g \in 1 .. MaxOpens : ScriptsEnd(g)
    BY <2>1, <2>5, ScriptStep, Zenon
  <2> QED
    BY <1>2, <2>2, <2>3, <2>4, <2>5, Zenon DEF Reads
<1>3. CASE UNCHANGED vars
  <2>1. /\ UNCHANGED <<st, fifo, part, left, lock, saved>> /\ UNCHANGED gen
        /\ saved' = saved /\ fifo' = fifo /\ st' = st /\ gen' = gen /\ at' = at /\ buf' = buf
        /\ pipe' = pipe /\ file' = file /\ heir' = heir /\ part' = part /\ left' = left /\ lock' = lock
    BY <1>3, Zenon DEF vars
  <2>2. Types'
    BY <1>0, <2>1, Zenon DEF Types, InfeedTypeOK
  <2>3. Reader' /\ SavedApart'
    BY <2>1, Zenon DEF InfeedInv, Reader, RefusedIsTorn, Open, Whole, SavedApart
  <2>4. Locks'
    <3>1. gen \in Nat
      BY <1>0 DEF Types, InfeedTypeOK
    <3> QED
      BY <1>0, <2>1, <3>1, FrameLocks
  <2>5. ASSUME Open' PROVE Flow'
    <3>1. Open /\ Flow
      BY <2>1, <2>5, Zenon DEF Open, InfeedInv
    <3>2. Stream' = Stream
      BY <2>1, Zenon DEF Stream
    <3> QED
      BY <2>1, <3>1, <3>2, FrameFlow, Zenon
  <2> QED
    BY <2>2, <2>3, <2>4, <2>5, Zenon DEF InfeedInv
<1> QED
  BY <1>1, <1>2, <1>3, Zenon DEF Next

(* At every moment what the thread has read and what the fifo holds are the *)
(* parts of the inserters' files in order, packet by packet, but for the    *)
(* packet of an inserter that was killed.                                   *)
THEOREM Invariance == Spec => []InfeedInv
BY InitInv, NextInv, PTL DEF Spec

(* The packets that process_packets() saves of a file follow one another    *)
(* from the first, each once, and those of two files are not mixed.         *)
THEOREM InsertsApartHolds == Spec => []InsertsApart
<1>1. InfeedInv => InsertsApart
  BY Zenon DEF InfeedInv, InsertsApart, SavedApart, Types
<1> QED
  BY <1>1, Invariance, PTL

(* get_emwin_packet_infeed() refuses only what has a bad name or what an    *)
(* inserter that was killed left unfinished in this fifo.                   *)
THEOREM RefusedIsTornHolds == Spec => []RefusedIsTorn
<1>1. InfeedInv => RefusedIsTorn
  BY Zenon DEF InfeedInv, Reader
<1> QED
  BY <1>1, Invariance, PTL

-----------------------------------------------------------------------------
LEMMA TimesMonotone ==
  ASSUME NEW a \in Int, NEW b \in Int, NEW D \in Nat, a <= b
  PROVE  a * D <= b * D
<1>1. PICK d \in Nat : b = a + d
  <2>1. b - a \in Nat /\ b = a + (b - a)
    OBVIOUS
  <2> QED
    BY <2>1
<1>2. b * D = a * D + d * D /\ d * D >= 0
  BY <1>1
<1> QED
  BY <1>2

LEMMA DivMod ==
  ASSUME NEW s \in Nat, NEW D \in Nat, D > 0
  PROVE  /\ s \div D \in Nat /\ s % D \in Nat /\ s % D < D
         /\ s = (s \div D) * D + (s % D)
OBVIOUS

(* The bytes of part p of a file of size s, BytesOf(i, p) for the file of i. *)
Bytes(s, p) ==
  PartData(s, p).from .. PartData(s, p).from + PartData(s, p).size - 1

(* get_parts_total() and get_last_part_size() cut a file of any size into   *)
(* parts of at most DataSize bytes, none empty: every byte is in a part,    *)
(* none in two, and no part goes past the end of the file.                  *)
THEOREM PartsAreTheFile ==
  ASSUME NEW s \in Nat
  PROVE  /\ get_parts_total(s) \in Nat
         /\ \A p \in 1 .. get_parts_total(s) :
              PartData(s, p).size \in 1 .. DataSize /\ Bytes(s, p) \subseteq 0 .. s - 1
         /\ \A b \in 0 .. s - 1 : \E p \in 1 .. get_parts_total(s) : b \in Bytes(s, p)
         /\ \A p, o \in 1 .. get_parts_total(s) : p # o => Bytes(s, p) \cap Bytes(s, o) = {}
<1> DEFINE D == DataSize
           q == s \div D
           r == s % D
           n == get_parts_total(s)
<1>1. D \in Nat /\ D > 0
  OBVIOUS
<1>2. q \in Nat /\ r \in Nat /\ r < D /\ s = q * D + r
  BY <1>1, DivMod
<1>3. n = IF r # 0 THEN q + 1 ELSE q
  BY DEF get_parts_total
<1>4. n \in Nat
  BY ONLY <1>2, <1>3
<1>5. \A p : PartData(s, p).from = (p - 1) * D
             /\ PartData(s, p).size = IF p = n THEN (IF r = 0 THEN D ELSE r) ELSE D
  BY DEF PartData, get_last_part_size
<1> HIDE DEF D, q, r, n
<1>6. ASSUME NEW p \in 1 .. n
      PROVE  /\ PartData(s, p).size \in 1 .. D
             /\ Bytes(s, p) = (p - 1) * D .. (IF p = n THEN s ELSE p * D) - 1
             /\ 0 <= (p - 1) * D /\ (p < n => p * D <= s)
  <2>1. p \in Int /\ p - 1 \in Int /\ 0 <= p - 1 /\ p * D = (p - 1) * D + D /\ (p - 1) * D \in Int
    BY <1>1, <1>4
  <2>2. 0 <= (p - 1) * D
    <3>1. 0 * D <= (p - 1) * D
      BY <1>1, <2>1, TimesMonotone
    <3> QED
      BY <1>1, <3>1
  <2>3. PartData(s, p).size \in 1 .. D
    BY <1>1, <1>2, <1>5
  <2>4. ASSUME p < n PROVE p * D <= s
    <3>1. p <= q
      BY ONLY <1>2, <1>3, <2>1, <2>4
    <3>2. p * D <= q * D
      BY <1>1, <1>2, <2>1, <3>1, TimesMonotone
    <3>3. q * D \in Int /\ p * D \in Int
      BY <1>1, <1>2, <2>1
    <3> QED
      BY ONLY <1>2, <3>2, <3>3
  <2>5. ASSUME p = n PROVE (p - 1) * D + PartData(s, p).size = s
    <3>1. CASE r = 0
      <4>1. p = q /\ PartData(s, p).size = D
        BY <1>3, <1>5, <2>5, <3>1
      <4>2. p * D = q * D /\ q * D \in Int
        BY <1>1, <1>2, <4>1
      <4> QED
        BY ONLY <1>1, <1>2, <2>1, <3>1, <4>1, <4>2
    <3>2. CASE r # 0
      <4>1. p - 1 = q /\ PartData(s, p).size = r
        BY <1>2, <1>3, <1>5, <2>5, <3>2
      <4> QED
        BY <1>2, <4>1
    <3> QED
      BY <3>1, <3>2
  <2>6. ASSUME p # n PROVE (p - 1) * D + PartData(s, p).size = p * D
    <3>1. PartData(s, p).size = D
      BY <1>5, <2>6
    <3> QED
      BY <2>1, <3>1
  <2>7. Bytes(s, p) = (p - 1) * D .. ((p - 1) * D + PartData(s, p).size) - 1
    <3> DEFINE x == (p - 1) * D
               y == PartData(s, p).size
    <3>1. Bytes(s, p) = x .. x + (y - 1) /\ x \in Int /\ y \in Int
      BY <1>5, <2>1, <2>3 DEF Bytes
    <3> HIDE DEF x, y
    <3>2. x + (y - 1) = (x + y) - 1
      BY <3>1
    <3> QED
      BY <3>1, <3>2, Zenon DEF x, y
  <2>8. Bytes(s, p) = (p - 1) * D .. (IF p = n THEN s ELSE p * D) - 1
    <3>1. CASE p = n
      BY <2>5, <2>7, <3>1, Zenon
    <3>2. CASE p # n
      BY <2>6, <2>7, <3>2, Zenon
    <3> QED
      BY <3>1, <3>2
  <2> QED
    BY <2>2, <2>3, <2>4, <2>8
<1>7. ASSUME NEW p \in 1 .. n PROVE Bytes(s, p) \subseteq 0 .. s - 1
  <2>1. (p - 1) * D \in Int /\ p * D \in Int /\ (p = n \/ p < n)
    BY <1>1, <1>4
  <2> DEFINE x == (p - 1) * D
             y == p * D
  <2>2. Bytes(s, p) = x .. (IF p = n THEN s ELSE y) - 1 /\ 0 <= x /\ (p < n => y <= s)
    BY <1>6
  <2> HIDE DEF x, y
  <2> QED
    BY <2>1, <2>2 DEF x, y
<1>8. ASSUME NEW b \in 0 .. s - 1 PROVE \E p \in 1 .. n : b \in Bytes(s, p)
  <2> DEFINE x == b \div D
  <2>1. x \in Nat /\ x * D <= b /\ b < x * D + D /\ b \in Nat /\ x * D \in Int
    <3>1. b \in Nat
      OBVIOUS
    <3>2. b % D \in Nat /\ b % D < D /\ x \in Nat /\ b = x * D + (b % D)
      BY <1>1, <3>1, DivMod
    <3>3. x * D \in Int
      BY <1>1, <3>2
    <3> QED
      BY ONLY <1>1, <3>1, <3>2, <3>3
  <2> HIDE DEF x
  <2>2. x + 1 <= n
    <3> SUFFICES ASSUME n <= x PROVE FALSE
      BY <1>4, <2>1
    <3>1. n * D <= x * D
      BY <1>1, <1>4, <2>1, TimesMonotone
    <3>2. s <= n * D
      <4>1. CASE r = 0
        <5>1. n * D = q * D
          BY <1>3, <4>1
        <5> QED
          BY <1>1, <1>2, <4>1, <5>1
      <4>2. CASE r # 0
        <5>1. n * D = q * D + D
          BY <1>1, <1>2, <1>3, <4>2
        <5> QED
          BY <1>1, <1>2, <5>1
      <4> QED
        BY <4>1, <4>2
    <3>3. n * D \in Int
      BY <1>1, <1>4
    <3> QED
      BY ONLY <2>1, <3>1, <3>2, <3>3, b \in 0 .. s - 1, s \in Nat
  <2>3. x + 1 \in 1 .. n /\ (x + 1) - 1 = x /\ (x + 1) * D = x * D + D
    BY <1>1, <1>4, <2>1, <2>2
  <2>4. Bytes(s, x + 1) = x * D .. (IF x + 1 = n THEN s ELSE x * D + D) - 1
    BY <1>6, <2>3
  <2>5. b \in Bytes(s, x + 1)
    BY <1>1, <2>1, <2>4
  <2> QED
    BY <2>3, <2>5
<1>9. ASSUME NEW p \in 1 .. n, NEW o \in 1 .. n, p < o PROVE Bytes(s, p) \cap Bytes(s, o) = {}
  <2> DEFINE w == (p - 1) * D
             x == p * D
             y == (o - 1) * D
             z == o * D
  <2>1. x <= y
    BY <1>1, <1>4, <1>9, TimesMonotone
  <2>2. x \in Int /\ y \in Int /\ z \in Int /\ w \in Int
    BY <1>1, <1>4
  <2>3. p # n /\ Bytes(s, p) = w .. x - 1 /\ Bytes(s, o) = y .. (IF o = n THEN s ELSE z) - 1
    <3>1. p # n
      BY <1>4, <1>9
    <3> QED
      BY <1>6, <3>1
  <2> HIDE DEF w, x, y, z
  <2> QED
    BY <2>1, <2>2, <2>3
<1>10. ASSUME NEW p \in 1 .. n, NEW o \in 1 .. n, p # o PROVE Bytes(s, p) \cap Bytes(s, o) = {}
  <2>1. p < o \/ o < p
    BY <1>4, <1>10
  <2> QED
    BY <1>9, <2>1
<1> QED
  BY <1>4, <1>6, <1>7, <1>8, <1>10 DEF n, D
=============================================================================
