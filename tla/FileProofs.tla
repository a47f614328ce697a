------------------------------ MODULE FileProofs ------------------------------
EXTENDS FileSystemCalls, FiniteSetTheorems, SequenceTheorems, WellFoundedInduction, TLAPS

LEMMA LeastNatural ==
  ASSUME NEW S, S \subseteq Nat, S # {}
  PROVE  \E x \in S : \A y \in S : x <= y
<1> DEFINE R == {ss \in Nat \X Nat : ss[1] < ss[2]}
<1>1. IsWellFoundedOn(R, Nat)
  BY NatLessThanWellFounded DEF OpToRel
<1>2. ASSUME NEW x \in Nat, NEW y \in Nat, x < y
      PROVE  <<x, y>> \in R
  <2>1. <<x, y>> \in Nat \X Nat
    OBVIOUS
  <2> QED
    BY <1>2, <2>1
<1> HIDE DEF R
<1>3. PICK x \in S : \A y \in S : ~ (<<y, x>> \in R)
  BY <1>1, WFMin
<1>4. ASSUME NEW y \in S PROVE x <= y
  <2>1. x \in Nat /\ y \in Nat
    BY <1>3
  <2>2. ~ (y < x)
    BY <1>2, <1>3, <2>1
  <2> QED
    BY <2>1, <2>2
<1> QED
  BY <1>3, <1>4

LEMMA MinOfSet ==
  ASSUME NEW S, S \subseteq Nat, S # {}
  PROVE  Min(S) \in S /\ \A y \in S : Min(S) <= y
BY LeastNatural DEF Min

(* Induction, for one set at a time.                                       *)
LEMMA UpTo ==
  ASSUME NEW n \in Nat, NEW S, 0 \in S, \A k \in 0 .. n - 1 : k \in S => k + 1 \in S
  PROVE  \A k \in 0 .. n : k \in S
<1> DEFINE Out == {k \in 0 .. n : k \notin S}
<1>1. SUFFICES ASSUME Out # {}
               PROVE  FALSE
  OBVIOUS
<1>0. Out \subseteq Nat
  OBVIOUS
<1>2. PICK x \in Out : \A y \in Out : x <= y
  <2> HIDE DEF Out
  <2> QED
    BY <1>0, <1>1, LeastNatural
<1>3. x # 0 /\ x - 1 \in 0 .. n - 1
  BY <1>2
<1>4. x - 1 \in S
  BY <1>2, <1>3
<1>5. (x - 1) + 1 = x
  BY <1>2
<1> QED
  BY <1>2, <1>3, <1>4, <1>5


-----------------------------------------------------------------------------
(* Sequences                                                               *)

IsSeq(s) == s \in Seq(Range(s))

LEMMA ASequence ==
  ASSUME NEW S, NEW s \in Seq(S)
  PROVE  IsSeq(s)
<1>1. s \in [1 .. Len(s) -> S] /\ Len(s) \in Nat
  BY LenProperties
<1>2. s \in [1 .. Len(s) -> Range(s)]
  BY <1>1 DEF Range
<1> QED
  BY <1>1, <1>2, SeqDef DEF IsSeq

LEMMA LenOf ==
  ASSUME NEW s, IsSeq(s)
  PROVE  Len(s) \in Nat /\ DOMAIN s = 1 .. Len(s)
BY LenProperties DEF IsSeq

LEMMA EmptyIsSeq == IsSeq(<<>>) /\ Len(<<>>) = 0
BY ASequence, EmptySeq

LEMMA AppendSeq ==
  ASSUME NEW s, IsSeq(s), NEW e
  PROVE  /\ IsSeq(Append(s, e))
         /\ Len(Append(s, e)) = Len(s) + 1
         /\ Append(s, e)[Len(s) + 1] = e
         /\ \A k \in 1 .. Len(s) : Append(s, e)[k] = s[k]
<1> DEFINE S == Range(s) \cup {e}
<1>1. Range(s) \subseteq S /\ e \in S
  OBVIOUS
<1> HIDE DEF S
<1>2. s \in Seq(S)
  BY <1>1, SeqMonotonic DEF IsSeq
<1>3. Append(s, e) \in Seq(S)
  BY <1>1, <1>2, AppendProperties
<1>4. /\ Len(Append(s, e)) = Len(s) + 1
      /\ Append(s, e)[Len(s) + 1] = e
      /\ \A k \in 1 .. Len(s) : Append(s, e)[k] = s[k]
  BY <1>1, <1>2, AppendProperties
<1> QED
  BY <1>3, <1>4, ASequence

Removed(s, t, i) ==
  /\ IsSeq(t)
  /\ Len(t) = Len(s) - 1
  /\ \A k \in 1 .. Len(t) : t[k] = IF k < i THEN s[k] ELSE s[k + 1]

LEMMA RemoveSeq ==
  ASSUME NEW s, IsSeq(s), NEW i \in 1 .. Len(s)
  PROVE  Removed(s, RemoveAt(s, i), i)
<1> DEFINE S == Range(s)
           t == RemoveAt(s, i)
<1>1. s \in Seq(S) /\ Len(s) \in Nat
  BY LenOf DEF IsSeq
<1> HIDE DEF S
<1> DEFINE u == SubSeq(s, 1, i - 1)
           v == SubSeq(s, i + 1, Len(s))
<1>2. t = u \o v
  BY DEF RemoveAt
<1>3. u \in Seq(S) /\ Len(u) = i - 1 /\ \A k \in 1 .. i - 1 : u[k] = s[k]
  BY <1>1
<1>4. v \in Seq(S) /\ Len(v) = Len(s) - i /\ \A k \in 1 .. Len(s) - i : v[k] = s[i + k]
  BY <1>1
<1> HIDE DEF u, v, t
<1>5. t \in Seq(S) /\ Len(t) = Len(s) - 1
  BY <1>1, <1>2, <1>3, <1>4
<1>6. ASSUME NEW k \in 1 .. Len(t)
      PROVE  t[k] = IF k < i THEN s[k] ELSE s[k + 1]
  <2>1. CASE k < i
    BY <1>1, <1>2, <1>3, <1>4, <1>5, <2>1, ConcatProperties
  <2>2. CASE ~(k < i)
    <3>1. t[k] = v[k - Len(u)]
      BY <1>1, <1>2, <1>3, <1>4, <1>5, <2>2, ConcatProperties
    <3>2. k - Len(u) \in 1 .. Len(s) - i /\ i + (k - Len(u)) = k + 1
      BY <1>1, <1>3, <1>5, <2>2
    <3> QED
      BY <1>4, <2>2, <3>1, <3>2
  <2> QED
    BY <2>1, <2>2
<1>7. Removed(s, t, i)
  BY <1>5, <1>6, ASequence DEF Removed
<1> QED
  BY <1>7 DEF t

-----------------------------------------------------------------------------
(* The machine the file calls work on                                      *)

Fields == {"disk", "sb", "root", "open", "held", "seen"}

Images(seen) == IsSeq(seen) /\ \A k \in 1 .. Len(seen) : DOMAIN seen[k] = Addr

Shape(m) == DOMAIN m = Fields /\ DOMAIN m.disk = Addr /\ Images(m.seen)

Same(m, n) == n.root = m.root /\ n.open = m.open /\ n.held = m.held

LEMMA ImagesAppend ==
  ASSUME NEW s, Images(s), NEW d, DOMAIN d = Addr, NEW t, t = Append(s, d)
  PROVE  Images(t)
<1>1. IsSeq(s)
  BY DEF Images
<1>2. /\ IsSeq(t)
      /\ Len(t) = Len(s) + 1
      /\ t[Len(s) + 1] = d
      /\ \A k \in 1 .. Len(s) : t[k] = s[k]
  BY <1>1, AppendSeq
<1>3. Len(s) \in Nat
  BY <1>1, LenOf
<1>4. ASSUME NEW k \in 1 .. Len(t)
      PROVE  DOMAIN t[k] = Addr
  <2>1. CASE k = Len(s) + 1
    BY <1>2, <2>1
  <2>2. CASE k # Len(s) + 1
    <3>1. k \in 1 .. Len(s)
      BY <1>2, <1>3, <2>2
    <3> QED
      BY <1>2, <3>1 DEF Images
  <2> QED
    BY <2>1, <2>2
<1> QED
  BY <1>2, <1>4 DEF Images

Placed(m, n, a, b) ==
  /\ Shape(n)
  /\ n.disk = [m.disk EXCEPT ![a] = b]
  /\ n.sb = m.sb
  /\ Same(m, n)

LEMMA PutShape ==
  ASSUME NEW m, Shape(m), NEW a, NEW b
  PROVE  Placed(m, Put(m, a, b), a, b)
<1> DEFINE n == Put(m, a, b)
<1>1. DOMAIN n = Fields /\ n.disk = [m.disk EXCEPT ![a] = b] /\ n.sb = m.sb /\ Same(m, n)
      /\ n.seen = Append(m.seen, n.disk)
  BY DEF Shape, Same, Put, Fields
<1> HIDE DEF n
<1>2. DOMAIN n.disk = Addr
  BY <1>1 DEF Shape
<1>3. Images(m.seen)
  BY DEF Shape
<1>4. Images(n.seen)
  BY <1>1, <1>2, <1>3, ImagesAppend
<1>5. Placed(m, n, a, b)
  BY <1>1, <1>2, <1>4 DEF Shape, Placed
<1> QED
  BY <1>5 DEF n

Marked(m, n, a) ==
  /\ Shape(n)
  /\ n.disk = m.disk
  /\ n.sb = [m.sb EXCEPT !.blocks = SetBit(@, a)]
  /\ Same(m, n)

LEMMA AllocateShape ==
  ASSUME NEW m, Shape(m), NEW a
  PROVE  Marked(m, AllocateBlock(m, a), a)
BY DEF Shape, Same, AllocateBlock, Fields, Marked

LEMMA ZeroIsAddr == 0 \in Addr /\ Addr \subseteq Nat
BY DiskAssumption DEF Addr

Saved(m, n) ==
  /\ Shape(n)
  /\ n.disk = [m.disk EXCEPT ![0] = [sb |-> n.sb]]
  /\ n.sb = [m.sb EXCEPT !.blocks = SetBit(@, 0)]
  /\ Same(m, n)

LEMMA SuperblockShape ==
  ASSUME NEW m, Shape(m)
  PROVE  Saved(m, WriteSuperblock(m))
<1> DEFINE z == 0
           l == AllocateBlock(m, z)
           b == [sb |-> l.sb]
           n == Put(l, z, b)
<1>1. WriteSuperblock(m) = n
  BY DEF WriteSuperblock
<1> HIDE DEF z, b
<1>2. Marked(m, l, z)
  BY AllocateShape
<1> HIDE DEF l
<1>3. Placed(l, n, z, b)
  BY <1>2, PutShape DEF Marked
<1> HIDE DEF n
<1>4. Saved(m, n)
  <2>1. b = [sb |-> n.sb]
    BY <1>3 DEF b, Placed
  <2> QED
    BY <1>2, <1>3, <2>1 DEF Marked, Placed, Saved, Same, z
<1> QED
  BY <1>1, <1>4

Noted(m, n, inode) ==
  /\ Shape(n)
  /\ n.disk = [[m.disk EXCEPT ![InodeAddr(inode.id)] = [inode |-> inode]]
                 EXCEPT ![0] = [sb |-> n.sb]]
  /\ n.sb = [m.sb EXCEPT !.blocks = SetBit(SetBit(@, InodeAddr(inode.id)), 0)]
  /\ Same(m, n)

LEMMA InodeShape ==
  ASSUME NEW m, Shape(m), NEW inode
  PROVE  Noted(m, WriteInode(m, inode), inode)
<1> DEFINE a == InodeAddr(inode.id)
           b == [inode |-> inode]
           l == AllocateBlock(m, a)
           p == Put(l, a, b)
           n == WriteSuperblock(p)
<1>1. WriteInode(m, inode) = n
  BY DEF WriteInode
<1> HIDE DEF a, b
<1>2. Marked(m, l, a)
  BY AllocateShape
<1> HIDE DEF l
<1>3. Placed(l, p, a, b)
  BY <1>2, PutShape DEF Marked
<1> HIDE DEF p
<1>4. Saved(p, n)
  BY <1>3, SuperblockShape DEF Placed
<1> HIDE DEF n
<1>5. n.disk = [[m.disk EXCEPT ![a] = b] EXCEPT ![0] = [sb |-> n.sb]]
  BY <1>2, <1>3, <1>4 DEF Marked, Placed, Saved
<1>6. n.sb = [m.sb EXCEPT !.blocks = SetBit(SetBit(@, a), 0)]
  <2>1. n.sb = [l.sb EXCEPT !.blocks = SetBit(@, 0)]
    BY <1>3, <1>4 DEF Placed, Saved
  <2>2. [[m.sb EXCEPT !.blocks = SetBit(@, a)] EXCEPT !.blocks = SetBit(@, 0)]
          = [m.sb EXCEPT !.blocks = SetBit(SetBit(@, a), 0)]
    OBVIOUS
  <2> QED
    BY <1>2, <2>1, <2>2 DEF Marked
<1>7. Shape(n) /\ Same(m, n)
  BY <1>2, <1>3, <1>4 DEF Same, Marked, Placed, Saved
<1>8. Noted(m, n, inode)
  BY <1>5, <1>6, <1>7 DEF Noted, a, b
<1> QED
  BY <1>1, <1>8

-----------------------------------------------------------------------------
(* Loops: a recursive function on 0 .. n is what its equations say         *)

(* The directories dirs and those that they have links to.                 *)
Deeper(m, dirs) ==
  dirs \cup {i \in UNION {{l.inode : l \in Range(ReadDir(m, InodeAt(m, d)))} : d \in dirs} :
               IsDir(InodeAt(m, i))}

(* The loops there are: blocks written, inodes initialised, a path walked  *)
(* along, files closed, and the tree of directories gone down.             *)
Work(job, w, k) ==
  IF job.kind = "write" THEN WriteNext(w, k, job.of[k])
  ELSE IF job.kind = "init" THEN WriteInode(w, NewInode(k - 1))
  ELSE IF job.kind = "walk" THEN Enter(job.m, w, job.of[k])
  ELSE IF job.kind = "tree" THEN Deeper(job.m, w)
  ELSE CloseKth(w, k)

JobRun(w, job, start, n) ==
  w = [k \in 0 .. n |-> IF k = 0 THEN start ELSE Work(job, w[k - 1], k)]

LEMMA JobRuns ==
  ASSUME NEW job, NEW start, NEW N \in Nat
  PROVE  \E w : JobRun(w, job, start, N)
<1> DEFINE Run(w, n) == JobRun(w, job, start, n)
           S == {n \in 0 .. N : \E w : Run(w, n)}
<1>1. 0 \in S
  <2> DEFINE w == [k \in 0 .. 0 |-> start]
  <2>1. w = [k \in 0 .. 0 |-> IF k = 0 THEN start ELSE Work(job, w[k - 1], k)]
    OBVIOUS
  <2>2. Run(w, 0)
    <3> HIDE DEF w
    <3> QED
      BY <2>1 DEF JobRun
  <2> QED
    BY <2>2
<1>2. ASSUME NEW n \in 0 .. N - 1, n \in S
      PROVE  n + 1 \in S
  <2>1. PICK w : Run(w, n)
    BY <1>2
  <2> DEFINE v == [k \in 0 .. n + 1 |-> IF k <= n THEN w[k] ELSE Work(job, w[n], k)]
             u == [k \in 0 .. n + 1 |-> IF k = 0 THEN start ELSE Work(job, v[k - 1], k)]
  <2>2. ASSUME NEW k \in 0 .. n + 1
        PROVE  v[k] = u[k]
    <3>1. CASE k = 0
      BY <2>1, <3>1 DEF JobRun
    <3>2. CASE k \in 1 .. n
      <4>1. v[k] = w[k] /\ v[k - 1] = w[k - 1]
        BY <3>2
      <4>2. w[k] = Work(job, w[k - 1], k)
        BY <2>1, <3>2 DEF JobRun
      <4> QED
        BY <3>2, <4>1, <4>2
    <3>3. CASE k = n + 1
      <4>1. v[k - 1] = w[n]
        BY <3>3
      <4>2. v[k] = Work(job, w[n], k)
        BY <3>3
      <4> QED
        BY <3>3, <4>1, <4>2
    <3> QED
      BY <3>1, <3>2, <3>3
  <2>3. v = u
    <3>1. DOMAIN v = 0 .. n + 1 /\ DOMAIN u = 0 .. n + 1
      OBVIOUS
    <3>2. v = [k \in 0 .. n + 1 |-> v[k]]
      OBVIOUS
    <3>3. u = [k \in 0 .. n + 1 |-> u[k]]
      OBVIOUS
    <3> HIDE DEF v, u
    <3> QED
      BY <2>2, <3>2, <3>3, Zenon
  <2>4. Run(v, n + 1)
    <3> HIDE DEF v
    <3> QED
      BY <2>3 DEF JobRun
  <2> QED
    BY <2>4
<1>3. N \in S
  <2> HIDE DEF S
  <2>1. \A k \in 0 .. N : k \in S
    BY <1>1, <1>2, UpTo
  <2> QED
    BY <2>1
<1> QED
  BY <1>3

LEMMA WriteRuns ==
  ASSUME NEW m, NEW inode, NEW contents, Len(contents) \in Nat
  PROVE  \E w : /\ w[0] = [m |-> m, inode |-> inode]
                /\ \A k \in 1 .. Len(contents) : w[k] = WriteNext(w[k - 1], k, contents[k])
                /\ WriteBlocks(m, inode, contents) = w[Len(contents)]
<1> DEFINE N == Len(contents)
           start == [m |-> m, inode |-> inode]
           job == [kind |-> "write", of |-> contents]
           Is(w) == w = [k \in 0 .. N |-> IF k = 0 THEN start ELSE WriteNext(w[k - 1], k, contents[k])]
<1>1. PICK w : JobRun(w, job, start, N)
  BY JobRuns
<1>2. \A v, k : Work(job, v, k) = WriteNext(v, k, contents[k])
  BY DEF Work
<1>3. Is(w)
  <2> HIDE DEF job
  <2> QED
    BY <1>1, <1>2 DEF JobRun
<1> DEFINE v == CHOOSE v : Is(v)
<1>4. Is(v)
  BY <1>3
<1>5. WriteBlocks(m, inode, contents) = v[N]
  BY DEF WriteBlocks
<1> HIDE DEF v
<1>6. v[0] = start /\ \A k \in 1 .. N : v[k] = WriteNext(v[k - 1], k, contents[k])
  BY <1>4
<1> QED
  BY <1>5, <1>6

LEMMA InitRuns ==
  ASSUME NEW m, InodeNum \in Nat
  PROVE  \E w : /\ w[0] = m
                /\ \A k \in 1 .. InodeNum : w[k] = WriteInode(w[k - 1], NewInode(k - 1))
                /\ InitInodes(m) = w[InodeNum]
<1> DEFINE job == [kind |-> "init"]
           Is(w) == w = [k \in 0 .. InodeNum |-> IF k = 0 THEN m
                           ELSE WriteInode(w[k - 1], NewInode(k - 1))]
<1>1. PICK w : JobRun(w, job, m, InodeNum)
  BY JobRuns
<1>2. \A v, k : Work(job, v, k) = WriteInode(v, NewInode(k - 1))
  BY DEF Work
<1>3. Is(w)
  <2> HIDE DEF job
  <2> QED
    BY <1>1, <1>2 DEF JobRun
<1> DEFINE v == CHOOSE v : Is(v)
<1>4. Is(v)
  BY <1>3
<1>5. InitInodes(m) = v[InodeNum]
  BY DEF InitInodes
<1> HIDE DEF v
<1>6. v[0] = m /\ \A k \in 1 .. InodeNum : v[k] = WriteInode(v[k - 1], NewInode(k - 1))
  BY <1>4
<1> QED
  BY <1>5, <1>6

Steps(path) == IF path = <<>> THEN <<".">> ELSE path

WalkStart(d, stack) == [id |-> -1, inode |-> stack.inode, stopped |-> FALSE, dir |-> d]

LEMMA WalkRuns ==
  ASSUME NEW m, NEW d, NEW path, NEW stack, Len(Steps(path)) \in Nat
  PROVE  \E w : /\ w[0] = WalkStart(d, stack)
                /\ \A k \in 1 .. Len(Steps(path)) : w[k] = Enter(m, w[k - 1], Steps(path)[k])
                /\ PathToInodeId(m, d, path, stack) = w[Len(Steps(path))].id
<1> DEFINE job == [kind |-> "walk", m |-> m, of |-> Steps(path)]
           Is(w) == w = [k \in 0 .. Len(Steps(path)) |-> IF k = 0 THEN WalkStart(d, stack)
                           ELSE Enter(m, w[k - 1], Steps(path)[k])]
<1>1. PICK w : JobRun(w, job, WalkStart(d, stack), Len(Steps(path)))
  BY JobRuns
<1>2. \A v, k : Work(job, v, k) = Enter(m, v, Steps(path)[k])
  BY DEF Work
<1>3. Is(w)
  <2> HIDE DEF job
  <2> QED
    BY <1>1, <1>2 DEF JobRun
<1> DEFINE v == CHOOSE v : Is(v)
<1>4. Is(v)
  BY <1>3
<1>5. PathToInodeId(m, d, path, stack) = v[Len(Steps(path))].id
  BY DEF PathToInodeId, Steps, WalkStart
<1> HIDE DEF v
<1>6. v[0] = WalkStart(d, stack) /\ \A k \in 1 .. Len(Steps(path)) : v[k] = Enter(m, v[k - 1], Steps(path)[k])
  BY <1>4
<1> QED
  BY <1>5, <1>6

LEMMA CloseRuns ==
  ASSUME NEW opened, Len(opened) \in Nat
  PROVE  \E w : /\ w[0] = opened
                /\ \A k \in 1 .. Len(opened) : w[k] = CloseKth(w[k - 1], k)
                /\ CloseAll(opened) = w[Len(opened)]
<1> DEFINE job == [kind |-> "close"]
           Is(w) == w = [k \in 0 .. Len(opened) |-> IF k = 0 THEN opened
                           ELSE CloseKth(w[k - 1], k)]
<1>1. PICK w : JobRun(w, job, opened, Len(opened))
  BY JobRuns
<1>2. \A v, k : Work(job, v, k) = CloseKth(v, k)
  BY DEF Work
<1>3. Is(w)
  <2> HIDE DEF job
  <2> QED
    BY <1>1, <1>2 DEF JobRun
<1> DEFINE v == CHOOSE v : Is(v)
<1>4. Is(v)
  BY <1>3
<1>5. CloseAll(opened) = v[Len(opened)]
  BY DEF CloseAll
<1> HIDE DEF v
<1>6. v[0] = opened /\ \A k \in 1 .. Len(opened) : v[k] = CloseKth(v[k - 1], k)
  BY <1>4
<1> QED
  BY <1>5, <1>6

LEMMA TreeRuns ==
  ASSUME InodeNum \in Nat \ {0}
  PROVE  \E w : /\ w[0] = {0}
                /\ \A k \in 1 .. InodeNum - 1 : w[k] = Deeper(Now, w[k - 1])
                /\ DirsOfTree = w[InodeNum - 1]
<1> DEFINE job == [kind |-> "tree", m |-> Now]
           Down(dirs) == dirs \cup {i \in UNION {Entries(d) : d \in dirs} : IsDir(InodeAt(Now, i))}
           Is(w) == w = [k \in InodeId |-> IF k = 0 THEN {0} ELSE Down(w[k - 1])]
<1>1. PICK w : JobRun(w, job, {0}, InodeNum - 1)
  BY JobRuns
<1>2. \A dirs : Down(dirs) = Deeper(Now, dirs)
  BY DEF Deeper, Entries
<1>3. \A v, k : Work(job, v, k) = Down(v)
  BY <1>2 DEF Work
<1>4. Is(w)
  <2> HIDE DEF job, Down
  <2> QED
    BY <1>1, <1>3 DEF JobRun, InodeId
<1> DEFINE v == CHOOSE v : Is(v)
<1>5. Is(v)
  BY <1>4
<1>6. DirsOfTree = v[InodeNum - 1]
  BY DEF DirsOfTree
<1> HIDE DEF v, Down
<1>7. v[0] = {0} /\ \A k \in 1 .. InodeNum - 1 : v[k] = Down(v[k - 1])
  <2> DEFINE top == {0}
             N == InodeNum - 1
  <2>1. v = [k \in 0 .. N |-> IF k = 0 THEN top ELSE Down(v[k - 1])]
    BY <1>5 DEF InodeId
  <2>2. N \in Nat
    OBVIOUS
  <2> HIDE DEF top, N
  <2>3. v[0] = top
    BY <2>1, <2>2
  <2>4. \A k \in 1 .. N : v[k] = Down(v[k - 1])
    BY <2>1, <2>2
  <2> QED
    BY <2>3, <2>4 DEF top, N
<1> QED
  BY <1>2, <1>6, <1>7

-----------------------------------------------------------------------------
(* Whatever happens: the superblock on the disk and the table of open files*)

Current(m) == m.disk[0] = [sb |-> m.sb]

Once(opened) ==
  /\ IsSeq(opened)
  /\ \A j, k \in 1 .. Len(opened) : opened[j].inode = opened[k].inode => j = k

Bare(m) == Shape(m) /\ Once(m.open)

Kept(m, n) == Bare(n) /\ (Current(m) => Current(n))

LEMMA InodeKept ==
  ASSUME NEW m, Bare(m), NEW inode
  PROVE  Bare(WriteInode(m, inode)) /\ Current(WriteInode(m, inode))
<1> DEFINE n == WriteInode(m, inode)
<1>1. Noted(m, n, inode)
  BY InodeShape DEF Bare
<1> HIDE DEF n
<1>2. Bare(n)
  BY <1>1 DEF Bare, Same, Noted
<1>3. Current(n)
  <2>1. DOMAIN m.disk = Addr
    BY DEF Bare, Shape
  <2> QED
    BY <1>1, <2>1, ZeroIsAddr DEF Current, Noted
<1> QED
  BY <1>2, <1>3 DEF n

LEMMA SuperblockKept ==
  ASSUME NEW m, Bare(m)
  PROVE  Bare(WriteSuperblock(m)) /\ Current(WriteSuperblock(m))
<1> DEFINE n == WriteSuperblock(m)
<1>1. Saved(m, n)
  BY SuperblockShape DEF Bare
<1> HIDE DEF n
<1>2. Bare(n)
  BY <1>1 DEF Bare, Same, Saved
<1>3. Current(n)
  BY <1>1, ZeroIsAddr DEF Current, Bare, Shape, Saved
<1> QED
  BY <1>2, <1>3 DEF n

LEMMA SuperblockFields ==
  ASSUME NEW m, Bare(m), NEW v
  PROVE  Bare([m EXCEPT !.sb = v])
BY DEF Bare, Shape, Fields

LEMMA RootFields ==
  ASSUME NEW m, Bare(m), NEW v
  PROVE  Kept(m, [m EXCEPT !.root = v])
BY DEF Bare, Shape, Fields, Kept, Current

LEMMA HeldFields ==
  ASSUME NEW m, Bare(m), NEW v
  PROVE  Kept(m, [m EXCEPT !.held = v])
BY DEF Bare, Shape, Fields, Kept, Current

LEMMA OpenFields ==
  ASSUME NEW m, Bare(m), NEW v, Once(v)
  PROVE  Kept(m, [m EXCEPT !.open = v])
BY DEF Bare, Shape, Fields, Kept, Current

LEMMA CreateInodeKept ==
  ASSUME NEW m, Bare(m), NEW type, NEW stack
  PROVE  Kept(m, CreateInodeType(m, type, stack).m)
<1> DEFINE id == FreeInodeId(m)
           v == [m.sb EXCEPT !.inodes = SetBit(@, id)]
           l == [m EXCEPT !.sb = v]
           inode == [stack.inode EXCEPT !.id = id, !.type = type]
<1>1. CreateInodeType(m, type, stack).m = IF id = -1 THEN m ELSE WriteInode(l, inode)
  BY DEF CreateInodeType
<1> HIDE DEF id, v, inode
<1>2. Bare(l)
  BY SuperblockFields
<1> HIDE DEF l
<1> QED
  BY <1>1, <1>2, InodeKept DEF Kept

LEMMA DeleteInodeKeeps ==
  ASSUME NEW m, Bare(m), NEW inode
  PROVE  Kept(m, DeleteInode(m, inode))
<1> DEFINE blocks == {inode.blocks[k] : k \in 1 .. inode.allocated}
           v == [m.sb EXCEPT !.blocks = {a \in @ : a \notin blocks},
                             !.inodes = ClearBit(@, inode.id)]
           l == [m EXCEPT !.sb = v]
           new == NewInode(inode.id)
<1>1. DeleteInode(m, inode) = WriteInode(l, new)
  BY DEF DeleteInode
<1> HIDE DEF v, new
<1>2. Bare(l)
  BY SuperblockFields
<1> HIDE DEF l
<1> QED
  BY <1>1, <1>2, InodeKept DEF Kept

LEMMA WriteNextKept ==
  ASSUME NEW w, Bare(w.m), NEW k, NEW block
  PROVE  Bare(WriteNext(w, k, block).m)
<1> DEFINE a == FreeDataBlock(w.m)
           l == AllocateBlock(w.m, a)
           n == Put(l, a, block)
<1>1. WriteNext(w, k, block).m = n
  BY DEF WriteNext
<1> HIDE DEF a
<1>2. Marked(w.m, l, a)
  BY AllocateShape DEF Bare
<1> HIDE DEF l
<1>3. Placed(l, n, a, block)
  BY <1>2, PutShape DEF Marked
<1> HIDE DEF n
<1> QED
  BY <1>1, <1>2, <1>3 DEF Bare, Marked, Placed, Same

LEMMA WriteBlocksKept ==
  ASSUME NEW m, Bare(m), NEW inode, NEW contents, Len(contents) \in Nat
  PROVE  Bare(WriteBlocks(m, inode, contents).m)
<1> DEFINE N == Len(contents)
<1>1. PICK w : /\ w[0] = [m |-> m, inode |-> inode]
               /\ \A k \in 1 .. N : w[k] = WriteNext(w[k - 1], k, contents[k])
               /\ WriteBlocks(m, inode, contents) = w[N]
  BY WriteRuns
<1> DEFINE S == {k \in 0 .. N : Bare(w[k].m)}
<1>2. 0 \in S
  BY <1>1
<1>3. ASSUME NEW k \in 0 .. N - 1, k \in S
      PROVE  k + 1 \in S
  <2>1. Bare(w[k].m)
    BY <1>3
  <2>2. Bare(WriteNext(w[k], k + 1, contents[k + 1]).m)
    BY <2>1, WriteNextKept
  <2>3. k + 1 \in 1 .. N /\ (k + 1) - 1 = k
    OBVIOUS
  <2>4. w[k + 1] = WriteNext(w[(k + 1) - 1], k + 1, contents[k + 1])
    BY <1>1, <2>3
  <2> QED
    BY <2>2, <2>3, <2>4
<1>4. N \in S
  <2> HIDE DEF S
  <2>1. \A k \in 0 .. N : k \in S
    BY <1>2, <1>3, UpTo
  <2> QED
    BY <2>1
<1> QED
  BY <1>1, <1>4

LEMMA WriteToInodeKept ==
  ASSUME NEW m, Bare(m), NEW inode, NEW contents, Len(contents) \in Nat
  PROVE  Kept(m, WriteToInode(m, inode, contents))
<1> DEFINE longer == [inode EXCEPT !.allocated = AtLeast(Len(contents), @)]
           end == WriteBlocks(m, longer, contents)
<1>1. WriteToInode(m, inode, contents)
        = IF Len(contents) > MaxInodeBlocks THEN m ELSE WriteInode(end.m, end.inode)
  BY DEF WriteToInode
<1> HIDE DEF longer
<1>2. Bare(end.m)
  BY WriteBlocksKept
<1> HIDE DEF end
<1>3. Bare(WriteInode(end.m, end.inode)) /\ Current(WriteInode(end.m, end.inode))
  BY <1>2, InodeKept
<1> QED
  BY <1>1, <1>3 DEF Kept

LEMMA WriteDirKept ==
  ASSUME NEW m, Bare(m), NEW d
  PROVE  Kept(m, WriteDir(m, d))
<1> DEFINE parts == DirectoryParts(d)
<1>1. Len(parts) \in Nat
  <2>1. parts \in Seq({parts[k] : k \in 1 .. DirectoryBlocks})
    BY DiskAssumption DEF DirectoryParts
  <2> QED
    BY <2>1, LenProperties
<1> HIDE DEF parts
<1> QED
  BY <1>1, WriteToInodeKept DEF WriteDir, parts

LEMMA KeptTrans ==
  ASSUME NEW m, NEW n, NEW o, Kept(m, n), Kept(n, o)
  PROVE  Kept(m, o)
BY DEF Kept

LEMMA AddLinkKept ==
  ASSUME NEW m, NEW d, NEW name, NEW c, Kept(m, c.m)
  PROVE  Kept(m, AddLink(d, name, c).m)
<1> DEFINE links == Append(d, Link(name, c.id))
<1>1. AddLink(d, name, c).m = IF c.id = -1 THEN c.m ELSE WriteDir(c.m, links)
  BY DEF AddLink
<1> HIDE DEF links
<1>2. Kept(c.m, WriteDir(c.m, links))
  BY WriteDirKept DEF Kept
<1> QED
  BY <1>1, <1>2, KeptTrans

LEMMA CreateFileKept ==
  ASSUME NEW m, Bare(m), NEW d, NEW name, NEW type, NEW stack
  PROVE  Kept(m, CreateFile(m, d, name, type, stack).m)
<1> DEFINE c == CreateInodeType(m, type, stack)
<1>1. Kept(m, c.m)
  BY CreateInodeKept
<1>2. CreateFile(m, d, name, type, stack).m = m
      \/ CreateFile(m, d, name, type, stack) = AddLink(d, name, c)
  BY DEF CreateFile
<1> HIDE DEF c
<1>3. Kept(m, AddLink(d, name, c).m)
  BY <1>1, AddLinkKept
<1> QED
  BY <1>2, <1>3 DEF Kept

LEMMA CreateDirectoryKept ==
  ASSUME NEW m, Bare(m), NEW d, NEW name, NEW stack
  PROVE  Kept(m, CreateDirectory(m, d, name, stack).m)
<1> DEFINE c == CreateFile(m, d, name, Directory, stack)
           dots == <<Link(".", c.id), Link("..", d[1].inode)>>
<1>1. Kept(m, c.m)
  BY CreateFileKept
<1>2. CreateDirectory(m, d, name, stack).m = IF c.id = -1 THEN c.m ELSE WriteDir(c.m, dots)
  BY DEF CreateDirectory, AddDots
<1> HIDE DEF c, dots
<1>3. Kept(c.m, WriteDir(c.m, dots))
  BY <1>1, WriteDirKept DEF Kept
<1> QED
  BY <1>1, <1>2, <1>3, KeptTrans

LEMMA ReadRootKept ==
  ASSUME NEW m, Bare(m)
  PROVE  Kept(m, ReadRootDir(m))
<1>1. ReadRootDir(m) = m \/ \E v : ReadRootDir(m) = [m EXCEPT !.root = v]
  BY DEF ReadRootDir
<1> QED
  BY <1>1, RootFields DEF Kept

LEMMA AddFdOnce ==
  ASSUME NEW opened, Once(opened), NEW inode, NEW flags
  PROVE  Once(AddFd(opened, inode, flags).open)
<1> DEFINE fd == Fd(Len(opened), flags, inode)
           t == Append(opened, fd)
<1>1. \/ AddFd(opened, inode, flags).open = opened
      \/ /\ \A k \in 1 .. Len(opened) : opened[k].inode # inode
         /\ AddFd(opened, inode, flags).open = t
  <2> DEFINE ofInode == {k \in 1 .. Len(opened) : opened[k].inode = inode}
  <2>1. CASE Len(opened) >= MaxOpenFiles
    <3>1. AddFd(opened, inode, flags).open = opened
      BY <2>1 DEF AddFd
    <3> QED
      BY <3>1
  <2>2. CASE ofInode # {}
    <3>1. AddFd(opened, inode, flags).open = opened
      BY <2>2 DEF AddFd
    <3> QED
      BY <3>1
  <2>3. CASE ~(Len(opened) >= MaxOpenFiles) /\ ofInode = {}
    <3>1. AddFd(opened, inode, flags).open = t
      BY <2>3 DEF AddFd
    <3> HIDE DEF t
    <3>2. \A k \in 1 .. Len(opened) : opened[k].inode # inode
      BY <2>3
    <3> QED
      BY <3>1, <3>2
  <2> QED
    BY <2>1, <2>2, <2>3
<1>2. fd.inode = inode
  BY DEF Fd
<1> HIDE DEF fd
<1>3. IsSeq(opened) /\ Len(opened) \in Nat
  BY LenOf DEF Once
<1>4. /\ IsSeq(t)
      /\ Len(t) = Len(opened) + 1
      /\ t[Len(opened) + 1] = fd
      /\ \A k \in 1 .. Len(opened) : t[k] = opened[k]
  BY <1>3, AppendSeq
<1> HIDE DEF t
<1>5. ASSUME \A k \in 1 .. Len(opened) : opened[k].inode # inode,
             NEW j \in 1 .. Len(t), NEW k \in 1 .. Len(t), t[j].inode = t[k].inode
      PROVE  j = k
  <2>1. j \in 1 .. Len(opened) \/ j = Len(opened) + 1
    BY <1>3, <1>4
  <2>2. k \in 1 .. Len(opened) \/ k = Len(opened) + 1
    BY <1>3, <1>4
  <2> QED
    BY <1>2, <1>4, <1>5, <2>1, <2>2 DEF Once
<1> QED
  BY <1>1, <1>4, <1>5 DEF Once

LEMMA FdsOfMin ==
  ASSUME NEW opened, Len(opened) \in Nat, NEW fd, IsOpen(opened, fd)
  PROVE  Min(FdsOf(opened, fd)) \in 1 .. Len(opened)
<1>1. FdsOf(opened, fd) \subseteq Nat /\ FdsOf(opened, fd) # {}
      /\ FdsOf(opened, fd) \subseteq 1 .. Len(opened)
  BY DEF FdsOf, IsOpen
<1> QED
  BY <1>1, MinOfSet

LEMMA CloseFileOnce ==
  ASSUME NEW opened, Once(opened), NEW fd
  PROVE  Once(CloseFile(opened, fd))
<1> DEFINE i == Min(FdsOf(opened, fd))
           t == RemoveAt(opened, i)
<1>1. IsSeq(opened) /\ Len(opened) \in Nat
  BY LenOf DEF Once
<1>2. \/ CloseFile(opened, fd) = opened
      \/ /\ IsOpen(opened, fd)
         /\ CloseFile(opened, fd) = t
  <2>1. CASE ~IsOpen(opened, fd) \/ FdIdToFd(opened, fd).flags \in Global
    <3>1. CloseFile(opened, fd) = opened
      BY <2>1 DEF CloseFile
    <3> QED
      BY <3>1
  <2>2. CASE ~(~IsOpen(opened, fd) \/ FdIdToFd(opened, fd).flags \in Global)
    BY <2>2 DEF CloseFile
  <2> QED
    BY <2>1, <2>2
<1>3. IsOpen(opened, fd) => i \in 1 .. Len(opened)
  BY <1>1, FdsOfMin
<1> HIDE DEF i
<1>4. SUFFICES ASSUME IsOpen(opened, fd), CloseFile(opened, fd) = t
               PROVE  Once(t)
  BY <1>2
<1>5. i \in 1 .. Len(opened)
  BY <1>3, <1>4
<1>6. Removed(opened, t, i)
  BY <1>1, <1>5, RemoveSeq
<1> HIDE DEF t
<1>7. ASSUME NEW j \in 1 .. Len(t), NEW k \in 1 .. Len(t), t[j].inode = t[k].inode
      PROVE  j = k
  <2> DEFINE at(x) == IF x < i THEN x ELSE x + 1
  <2>1. ASSUME NEW x \in 1 .. Len(t)
        PROVE  at(x) \in 1 .. Len(opened) /\ t[x] = opened[at(x)]
    <3>1. t[x] = IF x < i THEN opened[x] ELSE opened[x + 1]
      BY <1>6 DEF Removed
    <3>2. Len(t) = Len(opened) - 1
      BY <1>6 DEF Removed
    <3> QED
      BY <1>1, <3>1, <3>2
  <2>2. opened[at(j)].inode = opened[at(k)].inode
    BY <1>7, <2>1
  <2>3. at(j) = at(k)
    <3> HIDE DEF at
    <3> QED
      BY <2>1, <2>2 DEF Once
  <2> QED
    BY <1>5, <2>3
<1> QED
  BY <1>6, <1>7 DEF Once, Removed

LEMMA CloseAllOnce ==
  ASSUME NEW opened, Once(opened)
  PROVE  Once(CloseAll(opened))
<1> DEFINE N == Len(opened)
<1>1. N \in Nat
  BY LenOf DEF Once
<1>2. PICK w : /\ w[0] = opened
               /\ \A k \in 1 .. N : w[k] = CloseKth(w[k - 1], k)
               /\ CloseAll(opened) = w[N]
  BY <1>1, CloseRuns
<1> HIDE DEF N
<1> DEFINE S == {k \in 0 .. N : Once(w[k])}
<1>3. 0 \in S
  BY <1>1, <1>2
<1>4. ASSUME NEW k \in 0 .. N - 1, k \in S
      PROVE  k + 1 \in S
  <2>1. Once(w[k])
    BY <1>4
  <2>2. Once(CloseKth(w[k], k + 1))
    BY <2>1, CloseFileOnce DEF CloseKth
  <2>3. k + 1 \in 1 .. N /\ (k + 1) - 1 = k
    BY <1>1
  <2>4. w[k + 1] = CloseKth(w[(k + 1) - 1], k + 1)
    BY <1>2, <2>3
  <2> QED
    BY <2>2, <2>3, <2>4
<1>5. N \in S
  <2> HIDE DEF S
  <2>1. \A k \in 0 .. N : k \in S
    BY <1>1, <1>3, <1>4, UpTo
  <2> QED
    BY <1>1, <2>1
<1> QED
  BY <1>2, <1>5

LEMMA OpenInodeKept ==
  ASSUME NEW m, Bare(m), NEW id, NEW flags
  PROVE  Kept(m, OpenInode(m, id, flags).m)
<1> DEFINE t == AddFd(m.open, id, flags).open
<1>1. Once(t)
  BY AddFdOnce DEF Bare
<1>2. OpenInode(m, id, flags).m = [m EXCEPT !.open = t]
  BY DEF OpenInode
<1> HIDE DEF t
<1> QED
  BY <1>1, <1>2, OpenFields

LEMMA OpenFileKept ==
  ASSUME NEW m, Bare(m), NEW path, NEW name, NEW flags, NEW stack
  PROVE  Kept(m, OpenFile(m, path, name, flags, stack).m)
<1> DEFINE d == ParentDir(m, path, stack)
           id == PathToInodeId(m, d, <<name>>, stack)
           c == CreateFile(m, d, name, File, stack)
<1>1. OpenFile(m, path, name, flags, stack).m
        \in {m, OpenInode(m, id, flags).m, OpenInode(c.m, c.id, flags).m}
  BY DEF OpenFile, OpenIn, OpenCreated
<1>2. Kept(m, c.m)
  BY CreateFileKept
<1> HIDE DEF d, id, c
<1>3. Kept(m, OpenInode(m, id, flags).m)
  BY OpenInodeKept
<1>4. Kept(m, OpenInode(c.m, c.id, flags).m)
  BY <1>2, OpenInodeKept, KeptTrans DEF Kept
<1> QED
  BY <1>1, <1>3, <1>4 DEF Kept

LEMMA HoldOpenedKept ==
  ASSUME NEW m, NEW o, Kept(m, o.m), NEW p
  PROVE  Kept(m, HoldOpened(p, o))
<1> DEFINE r == ReadRootDir(o.m)
           h == [r.held EXCEPT ![p] = AddProcessFd(@, o.fd)]
<1>1. HoldOpened(p, o) = o.m \/ HoldOpened(p, o) = [r EXCEPT !.held = h]
  BY DEF HoldOpened
<1>2. Kept(o.m, r)
  BY ReadRootKept DEF Kept
<1> HIDE DEF r, h
<1>3. Kept(r, [r EXCEPT !.held = h])
  BY <1>2, HeldFields DEF Kept
<1> QED
  BY <1>1, <1>2, <1>3, KeptTrans

LEMMA SysOpenKept ==
  ASSUME NEW m, Bare(m), NEW p, NEW path, NEW name, NEW flags, NEW stack
  PROVE  Kept(m, SysOpen(m, p, path, name, flags, stack))
BY OpenFileKept, HoldOpenedKept DEF SysOpen

LEMMA SysCloseKept ==
  ASSUME NEW m, Bare(m), NEW p, NEW fd
  PROVE  Kept(m, SysClose(m, p, fd))
<1> DEFINE t == CloseFile(m.open, fd)
           n == [m EXCEPT !.open = t]
           h == [m.held EXCEPT ![p] = RemoveProcessFd(@, fd)]
<1>1. SysClose(m, p, fd) = m \/ SysClose(m, p, fd) = [n EXCEPT !.held = h]
  BY DEF SysClose
<1>2. Once(t)
  BY CloseFileOnce DEF Bare
<1> HIDE DEF t, h
<1>3. Kept(m, n)
  BY <1>2, OpenFields
<1> HIDE DEF n
<1>4. Kept(n, [n EXCEPT !.held = h])
  BY <1>3, HeldFields DEF Kept
<1>5. Kept(m, m)
  BY DEF Kept
<1> QED
  BY <1>1, <1>3, <1>4, <1>5, KeptTrans

LEMMA SysWriteKept ==
  ASSUME NEW m, Bare(m), NEW p, NEW fd, NEW contents, Len(contents) \in Nat
  PROVE  Kept(m, SysWrite(m, p, fd, contents))
<1> DEFINE inode == InodeAt(m, FdIdToFd(m.open, fd).inode)
<1>1. SysWrite(m, p, fd, contents) = m \/ SysWrite(m, p, fd, contents) = WriteToInode(m, inode, contents)
  BY DEF SysWrite
<1> HIDE DEF inode
<1>2. Kept(m, m) /\ Kept(m, WriteToInode(m, inode, contents))
  BY WriteToInodeKept DEF Kept
<1> QED
  BY <1>1, <1>2

LEMMA SysMkdirKept ==
  ASSUME NEW m, Bare(m), NEW path, NEW name, NEW stack
  PROVE  Kept(m, SysMkdir(m, path, name, stack))
<1> DEFINE d == ParentDir(m, path, stack)
           c == CreateDirectory(m, d, name, stack)
<1>1. SysMkdir(m, path, name, stack) = m \/ SysMkdir(m, path, name, stack) = ReadRootDir(c.m)
  BY DEF SysMkdir
<1> HIDE DEF d
<1>2. Kept(m, c.m)
  BY CreateDirectoryKept
<1> HIDE DEF c
<1>3. Kept(m, ReadRootDir(c.m))
  BY <1>2, ReadRootKept, KeptTrans DEF Kept
<1>4. Kept(m, m)
  BY DEF Kept
<1> QED
  BY <1>1, <1>3, <1>4

LEMMA SysRmdirKept ==
  ASSUME NEW m, Bare(m), NEW path, NEW name, NEW stack
  PROVE  Kept(m, SysRmdir(m, path, name, stack))
<1> DEFINE d == DeleteFileLink(ParentDir(m, path, stack), name)
           inode == InodeOr(m, PathToInodeId(m, ParentDir(m, path, stack), <<name>>, stack),
                            ParentInode(m, path, stack))
           n == WriteDir(m, d)
<1>1. SysRmdir(m, path, name, stack) = m \/ SysRmdir(m, path, name, stack) = DeleteInode(n, inode)
  BY DEF SysRmdir
<1> HIDE DEF d, inode
<1>2. Kept(m, n)
  BY WriteDirKept
<1> HIDE DEF n
<1>3. Kept(n, DeleteInode(n, inode))
  BY <1>2, DeleteInodeKeeps DEF Kept
<1>4. Kept(m, m)
  BY DEF Kept
<1> QED
  BY <1>1, <1>2, <1>3, <1>4, KeptTrans

LEMMA SysRmKept ==
  ASSUME NEW m, Bare(m), NEW path, NEW name, NEW stack
  PROVE  Kept(m, SysRm(m, path, name, stack))
<1> DEFINE d == DeleteFileLink(ParentDir(m, path, stack), name)
           inode == InodeAt(m, PathToInodeId(m, ParentDir(m, path, stack), <<name>>, stack))
           n == WriteDir(m, d)
           o == DeleteInode(n, inode)
<1>1. SysRm(m, path, name, stack) = m \/ SysRm(m, path, name, stack) = ReadRootDir(o)
  BY DEF SysRm
<1> HIDE DEF d, inode
<1>2. Kept(m, n)
  BY WriteDirKept
<1> HIDE DEF n
<1>3. Kept(n, o)
  BY <1>2, DeleteInodeKeeps DEF Kept
<1> HIDE DEF o
<1>4. Kept(o, ReadRootDir(o))
  BY <1>3, ReadRootKept DEF Kept
<1>5. Kept(m, m)
  BY DEF Kept
<1> QED
  BY <1>1, <1>2, <1>3, <1>4, <1>5, KeptTrans

LEMMA InodeNumFacts ==
  InodeNum \in Nat /\ InodeNum >= 5 /\ InodeNum <= DiskBlocks
<1> DEFINE q == DiskBlocks \div MaxInodeBlocks
<1>1. DiskBlocks \in Nat \ {0} /\ MaxInodeBlocks \in Nat \ {0} /\ MaxInodes \in Nat
      /\ DiskBlocks >= 5 * MaxInodeBlocks /\ MaxInodes >= 5
  BY DiskAssumption
<1>2. q \in Nat /\ q >= 5 /\ q <= DiskBlocks
  BY <1>1
<1>3. InodeNum \in {q, MaxInodes} /\ InodeNum <= q /\ InodeNum >= 5
  <2> HIDE DEF q
  <2> QED
    BY <1>1, <1>2 DEF InodeNum, q
<1> HIDE DEF q
<1> QED
  BY <1>1, <1>2, <1>3

LEMMA InitInodesKept ==
  ASSUME NEW m, Bare(m)
  PROVE  Kept(m, InitInodes(m))
<1> DEFINE N == InodeNum
<1>1. N \in Nat
  BY InodeNumFacts
<1>2. PICK w : /\ w[0] = m
               /\ \A k \in 1 .. N : w[k] = WriteInode(w[k - 1], NewInode(k - 1))
               /\ InitInodes(m) = w[N]
  BY <1>1, InitRuns
<1> HIDE DEF N
<1> DEFINE S == {k \in 0 .. N : Kept(m, w[k])}
<1>3. 0 \in S
  BY <1>1, <1>2 DEF Kept
<1>4. ASSUME NEW k \in 0 .. N - 1, k \in S
      PROVE  k + 1 \in S
  <2> DEFINE new == NewInode((k + 1) - 1)
  <2>1. Kept(m, w[k])
    BY <1>4
  <2>2. Kept(m, WriteInode(w[k], new))
    BY <2>1, InodeKept DEF Kept
  <2>3. k + 1 \in 1 .. N /\ (k + 1) - 1 = k
    BY <1>1
  <2>4. w[k + 1] = WriteInode(w[(k + 1) - 1], new)
    BY <1>2, <2>3
  <2> HIDE DEF new
  <2> QED
    BY <2>2, <2>3, <2>4
<1>5. N \in S
  <2> HIDE DEF S
  <2>1. \A k \in 0 .. N : k \in S
    BY <1>1, <1>3, <1>4, UpTo
  <2> QED
    BY <1>1, <2>1
<1> QED
  BY <1>2, <1>5

LEMMA CreateRootKept ==
  ASSUME NEW m, Bare(m)
  PROVE  Kept(m, CreateRootDirectory(m))
<1> DEFINE c == CreateInodeType(m, Directory, Blank)
           d == <<Link(".", c.id), Link("..", c.id)>>
           n == WriteDir(c.m, d)
<1>1. CreateRootDirectory(m) = [n EXCEPT !.root = d]
  BY DEF CreateRootDirectory
<1>2. Kept(m, c.m)
  BY CreateInodeKept
<1> HIDE DEF c, d
<1>3. Kept(c.m, n)
  BY <1>2, WriteDirKept DEF Kept
<1> HIDE DEF n
<1>4. Kept(n, [n EXCEPT !.root = d])
  BY <1>3, RootFields DEF Kept
<1> QED
  BY <1>1, <1>2, <1>3, <1>4, KeptTrans

LEMMA InitDiskKept ==
  ASSUME NEW m, Bare(m)
  PROVE  Bare(InitDisk(m))
<1> DEFINE v == [num |-> DiskBlocks, inodes |-> {}, blocks |-> {}]
           l == [m EXCEPT !.sb = v]
           n == WriteSuperblock(l)
           i == InitInodes(n)
<1>1. InitDisk(m) = CreateRootDirectory(i)
  BY DEF InitDisk
<1> HIDE DEF v
<1>2. Bare(l)
  BY SuperblockFields
<1> HIDE DEF l
<1>3. Bare(n)
  BY <1>2, SuperblockKept
<1> HIDE DEF n
<1>4. Bare(i)
  BY <1>3, InitInodesKept DEF Kept
<1> HIDE DEF i
<1> QED
  BY <1>1, <1>4, CreateRootKept DEF Kept

LEMMA CreateDeviceKept ==
  ASSUME NEW m, NEW c, Kept(m, c.m), NEW name
  PROVE  Kept(m, CreateDevice(c, name).m)
<1>1. Kept(c.m, CreateFile(c.m, c.dir, name, Device, Blank).m)
  BY CreateFileKept DEF Kept
<1> QED
  BY <1>1, KeptTrans DEF CreateDevice

LEMMA CreateIoDevicesKept ==
  ASSUME NEW m, Bare(m)
  PROVE  Kept(m, CreateIoDevices(m))
<1> DEFINE dev == CreateDirectory(m, m.root, "dev", Blank)
           one == CreateDevice(dev, "stdin")
           two == CreateDevice(one, "stdout")
           three == CreateDevice(two, "stderr")
           r == Append(m.root, Link("dev", dev.id))
<1>1. CreateIoDevices(m) = [three.m EXCEPT !.root = r]
  BY DEF CreateIoDevices
<1>2. Kept(m, dev.m)
  BY CreateDirectoryKept
<1> HIDE DEF dev, r
<1>3. Kept(m, one.m)
  BY <1>2, CreateDeviceKept
<1> HIDE DEF one
<1>4. Kept(m, two.m)
  BY <1>3, CreateDeviceKept
<1> HIDE DEF two
<1>5. Kept(m, three.m)
  BY <1>4, CreateDeviceKept
<1> HIDE DEF three
<1>6. Kept(three.m, [three.m EXCEPT !.root = r])
  BY <1>5, RootFields DEF Kept
<1> QED
  BY <1>1, <1>5, <1>6, KeptTrans

LEMMA OpenDeviceKept ==
  ASSUME NEW m, Bare(m), NEW name, NEW flags
  PROVE  Bare(OpenDevice(m, name, flags))
BY OpenFileKept DEF OpenDevice, Kept

LEMMA OpenIoDevicesKept ==
  ASSUME NEW m, Bare(m)
  PROVE  Bare(OpenIoDevices(m))
<1> DEFINE one == OpenDevice(m, "stdin", READ_GLOBAL)
           two == OpenDevice(one, "stdout", WRITE_GLOBAL)
<1>1. OpenIoDevices(m) = OpenDevice(two, "stderr", WRITE_GLOBAL)
  BY DEF OpenIoDevices
<1>2. Bare(one)
  BY OpenDeviceKept
<1> HIDE DEF one
<1>3. Bare(two)
  BY <1>2, OpenDeviceKept
<1> HIDE DEF two
<1> QED
  BY <1>1, <1>3, OpenDeviceKept

(* mount needs no more of the machine than its shape.                      *)
LEMMA SysMountKept ==
  ASSUME NEW m, Shape(m)
  PROVE  Bare(SysMount(m)) /\ Current(SysMount(m))
<1> DEFINE z == [m EXCEPT !.sb = NoSuperblock, !.root = <<>>, !.open = <<>>]
           r == ReadRootDir([z EXCEPT !.sb = m.disk[0].sb])
           c == CreateIoDevices(InitDisk(z))
<1>1. \/ SysMount(m) = WriteSuperblock(OpenIoDevices(r))
      \/ SysMount(m) = WriteSuperblock(OpenIoDevices(c))
  BY DEF SysMount
<1>2. Bare(z)
  <2>1. Once(<<>>)
    BY EmptyIsSeq DEF Once
  <2>2. Shape(z) /\ z.open = <<>>
    BY DEF Shape, Fields
  <2> QED
    BY <2>1, <2>2 DEF Bare
<1> HIDE DEF z
<1>3. Bare(r)
  <2> DEFINE s == [z EXCEPT !.sb = m.disk[0].sb]
  <2>1. Bare(s)
    BY <1>2, SuperblockFields
  <2> HIDE DEF s
  <2>2. Bare(ReadRootDir(s))
    BY <2>1, ReadRootKept DEF Kept
  <2> QED
    BY <2>2 DEF s
<1>4. Bare(c)
  <2>1. Bare(InitDisk(z))
    BY <1>2, InitDiskKept
  <2> QED
    BY <2>1, CreateIoDevicesKept DEF Kept
<1> HIDE DEF r, c
<1>5. Bare(OpenIoDevices(r)) /\ Bare(OpenIoDevices(c))
  BY <1>3, <1>4, OpenIoDevicesKept
<1> QED
  BY <1>1, <1>5, SuperblockKept

LEMMA SysUnmountKept ==
  ASSUME NEW m, Bare(m)
  PROVE  Bare(SysUnmount(m)) /\ Current(SysUnmount(m))
<1> DEFINE t == CloseAll(m.open)
<1>1. Once(t)
  BY CloseAllOnce DEF Bare
<1> HIDE DEF t
<1>2. Bare([m EXCEPT !.open = t])
  BY <1>1, OpenFields DEF Kept
<1> QED
  BY <1>2, SuperblockKept DEF SysUnmount, t

-----------------------------------------------------------------------------
(* A file is open at most once, and the superblock is on the disk          *)

Safe == Bare(Now) /\ (mounted => Current(Now))

LEMMA NowFields ==
  /\ DOMAIN Now = Fields
  /\ Now.disk = disk /\ Now.sb = sb /\ Now.root = root
  /\ Now.open = open /\ Now.held = held /\ Now.seen = <<>>
BY DEF Now, Fields

LEMMA NowBare == Bare(Now) <=> DOMAIN disk = Addr /\ Once(open)
<1>1. Images(<<>>)
  BY EmptyIsSeq DEF Images
<1> QED
  BY <1>1, NowFields DEF Bare, Shape

LEMMA NextBare ==
  ASSUME DOMAIN disk' = Addr, Once(open')
  PROVE  Bare(Now)'
<1>1. Images(<<>>)
  BY EmptyIsSeq DEF Images
<1>2. /\ DOMAIN Now' = Fields
      /\ Now'.disk = disk' /\ Now'.open = open' /\ Now'.seen = <<>>
  BY DEF Now, Fields
<1> QED
  BY <1>1, <1>2 DEF Bare, Shape

LEMMA NowCurrent == Current(Now) <=> disk[0] = [sb |-> sb]
BY NowFields DEF Current

LEMMA NewDiskSafe == Bare(NewDisk) /\ Current(NewDisk)
<1> DEFINE m == [disk |-> [a \in Addr |-> [zeros |-> TRUE]], sb |-> NoSuperblock,
                 root |-> <<>>, open |-> <<>>, held |-> [p \in Procs |-> <<>>], seen |-> <<>>]
<1>1. NewDisk = SysMount(m)
  BY DEF NewDisk
<1>2. Shape(m)
  <2>1. Images(<<>>)
    BY EmptyIsSeq DEF Images
  <2> QED
    BY <2>1 DEF Shape, Fields
<1> HIDE DEF m
<1> QED
  BY <1>1, <1>2, SysMountKept

LEMMA InitSafe == Init => Safe
<1>1. Init => /\ disk = NewDisk.disk /\ sb = NewDisk.sb /\ open = NewDisk.open
  BY DEF Init
<1>2. DOMAIN NewDisk.disk = Addr /\ Once(NewDisk.open)
  BY NewDiskSafe DEF Bare, Shape
<1>3. NewDisk.disk[0] = [sb |-> NewDisk.sb]
  BY NewDiskSafe DEF Current
<1> QED
  BY <1>1, <1>2, <1>3, NowBare, NowCurrent DEF Safe

(* What a machine that a call leaves looks like from outside.              *)
LEMMA BecomesSafe ==
  ASSUME NEW n, Bare(n), Becomes(n)
  PROVE  Bare(Now)' /\ (Current(n) => Current(Now)')
<1>1. DOMAIN disk' = Addr /\ Once(open')
  BY DEF Becomes, Bare, Shape
<1>2. Bare(Now)'
  BY <1>1, NextBare
<1> QED
  BY <1>2 DEF Becomes, Current, Now

(* A call, whether it ends or the machine stops in its middle.             *)
LEMMA EndsSafe ==
  ASSUME NEW n, Safe, mounted, Kept(Now, n), Ends(n)
  PROVE  Safe'
<1>1. Bare(n) /\ Current(n)
  BY DEF Safe, Kept
<1>2. CASE Becomes(n) /\ UNCHANGED mounted
  BY <1>1, <1>2, BecomesSafe DEF Safe
<1>3. CASE /\ \E k \in 1 .. Len(n.seen) : disk' = n.seen[k]
           /\ mounted' = FALSE
           /\ UNCHANGED <<sb, root, open, held>>
  <2>1. DOMAIN disk' = Addr
    BY <1>1, <1>3 DEF Bare, Shape, Images
  <2>2. Once(open')
    BY <1>3, NowFields DEF Safe, Bare
  <2>3. Bare(Now)'
    BY <2>1, <2>2, NextBare
  <2> QED
    BY <1>3, <2>3 DEF Safe
<1> QED
  BY <1>2, <1>3 DEF Ends

LEMMA NextSafe == Safe /\ [Next]_vars => Safe'
<1> SUFFICES ASSUME Safe, [Next]_vars
             PROVE  Safe'
  OBVIOUS
<1>1. Bare(Now)
  BY DEF Safe
<1>2. ASSUME NEW p \in Procs, NEW path \in Paths, NEW name \in Names, NEW flags \in Modes,
             NEW stack \in Stacks(Now),
             Call("open"), Ends(SysOpen(Now, p, path, name, flags, stack))
      PROVE  Safe'
  BY <1>1, <1>2, SysOpenKept, EndsSafe DEF Call
<1>3. ASSUME NEW p \in Procs, NEW fd \in FdId, Call("close"), Ends(SysClose(Now, p, fd))
      PROVE  Safe'
  BY <1>1, <1>3, SysCloseKept, EndsSafe DEF Call
<1>4. ASSUME NEW p \in Procs, NEW fd \in FdId, NEW contents \in Contents,
             Call("write"), Ends(SysWrite(Now, p, fd, contents))
      PROVE  Safe'
  <2>1. Len(contents) \in Nat
    BY CallsAssumption, LenProperties
  <2> QED
    BY <1>1, <1>4, <2>1, SysWriteKept, EndsSafe DEF Call
<1>5. ASSUME NEW path \in Paths, NEW name \in Names, NEW stack \in Stacks(Now),
             Call("mkdir"), Ends(SysMkdir(Now, path, name, stack))
      PROVE  Safe'
  BY <1>1, <1>5, SysMkdirKept, EndsSafe DEF Call
<1>6. ASSUME NEW path \in Paths, NEW name \in Names, NEW stack \in Stacks(Now),
             Call("rmdir"), Ends(SysRmdir(Now, path, name, stack))
      PROVE  Safe'
  BY <1>1, <1>6, SysRmdirKept, EndsSafe DEF Call
<1>7. ASSUME NEW path \in Paths, NEW name \in Names, NEW stack \in Stacks(Now),
             Call("rm"), Ends(SysRm(Now, path, name, stack))
      PROVE  Safe'
  BY <1>1, <1>7, SysRmKept, EndsSafe DEF Call
<1>8. ASSUME Call("mount"), Ends(SysMount(Now))
      PROVE  Safe'
  <2>1. Kept(Now, SysMount(Now))
    BY <1>1, SysMountKept DEF Bare, Kept
  <2> QED
    BY <1>8, <2>1, EndsSafe DEF Call
<1>9. ASSUME Becomes(SysUnmount(Now)), mounted' = FALSE
      PROVE  Safe'
  BY <1>1, <1>9, SysUnmountKept, BecomesSafe DEF Safe
<1>10. ASSUME Becomes(SysMount([Now EXCEPT !.held = [p \in Procs |-> <<>>]]))
       PROVE  Safe'
  <2> DEFINE new == [p \in Procs |-> <<>>]
             m == [Now EXCEPT !.held = new]
  <2> HIDE DEF new
  <2>1. Bare(m)
    BY <1>1, HeldFields DEF Kept
  <2>2. Bare(SysMount(m)) /\ Current(SysMount(m))
    BY <2>1, SysMountKept DEF Bare
  <2>3. Becomes(SysMount(m))
    BY <1>10 DEF new
  <2> HIDE DEF m
  <2> QED
    BY <2>2, <2>3, BecomesSafe DEF Safe
<1>11. ASSUME UNCHANGED <<disk, sb, root, open, mounted>>
       PROVE  Safe'
  <2>1. Bare(Now)'
    <3>1. DOMAIN disk' = Addr /\ Once(open')
      BY <1>1, <1>11, NowBare
    <3> QED
      BY <3>1, NextBare
  <2>2. mounted => Current(Now)'
    BY <1>11, NowCurrent DEF Safe, Now, Current
  <2> QED
    BY <1>11, <2>1, <2>2 DEF Safe
<1>12. UNCHANGED vars => Safe'
  BY <1>11 DEF vars
<1>13. Next => Safe'
  BY <1>2, <1>3, <1>4, <1>5, <1>6, <1>7, <1>8, <1>9, <1>10, <1>11
  DEF Next, Open, Close, Write, Mkdir, Rmdir, Rm, Mount, Unmount, Exit, Restart
<1> QED
  BY <1>12, <1>13

LEMMA AlwaysSafe == Spec => []Safe
BY InitSafe, NextSafe, PTL DEF Spec

(* The table of open files never has a file twice, whatever the processes  *)
(* open and close, and at whatever step the machine stops.                 *)
THEOREM FileOpenOnce == Spec => []OpenOnce
<1>1. Safe => OpenOnce
  BY NowBare DEF Safe, Once, OpenOnce
<1> QED
  BY <1>1, AlwaysSafe, PTL

(* After every call the superblock on the disk is the one in memory: each  *)
(* way through a call that changes a bitmap writes it out.                 *)
THEOREM DiskIsUpToDate == Spec => []DiskUpToDate
<1>1. Safe => DiskUpToDate
  BY NowCurrent DEF Safe, DiskUpToDate
<1> QED
  BY <1>1, AlwaysSafe, PTL

-----------------------------------------------------------------------------
(* The disk as the code means it to be                                     *)

(* Every block and inode has its bit, no call starts without the blocks it *)
(* needs, a new disk has room for the root, /dev and the devices, a path   *)
(* names directories by their names, the stack reads as zeros and the      *)
(* machine stops between calls only.  Without any one of them              *)
(* BlocksInOrder does not hold, see FilesBitmap, FilesFull, FilesStack and *)
(* FilesCrashBlocks.                                                       *)
FilesAsMeant ==
  /\ \A a \in Addr : HasBit(a)
  /\ Reserve >= MaxInodeBlocks /\ Reserve >= 2 * DirectoryBlocks
  /\ DiskBlocks - DataStart >= 8 * DirectoryBlocks
  /\ \A path \in Paths : "." \notin Range(path) /\ ".." \notin Range(path)
  /\ ~DirtyStack
  /\ "crash" \notin Calls

LEMMA Layout ==
  ASSUME FilesAsMeant
  PROVE  /\ DataAddr \subseteq Addr /\ 0 \notin DataAddr
         /\ InodeId \subseteq Addr /\ 0 \in InodeId
         /\ \A i \in InodeId : /\ InodeAddr(i) \in Addr
                               /\ InodeAddr(i) # 0
                               /\ InodeAddr(i) \notin DataAddr
         /\ \A i, j \in InodeId : InodeAddr(i) = InodeAddr(j) => i = j
<1>1. DirectoryBlocks \in Nat \ {0} /\ DiskBlocks \in Nat
  BY DiskAssumption
<1>2. InodeNum \in Nat /\ InodeNum >= 5
  BY InodeNumFacts
<1>3. 1 + InodeNum + 8 <= DiskBlocks
  BY <1>1, <1>2 DEF FilesAsMeant, DataStart, InodeStart
<1> QED
  BY <1>1, <1>2, <1>3 DEF DataAddr, Addr, InodeId, InodeAddr, DataStart, InodeStart

LEMMA Bits ==
  ASSUME FilesAsMeant, NEW a \in Addr, NEW bits
  PROVE  SetBit(bits, a) = bits \cup {a}
BY DEF FilesAsMeant, SetBit

LEMMA DataIsFinite == IsFiniteSet(DataAddr)
<1>1. DataStart \in Int /\ DiskBlocks - 1 \in Int
  BY InodeNumFacts, DiskAssumption DEF DataStart, InodeStart
<1> QED
  BY <1>1, FS_Interval DEF DataAddr

-----------------------------------------------------------------------------
(* Free blocks                                                             *)

SbFields == {"num", "inodes", "blocks"}

Formed(m) ==
  /\ Shape(m)
  /\ DOMAIN m.sb = SbFields
  /\ m.sb.num = DiskBlocks
  /\ m.sb.inodes \subseteq InodeId
  /\ m.sb.blocks \subseteq Addr

Free(m) == {a \in DataAddr : ~GetBit(m.sb.blocks, a)}

Room(m) == Cardinality(Free(m))

LEMMA FreeFacts ==
  ASSUME NEW m
  PROVE  /\ IsFiniteSet(Free(m)) /\ Room(m) \in Nat
         /\ Room(m) >= 1 => FreeDataBlock(m) \in Free(m)
<1>1. Free(m) \subseteq DataAddr
  BY DEF Free
<1>2. IsFiniteSet(Free(m)) /\ Room(m) \in Nat
  BY <1>1, DataIsFinite, FS_Subset, FS_CardinalityType DEF Room
<1>3. ASSUME Room(m) >= 1
      PROVE  FreeDataBlock(m) \in Free(m)
  <2>1. Free(m) # {}
    BY <1>2, <1>3, FS_EmptySet DEF Room
  <2>2. Free(m) \subseteq Nat
    BY <1>1, InodeNumFacts DEF DataAddr, DataStart, InodeStart
  <2>3. Min(Free(m)) \in Free(m)
    BY <2>1, <2>2, MinOfSet
  <2>4. FreeDataBlock(m) = Min(Free(m))
    BY <2>1 DEF FreeDataBlock, Free
  <2> QED
    BY <2>3, <2>4
<1> QED
  BY <1>2, <1>3

(* What writing one block does to the machine.                             *)
TookBlock(m, n, a, block) ==
  /\ a \in Free(m)
  /\ Formed(n) /\ Same(m, n)
  /\ n.disk = [m.disk EXCEPT ![a] = block]
  /\ n.sb.inodes = m.sb.inodes
  /\ n.sb.blocks = m.sb.blocks \cup {a}
  /\ Free(n) = Free(m) \ {a}
  /\ Room(n) = Room(m) - 1

LEMMA NextWritten ==
  ASSUME FilesAsMeant, NEW w, Formed(w.m), Room(w.m) >= 1, NEW k, NEW block
  PROVE  /\ TookBlock(w.m, WriteNext(w, k, block).m, FreeDataBlock(w.m), block)
         /\ WriteNext(w, k, block).inode = [w.inode EXCEPT !.blocks[k] = FreeDataBlock(w.m)]
<1> DEFINE m == w.m
           a == FreeDataBlock(m)
           l == AllocateBlock(m, a)
           n == Put(l, a, block)
<1>1. /\ WriteNext(w, k, block).m = n
      /\ WriteNext(w, k, block).inode = [w.inode EXCEPT !.blocks[k] = a]
  BY DEF WriteNext
<1>2. a \in Free(m) /\ IsFiniteSet(Free(m)) /\ Room(m) \in Nat
  BY FreeFacts
<1>3. a \in DataAddr /\ a \in Addr
  BY <1>2, Layout DEF Free
<1> HIDE DEF a
<1>4. Marked(m, l, a)
  BY AllocateShape DEF Formed
<1> HIDE DEF l
<1>5. Placed(l, n, a, block)
  BY <1>4, PutShape DEF Marked
<1> HIDE DEF n, m
<1>6. n.sb = [m.sb EXCEPT !.blocks = @ \cup {a}]
  BY <1>3, <1>4, <1>5, Bits DEF Marked, Placed
<1>7. /\ DOMAIN n.sb = SbFields /\ n.sb.num = m.sb.num /\ n.sb.inodes = m.sb.inodes
      /\ n.sb.blocks = m.sb.blocks \cup {a}
  BY <1>6 DEF Formed, SbFields, m
<1>8. Formed(n) /\ Same(m, n) /\ n.disk = [m.disk EXCEPT ![a] = block]
  BY <1>3, <1>4, <1>5, <1>7 DEF Formed, Marked, Placed, Same, m
<1>9. Free(n) = Free(m) \ {a}
  BY <1>7 DEF Free, GetBit
<1>10. Room(n) = Room(m) - 1
  BY <1>2, <1>9, FS_RemoveElement DEF Room
<1>11. TookBlock(m, n, a, block)
  BY <1>2, <1>7, <1>8, <1>9, <1>10, Zenon DEF TookBlock
<1> QED
  BY <1>1, <1>11 DEF a, m

Listed(blocks) == blocks = [k \in 1 .. MaxInodeBlocks |-> blocks[k]]

(* After the first k blocks: each is where the inode says, in a place that *)
(* was free and is the inode's alone.                                      *)
Written(m, inode, contents, k, v) ==
  /\ Formed(v.m) /\ Same(m, v.m)
  /\ v.inode = [inode EXCEPT !.blocks = v.inode.blocks]
  /\ Listed(v.inode.blocks)
  /\ \A j \in 1 .. k : /\ v.inode.blocks[j] \in Free(m)
                       /\ v.inode.blocks[j] \in v.m.sb.blocks
                       /\ v.m.disk[v.inode.blocks[j]] = contents[j]
  /\ \A j, l \in 1 .. k : v.inode.blocks[j] = v.inode.blocks[l] => j = l
  /\ \A j \in 1 .. MaxInodeBlocks : j > k => v.inode.blocks[j] = inode.blocks[j]
  /\ \A a \in Addr \ Free(m) : v.m.disk[a] = m.disk[a]
  /\ m.sb.blocks \subseteq v.m.sb.blocks
  /\ v.m.sb.inodes = m.sb.inodes
  /\ Free(v.m) \subseteq Free(m)
  /\ Room(v.m) = Room(m) - k

LEMMA OneMoreWritten ==
  ASSUME FilesAsMeant, NEW m, NEW inode, NEW contents, NEW k \in Nat, NEW v,
         Written(m, inode, contents, k, v),
         DOMAIN inode = {"id", "type", "allocated", "blocks"},
         k + 1 <= MaxInodeBlocks, Room(m) >= k + 1
  PROVE  Written(m, inode, contents, k + 1, WriteNext(v, k + 1, contents[k + 1]))
<1> DEFINE a == FreeDataBlock(v.m)
           x == WriteNext(v, k + 1, contents[k + 1])
           n == x.m
           b == x.inode.blocks
<1>1. Formed(v.m) /\ Room(v.m) >= 1 /\ MaxInodeBlocks \in Nat
  BY FreeFacts, DiskAssumption DEF Written
<1>2. TookBlock(v.m, n, a, contents[k + 1]) /\ x.inode = [v.inode EXCEPT !.blocks[k + 1] = a]
  BY <1>1, NextWritten
<1> HIDE DEF a, x
<1>3. /\ v.inode = [inode EXCEPT !.blocks = v.inode.blocks]
      /\ Listed(v.inode.blocks) /\ DOMAIN v.inode.blocks = 1 .. MaxInodeBlocks
  BY DEF Written, Listed
<1>4. b = [v.inode.blocks EXCEPT ![k + 1] = a]
  BY <1>2, <1>3
<1>5. x.inode = [inode EXCEPT !.blocks = b]
  BY <1>2, <1>3
<1>6. b[k + 1] = a /\ \A j \in 1 .. MaxInodeBlocks : j # k + 1 => b[j] = v.inode.blocks[j]
  BY <1>1, <1>3, <1>4
<1>7. Listed(b)
  BY <1>3, <1>4 DEF Listed
<1> HIDE DEF b
<1>8. a \in Free(v.m) /\ a \in DataAddr /\ a \in Addr /\ a \notin v.m.sb.blocks /\ a \in Free(m)
  BY <1>2, Layout DEF TookBlock, Free, GetBit, Written
<1>9. /\ n.disk = [v.m.disk EXCEPT ![a] = contents[k + 1]] /\ DOMAIN v.m.disk = Addr
      /\ n.sb.blocks = v.m.sb.blocks \cup {a}
  BY <1>1, <1>2 DEF TookBlock, Formed, Shape
<1>10. ASSUME NEW j \in 1 .. k + 1
       PROVE  /\ b[j] \in Free(m) /\ b[j] \in n.sb.blocks /\ n.disk[b[j]] = contents[j]
  <2>1. CASE j = k + 1
    BY <1>6, <1>8, <1>9, <2>1
  <2>2. CASE j # k + 1
    <3>1. j \in 1 .. k /\ j \in 1 .. MaxInodeBlocks
      BY <1>1, <2>2
    <3>2. b[j] = v.inode.blocks[j]
      BY <1>6, <2>2, <3>1
    <3>3. /\ b[j] \in Free(m) /\ b[j] \in v.m.sb.blocks /\ v.m.disk[b[j]] = contents[j]
      BY <3>1, <3>2 DEF Written
    <3>4. b[j] \in Addr /\ b[j] # a
      BY <1>8, <3>3, Layout DEF Free
    <3> QED
      BY <1>9, <3>3, <3>4
  <2> QED
    BY <2>1, <2>2
<1>11. ASSUME NEW j \in 1 .. k + 1, NEW l \in 1 .. k + 1, b[j] = b[l]
       PROVE  j = l
  <2>1. \A i \in 1 .. k : b[i] = v.inode.blocks[i] /\ b[i] # a
    <3>1. ASSUME NEW i \in 1 .. k
          PROVE  b[i] = v.inode.blocks[i] /\ b[i] # a
      <4>1. i \in 1 .. MaxInodeBlocks /\ i # k + 1
        BY <1>1
      <4>2. v.inode.blocks[i] \in v.m.sb.blocks
        BY DEF Written
      <4> QED
        BY <1>6, <1>8, <4>1, <4>2
    <3> QED
      BY <3>1
  <2>2. CASE j = k + 1 /\ l # k + 1
    BY <1>6, <1>11, <2>1, <2>2
  <2>3. CASE j # k + 1 /\ l = k + 1
    BY <1>6, <1>11, <2>1, <2>3
  <2>4. CASE j # k + 1 /\ l # k + 1
    <3>1. j \in 1 .. k /\ l \in 1 .. k
      BY <2>4
    <3> QED
      BY <1>11, <2>1, <3>1 DEF Written
  <2> QED
    BY <2>2, <2>3, <2>4
<1>12. \A j \in 1 .. MaxInodeBlocks : j > k + 1 => b[j] = inode.blocks[j]
  <2>1. \A j \in 1 .. MaxInodeBlocks : j > k => v.inode.blocks[j] = inode.blocks[j]
    BY DEF Written
  <2> QED
    BY <1>1, <1>6, <2>1
<1>13. \A c \in Addr \ Free(m) : n.disk[c] = m.disk[c]
  BY <1>8, <1>9 DEF Written
<1>14. /\ Formed(n) /\ Same(m, n)
       /\ m.sb.blocks \subseteq n.sb.blocks /\ n.sb.inodes = m.sb.inodes
       /\ Free(n) \subseteq Free(m)
  BY <1>2 DEF TookBlock, Written, Same
<1>15. Room(n) = Room(m) - (k + 1)
  BY <1>2, FreeFacts DEF TookBlock, Written
<1> QED
  <2>1. /\ \A j \in 1 .. k + 1 : b[j] \in Free(m) /\ b[j] \in n.sb.blocks /\ n.disk[b[j]] = contents[j]
        /\ \A j, l \in 1 .. k + 1 : b[j] = b[l] => j = l
    BY <1>10, <1>11
  <2>2. x.inode.blocks = b
    BY DEF b
  <2> QED
    BY <1>5, <1>7, <1>12, <1>13, <1>14, <1>15, <2>1, <2>2 DEF Written, x

LEMMA BlocksWritten ==
  ASSUME FilesAsMeant, NEW m, Formed(m), NEW inode, NEW contents,
         inode = [id |-> inode.id, type |-> inode.type, allocated |-> inode.allocated,
                  blocks |-> inode.blocks],
         Listed(inode.blocks),
         Len(contents) \in Nat, Len(contents) <= MaxInodeBlocks, Room(m) >= Len(contents)
  PROVE  Written(m, inode, contents, Len(contents), WriteBlocks(m, inode, contents))
<1> DEFINE N == Len(contents)
<1>1. PICK w : /\ w[0] = [m |-> m, inode |-> inode]
               /\ \A k \in 1 .. N : w[k] = WriteNext(w[k - 1], k, contents[k])
               /\ WriteBlocks(m, inode, contents) = w[N]
  BY WriteRuns
<1>2. Room(m) \in Nat /\ MaxInodeBlocks \in Nat
  BY FreeFacts, DiskAssumption
<1>6. DOMAIN inode = {"id", "type", "allocated", "blocks"}
  OBVIOUS
<1> DEFINE S == {k \in 0 .. N : Written(m, inode, contents, k, w[k])}
<1>3. 0 \in S
  <2> DEFINE v == [m |-> m, inode |-> inode]
  <2>1. v.m = m /\ v.inode = inode
    OBVIOUS
  <2>2. inode = [inode EXCEPT !.blocks = inode.blocks]
    OBVIOUS
  <2> HIDE DEF v
  <2>3. Written(m, inode, contents, 0, v)
    BY <1>2, <2>1, <2>2 DEF Written, Same
  <2> QED
    BY <1>1, <2>3 DEF v
<1>4. ASSUME NEW k \in 0 .. N - 1, k \in S
      PROVE  k + 1 \in S
  <2>1. Written(m, inode, contents, k, w[k]) /\ k \in Nat /\ k + 1 <= N
    BY <1>4
  <2>2. Written(m, inode, contents, k + 1, WriteNext(w[k], k + 1, contents[k + 1]))
    <3>1. k + 1 <= MaxInodeBlocks /\ Room(m) >= k + 1
      BY <1>2, <2>1
    <3> QED
      BY <1>6, <2>1, <3>1, OneMoreWritten
  <2>3. k + 1 \in 1 .. N /\ (k + 1) - 1 = k
    OBVIOUS
  <2>4. w[k + 1] = WriteNext(w[(k + 1) - 1], k + 1, contents[k + 1])
    BY <1>1, <2>3
  <2> QED
    BY <2>2, <2>3, <2>4
<1>5. N \in S
  <2> HIDE DEF S
  <2>1. \A k \in 0 .. N : k \in S
    BY <1>3, <1>4, UpTo
  <2> QED
    BY <2>1
<1> QED
  BY <1>1, <1>5

-----------------------------------------------------------------------------
(* Inodes                                                                  *)

(* What write_inode does: that inode, the superblock, and no data block.   *)
Stored(m, n, inode) ==
  /\ Formed(n) /\ Same(m, n)
  /\ n.disk[0] = [sb |-> n.sb]
  /\ InodeAt(n, inode.id) = inode
  /\ \A j \in InodeId : j # inode.id => InodeAt(n, j) = InodeAt(m, j)
  /\ \A a \in DataAddr : n.disk[a] = m.disk[a]
  /\ n.sb.inodes = m.sb.inodes
  /\ \A a \in DataAddr : a \in n.sb.blocks <=> a \in m.sb.blocks
  /\ Free(n) = Free(m)

LEMMA InodeStored ==
  ASSUME FilesAsMeant, NEW m, Formed(m), NEW inode, inode.id \in InodeId
  PROVE  Stored(m, WriteInode(m, inode), inode)
<1> DEFINE n == WriteInode(m, inode)
           a == InodeAddr(inode.id)
           z == 0
<1>1. Noted(m, n, inode)
  BY InodeShape DEF Formed
<1> HIDE DEF n
<1>2. a \in Addr /\ a # z /\ a \notin DataAddr /\ z \in Addr /\ z \notin DataAddr /\ DataAddr \subseteq Addr
  BY Layout, ZeroIsAddr
<1>3. n.disk = [[m.disk EXCEPT ![a] = [inode |-> inode]] EXCEPT ![z] = [sb |-> n.sb]]
  BY <1>1 DEF Noted
<1>4. n.sb = [m.sb EXCEPT !.blocks = (@ \cup {a}) \cup {z}]
  <2>1. n.sb = [m.sb EXCEPT !.blocks = SetBit(SetBit(@, a), z)]
    BY <1>1 DEF Noted
  <2>2. SetBit(SetBit(m.sb.blocks, a), z) = (m.sb.blocks \cup {a}) \cup {z}
    BY <1>2, Bits
  <2> QED
    BY <2>1, <2>2
<1>5. DOMAIN m.disk = Addr /\ DOMAIN m.sb = SbFields
  BY DEF Formed, Shape
<1>6. /\ DOMAIN n.sb = SbFields /\ n.sb.num = m.sb.num /\ n.sb.inodes = m.sb.inodes
      /\ n.sb.blocks = (m.sb.blocks \cup {a}) \cup {z}
  BY <1>4, <1>5 DEF SbFields
<1>7. Formed(n) /\ Same(m, n)
  BY <1>1, <1>2, <1>6 DEF Formed, Noted
<1>8. n.disk[z] = [sb |-> n.sb] /\ n.disk[a] = [inode |-> inode]
  BY <1>2, <1>3, <1>5
<1>9. \A c \in Addr : c # a /\ c # z => n.disk[c] = m.disk[c]
  BY <1>3, <1>5
<1>10. InodeAt(n, inode.id) = inode
  BY <1>8 DEF InodeAt
<1>11. ASSUME NEW j \in InodeId, j # inode.id
       PROVE  InodeAt(n, j) = InodeAt(m, j)
  <2>1. InodeAddr(j) \in Addr /\ InodeAddr(j) # z /\ InodeAddr(j) # a
    BY <1>11, Layout
  <2> QED
    BY <1>9, <2>1 DEF InodeAt
<1>12. \A c \in DataAddr : n.disk[c] = m.disk[c] /\ (c \in n.sb.blocks <=> c \in m.sb.blocks)
  BY <1>2, <1>6, <1>9
<1>13. Free(n) = Free(m)
  BY <1>12 DEF Free, GetBit
<1> QED
  BY <1>6, <1>7, <1>8, <1>10, <1>11, <1>12, <1>13 DEF Stored, n

InodeType == {Unallocated, File, Directory, Device}

IsInode(inode, i) ==
  inode \in [id : {i}, type : InodeType, allocated : 0 .. MaxInodeBlocks,
             blocks : [1 .. MaxInodeBlocks -> Addr]]

(* What _rw_inode does to inode i.                                         *)
Rewrote(m, n, i, contents) ==
  /\ Formed(n) /\ Same(m, n)
  /\ n.disk[0] = [sb |-> n.sb]
  /\ IsInode(InodeAt(n, i), i)
  /\ InodeAt(n, i).type = InodeAt(m, i).type
  /\ InodeAt(n, i).allocated = AtLeast(Len(contents), InodeAt(m, i).allocated)
  /\ \A k \in 1 .. Len(contents) :
       /\ InodeAt(n, i).blocks[k] \in Free(m)
       /\ InodeAt(n, i).blocks[k] \in n.sb.blocks
       /\ n.disk[InodeAt(n, i).blocks[k]] = contents[k]
  /\ \A k, l \in 1 .. Len(contents) : InodeAt(n, i).blocks[k] = InodeAt(n, i).blocks[l] => k = l
  /\ \A k \in 1 .. MaxInodeBlocks : k > Len(contents) =>
       InodeAt(n, i).blocks[k] = InodeAt(m, i).blocks[k]
  /\ \A j \in InodeId : j # i => InodeAt(n, j) = InodeAt(m, j)
  /\ \A a \in DataAddr : a \notin Free(m) => n.disk[a] = m.disk[a] /\ a \in n.sb.blocks
  /\ n.sb.inodes = m.sb.inodes
  /\ Room(n) = Room(m) - Len(contents)

LEMMA InodeRewritten ==
  ASSUME FilesAsMeant, NEW m, Formed(m), NEW i \in InodeId, IsInode(InodeAt(m, i), i),
         NEW contents, Len(contents) \in Nat, Len(contents) <= MaxInodeBlocks,
         Room(m) >= Len(contents)
  PROVE  Rewrote(m, WriteToInode(m, InodeAt(m, i), contents), i, contents)
<1> DEFINE inode == InodeAt(m, i)
           N == Len(contents)
           longer == [inode EXCEPT !.allocated = AtLeast(N, @)]
           end == WriteBlocks(m, longer, contents)
           n == WriteInode(end.m, end.inode)
<1>1. WriteToInode(m, inode, contents) = n
  BY DiskAssumption DEF WriteToInode
<1>2. /\ inode.id = i /\ inode.type \in InodeType /\ inode.allocated \in 0 .. MaxInodeBlocks
      /\ inode.blocks \in [1 .. MaxInodeBlocks -> Addr]
      /\ inode = [id |-> inode.id, type |-> inode.type, allocated |-> inode.allocated,
                  blocks |-> inode.blocks]
  BY DEF IsInode
<1> HIDE DEF inode
<1>3. /\ longer.id = i /\ longer.type = inode.type /\ longer.allocated = AtLeast(N, inode.allocated)
      /\ longer.blocks = inode.blocks
      /\ longer = [id |-> longer.id, type |-> longer.type, allocated |-> longer.allocated,
                   blocks |-> longer.blocks]
  BY <1>2
<1>4. longer.allocated \in 0 .. MaxInodeBlocks
  BY <1>2, <1>3, DiskAssumption DEF AtLeast
<1> HIDE DEF longer
<1>5. Written(m, longer, contents, N, end)
  BY <1>2, <1>3, BlocksWritten DEF Listed
<1> HIDE DEF end
<1>6. /\ end.inode.id = i /\ end.inode.type = inode.type
      /\ end.inode.allocated = AtLeast(N, inode.allocated)
      /\ end.inode = [id |-> i, type |-> inode.type, allocated |-> longer.allocated,
                      blocks |-> end.inode.blocks]
  <2>1. end.inode = [longer EXCEPT !.blocks = end.inode.blocks]
    BY <1>5 DEF Written
  <2> QED
    BY <1>3, <2>1
<1>7. Stored(end.m, n, end.inode)
  BY <1>5, <1>6, InodeStored DEF Written
<1> HIDE DEF n
<1>8. InodeAt(n, i) = end.inode
  BY <1>6, <1>7 DEF Stored
<1>9. IsInode(end.inode, i)
  <2>1. ASSUME NEW k \in 1 .. MaxInodeBlocks
        PROVE  end.inode.blocks[k] \in Addr
    <3>1. CASE k <= N
      <4>1. end.inode.blocks[k] \in Free(m)
        BY <1>5, <3>1 DEF Written
      <4> QED
        BY <4>1, Layout DEF Free
    <3>2. CASE ~(k <= N)
      <4>1. end.inode.blocks[k] = longer.blocks[k]
        BY <1>5, <3>2, DiskAssumption DEF Written
      <4> QED
        BY <1>2, <1>3, <4>1
    <3> QED
      BY <3>1, <3>2
  <2>2. end.inode.blocks \in [1 .. MaxInodeBlocks -> Addr]
    <3>1. end.inode.blocks = [k \in 1 .. MaxInodeBlocks |-> end.inode.blocks[k]]
      BY <1>5 DEF Written, Listed
    <3> QED
      BY <2>1, <3>1
  <2> QED
    BY <1>2, <1>4, <1>6, <2>2 DEF IsInode
<1>10. \A k \in 1 .. N :
         /\ end.inode.blocks[k] \in Free(m) /\ end.inode.blocks[k] \in DataAddr
         /\ end.inode.blocks[k] \in n.sb.blocks
         /\ n.disk[end.inode.blocks[k]] = contents[k]
  BY <1>5, <1>7 DEF Written, Stored, Free
<1>11. \A k, l \in 1 .. N : end.inode.blocks[k] = end.inode.blocks[l] => k = l
  BY <1>5 DEF Written
<1>12. \A k \in 1 .. MaxInodeBlocks : k > N => end.inode.blocks[k] = inode.blocks[k]
  BY <1>3, <1>5 DEF Written
<1>13. ASSUME NEW j \in InodeId, j # i
       PROVE  InodeAt(n, j) = InodeAt(m, j)
  <2>1. InodeAt(n, j) = InodeAt(end.m, j)
    BY <1>6, <1>7, <1>13 DEF Stored
  <2>2. InodeAddr(j) \in Addr \ Free(m)
    BY Layout DEF Free
  <2> QED
    BY <1>5, <2>1, <2>2 DEF Written, InodeAt
<1>14. ASSUME NEW a \in DataAddr, a \notin Free(m)
       PROVE  n.disk[a] = m.disk[a] /\ a \in n.sb.blocks
  <2>1. a \in Addr \ Free(m) /\ a \in m.sb.blocks
    BY <1>14, Layout DEF Free, GetBit
  <2> QED
    BY <1>5, <1>7, <2>1 DEF Written, Stored
<1>15. /\ Formed(n) /\ Same(m, n) /\ n.disk[0] = [sb |-> n.sb]
       /\ n.sb.inodes = m.sb.inodes /\ Room(n) = Room(m) - N
  BY <1>5, <1>7 DEF Written, Stored, Same, Room
<1>16. Rewrote(m, n, i, contents)
  BY <1>6, <1>8, <1>9, <1>10, <1>11, <1>12, <1>13, <1>14, <1>15 DEF Rewrote, inode
<1> QED
  BY <1>1, <1>16 DEF inode

-----------------------------------------------------------------------------
(* The disk in order                                                       *)

BlockOf(m, i, k) == InodeAt(m, i).blocks[k]

Used(m, i) == 1 .. InodeAt(m, i).allocated

(* The superblock and the inodes are what they should be; an inode in use  *)
(* has its bit.                                                            *)
Whole(m) ==
  /\ Formed(m)
  /\ \A i \in InodeId : IsInode(InodeAt(m, i), i)
  /\ \A i \in InodeId : InodeAt(m, i).type # Unallocated => i \in m.sb.inodes

(* Every block an inode has is a marked data block and its alone.          *)
Owned(m) ==
  /\ \A i \in InodeId : \A k \in Used(m, i) :
       BlockOf(m, i, k) \in DataAddr /\ BlockOf(m, i, k) \in m.sb.blocks
  /\ \A i, j \in InodeId : \A k \in Used(m, i), l \in Used(m, j) :
       BlockOf(m, i, k) = BlockOf(m, j, l) => i = j /\ k = l

(* The links of directory i: to itself first, and to the root only as "."  *)
(* or "..".                                                                *)
IsLinks(d, i) ==
  /\ IsSeq(d) /\ 1 <= Len(d) /\ Len(d) < MaxFiles
  /\ d[1] = Link(".", i)
  /\ \A k \in 1 .. Len(d) : /\ d[k].inode \in InodeId
                            /\ d[k].inode = 0 => d[k].name \in {".", ".."}

HasLinks(m, i) ==
  /\ InodeAt(m, i).allocated >= 1
  /\ HoldsDirectory(m, InodeAt(m, i))
  /\ IsLinks(ReadDir(m, InodeAt(m, i)), i)

(* Every directory but those of new can be read: they are still to get     *)
(* their links.                                                            *)
Readable(m, new) ==
  \A i \in InodeId : i \notin new /\ IsDir(InodeAt(m, i)) => HasLinks(m, i)

Good(m, new) == Whole(m) /\ Owned(m) /\ Readable(m, new)

(* Inode i and its blocks are the same in m and n.                         *)
SameAt(m, n, i) ==
  /\ InodeAt(n, i) = InodeAt(m, i)
  /\ \A k \in Used(m, i) : n.disk[BlockOf(m, i, k)] = m.disk[BlockOf(m, i, k)]

(* All inodes but those of changed are.                                    *)
Frame(m, n, changed) == \A i \in InodeId : i \notin changed => SameAt(m, n, i)

LEMMA FrameTrans ==
  ASSUME NEW m, NEW n, NEW o, NEW P, NEW Q, Frame(m, n, P), Frame(n, o, Q)
  PROVE  Frame(m, o, P \cup Q)
<1>1. ASSUME NEW i \in InodeId, i \notin P \cup Q
      PROVE  SameAt(m, o, i)
  <2>1. SameAt(m, n, i) /\ SameAt(n, o, i)
    BY <1>1 DEF Frame
  <2> QED
    BY <2>1 DEF SameAt, Used, BlockOf
<1> QED
  BY <1>1 DEF Frame

LEMMA FrameSame ==
  ASSUME NEW m, NEW P
  PROVE  Frame(m, m, P)
BY DEF Frame, SameAt

LEMMA FrameMore ==
  ASSUME NEW m, NEW n, NEW P, NEW Q, Frame(m, n, P), P \subseteq Q
  PROVE  Frame(m, n, Q)
BY DEF Frame

LEMMA SameRead ==
  ASSUME NEW m, NEW n, NEW i, SameAt(m, n, i), InodeAt(m, i).allocated \in Nat \ {0}
  PROVE  /\ HoldsDirectory(n, InodeAt(n, i)) <=> HoldsDirectory(m, InodeAt(m, i))
         /\ ReadDir(n, InodeAt(n, i)) = ReadDir(m, InodeAt(m, i))
<1>1. 1 \in Used(m, i)
  BY DEF Used
<1>2. InodeAt(n, i) = InodeAt(m, i) /\ n.disk[InodeAt(m, i).blocks[1]] = m.disk[InodeAt(m, i).blocks[1]]
  BY <1>1 DEF SameAt, BlockOf
<1> QED
  BY <1>2 DEF HoldsDirectory, ReadDir

LEMMA SameLinks ==
  ASSUME NEW m, NEW n, NEW i, SameAt(m, n, i), HasLinks(m, i), MaxInodeBlocks \in Nat,
         InodeAt(m, i).allocated \in 0 .. MaxInodeBlocks
  PROVE  HasLinks(n, i) /\ ReadDir(n, InodeAt(n, i)) = ReadDir(m, InodeAt(m, i))
<1>1. 1 \in Used(m, i)
  BY DEF HasLinks, Used
<1>2. InodeAt(n, i) = InodeAt(m, i) /\ n.disk[InodeAt(m, i).blocks[1]] = m.disk[InodeAt(m, i).blocks[1]]
  BY <1>1 DEF SameAt, BlockOf
<1> QED
  BY <1>2 DEF HasLinks, HoldsDirectory, ReadDir

(* A step of the file system that changes inode p only: what p has then    *)
(* was its before or nobody's.                                             *)
Touched(m, n, p) ==
  /\ Formed(n) /\ IsInode(InodeAt(n, p), p)
  /\ InodeAt(n, p).type # Unallocated => p \in n.sb.inodes
  /\ \A i \in InodeId : i # p => (i \in m.sb.inodes => i \in n.sb.inodes)
  /\ Frame(m, n, {p})
  /\ \A i \in InodeId : i # p => \A k \in Used(m, i) : BlockOf(m, i, k) \in n.sb.blocks
  /\ \A k \in Used(n, p) :
       /\ BlockOf(n, p, k) \in DataAddr /\ BlockOf(n, p, k) \in n.sb.blocks
       /\ \/ BlockOf(n, p, k) \notin m.sb.blocks
          \/ k \in Used(m, p) /\ BlockOf(n, p, k) = BlockOf(m, p, k)
  /\ \A k, l \in Used(n, p) : BlockOf(n, p, k) = BlockOf(n, p, l) => k = l

LEMMA TouchedGood ==
  ASSUME NEW m, NEW n, NEW p \in InodeId, NEW new, Good(m, new), Touched(m, n, p)
  PROVE  Good(n, new \cup {p})
<1>1. \A i \in InodeId : i # p => SameAt(m, n, i) /\ InodeAt(n, i) = InodeAt(m, i)
  BY DEF Touched, Frame, SameAt
<1>2. Whole(n)
  BY <1>1 DEF Touched, Good, Whole
<1>3. ASSUME NEW i \in InodeId, NEW k \in Used(n, i)
      PROVE  BlockOf(n, i, k) \in DataAddr /\ BlockOf(n, i, k) \in n.sb.blocks
  <2>1. CASE i = p
    BY <1>3, <2>1 DEF Touched
  <2>2. CASE i # p
    BY <1>1, <1>3, <2>2 DEF Touched, Good, Owned, Used, BlockOf
  <2> QED
    BY <2>1, <2>2
(* A block of p is not another inode's.                                    *)
<1>4. ASSUME NEW i \in InodeId, i # p, NEW k \in Used(n, i), NEW l \in Used(n, p)
      PROVE  BlockOf(n, i, k) # BlockOf(n, p, l)
  <2>1. k \in Used(m, i) /\ BlockOf(n, i, k) = BlockOf(m, i, k)
    BY <1>1, <1>4 DEF Used, BlockOf
  <2>2. BlockOf(m, i, k) \in m.sb.blocks
    BY <2>1 DEF Good, Owned
  <2>3. CASE BlockOf(n, p, l) \notin m.sb.blocks
    BY <2>1, <2>2, <2>3
  <2>4. CASE l \in Used(m, p) /\ BlockOf(n, p, l) = BlockOf(m, p, l)
    BY <1>4, <2>1, <2>4 DEF Good, Owned
  <2> QED
    BY <2>3, <2>4 DEF Touched
<1>5. ASSUME NEW i \in InodeId, NEW j \in InodeId, NEW k \in Used(n, i), NEW l \in Used(n, j),
             BlockOf(n, i, k) = BlockOf(n, j, l)
      PROVE  i = j /\ k = l
  <2>1. CASE i = p /\ j = p
    BY <1>5, <2>1 DEF Touched
  <2>2. CASE i = p /\ j # p
    BY <1>4, <1>5, <2>2
  <2>3. CASE i # p /\ j = p
    BY <1>4, <1>5, <2>3
  <2>4. CASE i # p /\ j # p
    BY <1>1, <1>5, <2>4 DEF Good, Owned, Used, BlockOf
  <2> QED
    BY <2>1, <2>2, <2>3, <2>4
<1>6. Owned(n)
  BY <1>3, <1>5 DEF Owned
<1>7. ASSUME NEW i \in InodeId, i \notin new \cup {p}, IsDir(InodeAt(n, i))
      PROVE  HasLinks(n, i)
  <2>1. SameAt(m, n, i) /\ IsDir(InodeAt(m, i))
    BY <1>1, <1>7
  <2>2. HasLinks(m, i) /\ InodeAt(m, i).allocated \in 0 .. MaxInodeBlocks
    BY <1>7, <2>1 DEF Good, Readable, Whole, IsInode
  <2> QED
    BY <2>1, <2>2, SameLinks, DiskAssumption
<1> QED
  BY <1>2, <1>6, <1>7 DEF Good, Readable

LEMMA RewroteTouched ==
  ASSUME FilesAsMeant, NEW m, NEW new, Good(m, new), NEW n, NEW i \in InodeId, NEW contents,
         Len(contents) \in Nat, Len(contents) <= MaxInodeBlocks, Rewrote(m, n, i, contents)
  PROVE  Touched(m, n, i)
<1> DEFINE N == Len(contents)
<1>1. /\ InodeAt(m, i).allocated \in 0 .. MaxInodeBlocks /\ MaxInodeBlocks \in Nat
      /\ InodeAt(n, i).allocated = AtLeast(N, InodeAt(m, i).allocated)
      /\ N \in Nat
  BY DiskAssumption DEF Good, Whole, IsInode, Rewrote
<1>2. InodeAt(n, i).allocated \in 0 .. MaxInodeBlocks
  BY <1>1 DEF AtLeast
<1>3. ASSUME NEW j \in InodeId, NEW k \in Used(m, j)
      PROVE  /\ BlockOf(m, j, k) \in DataAddr /\ BlockOf(m, j, k) \in m.sb.blocks
             /\ n.disk[BlockOf(m, j, k)] = m.disk[BlockOf(m, j, k)]
             /\ BlockOf(m, j, k) \in n.sb.blocks
  <2>1. BlockOf(m, j, k) \in DataAddr /\ BlockOf(m, j, k) \in m.sb.blocks
    BY DEF Good, Owned
  <2>2. BlockOf(m, j, k) \notin Free(m)
    BY <2>1 DEF Free, GetBit
  <2> QED
    BY <2>1, <2>2 DEF Rewrote
<1>4. ASSUME NEW j \in InodeId, j # i
      PROVE  SameAt(m, n, j)
  BY <1>3, <1>4 DEF Rewrote, SameAt
<1>5. ASSUME NEW k \in Used(n, i)
      PROVE  \/ /\ k \in 1 .. N
                /\ BlockOf(n, i, k) \in DataAddr /\ BlockOf(n, i, k) \in n.sb.blocks
                /\ BlockOf(n, i, k) \notin m.sb.blocks
             \/ /\ k \in Used(m, i) /\ k > N
                /\ BlockOf(n, i, k) = BlockOf(m, i, k)
  <2>1. k \in Nat /\ k >= 1 /\ k <= InodeAt(n, i).allocated
    BY <1>2 DEF Used
  <2>2. CASE k <= N
    <3>1. k \in 1 .. N
      BY <2>1, <2>2
    <3> QED
      BY <3>1 DEF Rewrote, BlockOf, Free, GetBit
  <2>3. CASE ~(k <= N)
    <3>1. k \in Used(m, i) /\ k > N /\ k \in 1 .. MaxInodeBlocks
      BY <1>1, <2>1, <2>3 DEF Used, AtLeast
    <3> QED
      BY <3>1 DEF Rewrote, BlockOf
  <2> QED
    BY <2>2, <2>3
<1>6. ASSUME NEW k \in Used(n, i), NEW l \in Used(n, i), BlockOf(n, i, k) = BlockOf(n, i, l)
      PROVE  k = l
  <2>1. CASE k \in 1 .. N /\ l \in 1 .. N
    BY <1>6, <2>1 DEF Rewrote, BlockOf
  <2>2. CASE k \in Used(m, i) /\ l \in Used(m, i) /\ k > N /\ l > N
    <3>1. BlockOf(n, i, k) = BlockOf(m, i, k) /\ BlockOf(n, i, l) = BlockOf(m, i, l)
      BY <1>1, <1>5, <2>2
    <3>2. Owned(m) /\ BlockOf(m, i, k) = BlockOf(m, i, l)
      BY <1>6, <3>1 DEF Good
    <3> QED
      BY <2>2, <3>2 DEF Owned
  <2>3. CASE k \in 1 .. N /\ l \in Used(m, i) /\ l > N
    <3>1. BlockOf(n, i, k) \notin m.sb.blocks /\ BlockOf(n, i, l) = BlockOf(m, i, l)
      BY <1>1, <1>5, <2>3
    <3> QED
      BY <1>3, <1>6, <2>3, <3>1
  <2>4. CASE k \in Used(m, i) /\ k > N /\ l \in 1 .. N
    <3>1. BlockOf(n, i, l) \notin m.sb.blocks
      BY <1>1, <1>5, <2>4
    <3>2. k \notin 1 .. N
      BY <1>1, <2>4
    <3>3. BlockOf(n, i, k) = BlockOf(m, i, k)
      BY <1>5, <3>2
    <3> QED
      BY <1>3, <1>6, <2>4, <3>1, <3>3
  <2> QED
    BY <1>5, <2>1, <2>2, <2>3, <2>4
<1>7. \A k \in Used(n, i) :
        /\ BlockOf(n, i, k) \in DataAddr /\ BlockOf(n, i, k) \in n.sb.blocks
        /\ \/ BlockOf(n, i, k) \notin m.sb.blocks
           \/ k \in Used(m, i) /\ BlockOf(n, i, k) = BlockOf(m, i, k)
  <2>1. ASSUME NEW k \in Used(n, i)
        PROVE  /\ BlockOf(n, i, k) \in DataAddr /\ BlockOf(n, i, k) \in n.sb.blocks
               /\ \/ BlockOf(n, i, k) \notin m.sb.blocks
                  \/ k \in Used(m, i) /\ BlockOf(n, i, k) = BlockOf(m, i, k)
    <3>1. CASE k \in Used(m, i) /\ BlockOf(n, i, k) = BlockOf(m, i, k)
      BY <1>3, <3>1
    <3> QED
      BY <1>5, <3>1
  <2> QED
    BY <2>1
<1>8. Frame(m, n, {i})
  BY <1>4 DEF Frame
<1>9. InodeAt(n, i).type # Unallocated => i \in n.sb.inodes
  BY DEF Rewrote, Good, Whole
<1>10. Formed(n) /\ IsInode(InodeAt(n, i), i) /\ n.sb.inodes = m.sb.inodes
  BY DEF Rewrote
<1> QED
  BY <1>3, <1>6, <1>7, <1>8, <1>9, <1>10 DEF Touched

-----------------------------------------------------------------------------
(* Making and deleting inodes                                              *)

MadeInode(m, c, type) ==
  /\ c.id \in InodeId /\ c.id \notin m.sb.inodes
  /\ Touched(m, c.m, c.id) /\ Same(m, c.m)
  /\ InodeAt(c.m, c.id).type = type
  /\ InodeAt(c.m, c.id).allocated = 0
  /\ c.m.sb.inodes = m.sb.inodes \cup {c.id}
  /\ Room(c.m) = Room(m)

LEMMA FreeInodeFacts ==
  ASSUME NEW m
  PROVE  \/ FreeInodeId(m) = -1
         \/ FreeInodeId(m) \in InodeId /\ FreeInodeId(m) \notin m.sb.inodes
<1> DEFINE free == {id \in InodeId : ~GetBit(m.sb.inodes, id)}
<1>1. free \subseteq Nat
  BY InodeNumFacts DEF InodeId
<1>2. free # {} => Min(free) \in free
  BY <1>1, MinOfSet
<1>3. FreeInodeId(m) = IF free = {} THEN -1 ELSE Min(free)
  BY DEF FreeInodeId
<1> QED
  BY <1>2, <1>3 DEF GetBit

LEMMA InodeMade ==
  ASSUME FilesAsMeant, NEW m, NEW new, Good(m, new), NEW type \in InodeType
  PROVE  \/ /\ CreateInodeType(m, type, Blank).id = -1
            /\ CreateInodeType(m, type, Blank).m = m
         \/ MadeInode(m, CreateInodeType(m, type, Blank), type)
<1> DEFINE c == CreateInodeType(m, type, Blank)
           id == FreeInodeId(m)
           l == [m EXCEPT !.sb.inodes = SetBit(@, id)]
           inode == [Blank.inode EXCEPT !.id = id, !.type = type]
           n == WriteInode(l, inode)
<1>1. CASE id = -1
  BY <1>1 DEF CreateInodeType
<1>2. CASE id # -1
  <2>1. c.m = n /\ c.id = id
    BY <1>2 DEF CreateInodeType
  <2>2. id \in InodeId /\ id \in Addr /\ id \notin m.sb.inodes
    BY <1>2, FreeInodeFacts, Layout
  <2> HIDE DEF id, c
  <2>3. Formed(m) /\ DOMAIN m = Fields /\ DOMAIN m.sb = SbFields
    BY DEF Good, Whole, Formed, Shape
  <2>4. SetBit(m.sb.inodes, id) = m.sb.inodes \cup {id}
    BY <2>2, Bits
  <2>5. /\ l.disk = m.disk /\ l.seen = m.seen /\ DOMAIN l = Fields /\ Same(m, l)
        /\ DOMAIN l.sb = SbFields /\ l.sb.num = m.sb.num /\ l.sb.blocks = m.sb.blocks
        /\ l.sb.inodes = m.sb.inodes \cup {id}
    BY <2>3, <2>4 DEF Fields, SbFields, Same
  <2>6. Formed(l)
    BY <2>2, <2>3, <2>5 DEF Formed, Shape
  <2> HIDE DEF l
  <2> DEFINE z == 0
             zeros == [k \in 1 .. MaxInodeBlocks |-> 0]
  <2>0. Blank.inode = [id |-> z, type |-> Unallocated, allocated |-> z, blocks |-> zeros]
    BY DEF Blank, NewInode
  <2> HIDE DEF z, zeros
  <2> DEFINE numbered == [Blank.inode EXCEPT !.id = id]
  <2>16. numbered = [id |-> id, type |-> Unallocated, allocated |-> z, blocks |-> zeros]
    BY <2>0
  <2> HIDE DEF numbered
  <2>18. inode = [numbered EXCEPT !.type = type]
    BY DEF numbered
  <2> HIDE DEF inode
  <2>17. inode = [id |-> id, type |-> type, allocated |-> z, blocks |-> zeros]
    BY <2>16, <2>18
  <2>7. /\ inode.id = id /\ inode.type = type /\ inode.allocated = 0
        /\ inode = [id |-> id, type |-> type, allocated |-> 0, blocks |-> zeros]
    BY <2>17 DEF z
  <2>8. IsInode(inode, id)
    <3>1. zeros \in [1 .. MaxInodeBlocks -> Addr]
      BY ZeroIsAddr DEF zeros
    <3> QED
      BY <2>7, <3>1, DiskAssumption DEF IsInode
  <2>9. Stored(l, n, inode)
    BY <2>2, <2>6, <2>7, InodeStored
  <2> HIDE DEF n
  <2>10. InodeAt(n, id) = inode
    BY <2>7, <2>9 DEF Stored
  <2>11. ASSUME NEW j \in InodeId, j # id
         PROVE  InodeAt(n, j) = InodeAt(m, j)
    BY <2>5, <2>7, <2>9, <2>11 DEF Stored, InodeAt
  <2>12. ASSUME NEW j \in InodeId, NEW k \in Used(m, j)
         PROVE  /\ n.disk[BlockOf(m, j, k)] = m.disk[BlockOf(m, j, k)]
                /\ BlockOf(m, j, k) \in n.sb.blocks
    <3>1. BlockOf(m, j, k) \in DataAddr /\ BlockOf(m, j, k) \in m.sb.blocks
      BY DEF Good, Owned
    <3> QED
      BY <2>5, <2>9, <3>1 DEF Stored
  <2>13. Frame(m, n, {id})
    BY <2>11, <2>12 DEF Frame, SameAt
  <2>14. Used(n, id) = {}
    BY <2>7, <2>10 DEF Used
  <2>15. Formed(n) /\ Same(m, n) /\ n.sb.inodes = m.sb.inodes \cup {id} /\ Room(n) = Room(m)
    BY <2>5, <2>9 DEF Stored, Same, Room, Free
  <2>19. Touched(m, n, id)
    BY <2>8, <2>10, <2>12, <2>13, <2>14, <2>15 DEF Touched
  <2> QED
    BY <2>1, <2>2, <2>7, <2>10, <2>15, <2>19 DEF MadeInode, c
<1> QED
  BY <1>1, <1>2

(* Nobody else's blocks are those inode i had before p was changed.        *)
LEMMA Unshared ==
  ASSUME NEW m, NEW new, Good(m, new), NEW n, NEW p \in InodeId, Touched(m, n, p),
         NEW i \in InodeId, NEW j \in InodeId, j # i, NEW k \in Used(m, i), NEW l \in Used(n, j)
  PROVE  BlockOf(n, j, l) # BlockOf(m, i, k)
<1>1. BlockOf(m, i, k) \in m.sb.blocks
  BY DEF Good, Owned
<1>2. CASE j # p
  <2>1. l \in Used(m, j) /\ BlockOf(n, j, l) = BlockOf(m, j, l)
    BY <1>2 DEF Touched, Frame, SameAt, Used, BlockOf
  <2> QED
    BY <2>1 DEF Good, Owned
<1>3. CASE j = p
  <2>1. CASE BlockOf(n, p, l) \notin m.sb.blocks
    BY <1>1, <1>3, <2>1
  <2>2. CASE l \in Used(m, p) /\ BlockOf(n, p, l) = BlockOf(m, p, l)
    BY <1>3, <2>2 DEF Good, Owned
  <2> QED
    BY <1>3, <2>1, <2>2 DEF Touched
<1> QED
  BY <1>2, <1>3

Deleted(m, n, i) ==
  /\ Touched(m, n, i) /\ Same(m, n)
  /\ InodeAt(n, i) = NewInode(i)
  /\ n.sb.inodes = m.sb.inodes \ {i}
  /\ Room(n) >= Room(m)

LEMMA InodeDeleted ==
  ASSUME FilesAsMeant, NEW m, NEW new, Good(m, new), NEW i \in InodeId, NEW inode, inode.id = i,
         \A j \in InodeId : j # i => \A k \in Used(m, j) :
            BlockOf(m, j, k) \notin {inode.blocks[l] : l \in 1 .. inode.allocated}
  PROVE  Deleted(m, DeleteInode(m, inode), i)
<1> DEFINE B == {inode.blocks[k] : k \in 1 .. inode.allocated}
           l == [m EXCEPT !.sb.blocks = {a \in @ : a \notin B}, !.sb.inodes = ClearBit(@, i)]
           fresh == NewInode(i)
           n == WriteInode(l, fresh)
<1>1. DeleteInode(m, inode) = n
  BY DEF DeleteInode
<1>2. \A j \in InodeId : j # i => \A k \in Used(m, j) : BlockOf(m, j, k) \notin B
  OBVIOUS
<1> HIDE DEF B
<1>3. Formed(m) /\ DOMAIN m = Fields /\ DOMAIN m.sb = SbFields
  BY DEF Good, Whole, Formed, Shape
<1>4. /\ l.disk = m.disk /\ l.seen = m.seen /\ DOMAIN l = Fields /\ Same(m, l)
      /\ DOMAIN l.sb = SbFields /\ l.sb.num = m.sb.num
      /\ l.sb.blocks = {a \in m.sb.blocks : a \notin B}
      /\ l.sb.inodes = m.sb.inodes \ {i}
  <2> DEFINE left == {a \in m.sb.blocks : a \notin B}
             ids == ClearBit(m.sb.inodes, i)
             s == [m.sb EXCEPT !.blocks = left]
             t == [s EXCEPT !.inodes = ids]
             y == [m EXCEPT !.sb = s]
  <2>1. y = [m EXCEPT !.sb.blocks = left] /\ y.sb = s /\ DOMAIN y = Fields
    BY <1>3 DEF Fields
  <2>2. l = [y EXCEPT !.sb.inodes = ClearBit(@, i)]
    BY <2>1
  <2>3. s.inodes = m.sb.inodes /\ s.blocks = left /\ s.num = m.sb.num /\ DOMAIN s = SbFields
    BY <1>3 DEF SbFields
  <2>4. ids = m.sb.inodes \ {i}
    BY DEF ClearBit
  <2>5. /\ y.disk = m.disk /\ y.seen = m.seen /\ y.root = m.root /\ y.open = m.open
        /\ y.held = m.held
    BY <1>3 DEF Fields
  <2> HIDE DEF l, y, s, left
  <2>6. ClearBit(s.inodes, i) = ids
    BY <2>3
  <2> HIDE DEF ids
  <2>7. l = [y EXCEPT !.sb = t]
    BY <2>1, <2>2, <2>6
  <2>8. t.inodes = ids /\ t.blocks = left /\ t.num = m.sb.num /\ DOMAIN t = SbFields
    BY <2>3 DEF SbFields
  <2> HIDE DEF t
  <2>9. /\ l.sb = t /\ l.disk = y.disk /\ l.seen = y.seen /\ l.root = y.root /\ l.open = y.open
        /\ l.held = y.held /\ DOMAIN l = Fields
    BY <2>1, <2>7 DEF Fields
  <2> QED
    BY <2>4, <2>5, <2>8, <2>9 DEF Same, left
<1>5. Formed(l)
  BY <1>3, <1>4 DEF Formed, Shape
<1> HIDE DEF l
<1>6. fresh.id = i /\ fresh.type = Unallocated /\ fresh.allocated = 0
  BY DEF NewInode
<1>7. IsInode(fresh, i)
  <2>1. [k \in 1 .. MaxInodeBlocks |-> 0] \in [1 .. MaxInodeBlocks -> Addr]
    BY ZeroIsAddr
  <2> QED
    BY <2>1, DiskAssumption DEF IsInode, NewInode, InodeType
<1> HIDE DEF fresh
<1>8. Stored(l, n, fresh)
  BY <1>5, <1>6, InodeStored
<1> HIDE DEF n
<1>9. InodeAt(n, i) = fresh
  BY <1>6, <1>8 DEF Stored
<1>10. ASSUME NEW j \in InodeId, j # i
       PROVE  /\ SameAt(m, n, j)
              /\ \A k \in Used(m, j) : BlockOf(m, j, k) \in n.sb.blocks
  <2>1. InodeAt(n, j) = InodeAt(m, j)
    BY <1>4, <1>6, <1>8, <1>10 DEF Stored, InodeAt
  <2>2. ASSUME NEW k \in Used(m, j)
        PROVE  /\ n.disk[BlockOf(m, j, k)] = m.disk[BlockOf(m, j, k)]
               /\ BlockOf(m, j, k) \in n.sb.blocks
    <3>1. BlockOf(m, j, k) \in DataAddr /\ BlockOf(m, j, k) \in m.sb.blocks
      BY DEF Good, Owned
    <3>2. BlockOf(m, j, k) \in l.sb.blocks
      BY <1>2, <1>4, <1>10, <3>1
    <3> QED
      BY <1>4, <1>8, <3>1, <3>2 DEF Stored
  <2> QED
    BY <2>1, <2>2 DEF SameAt
<1>11. Frame(m, n, {i})
  BY <1>10 DEF Frame
<1>12. Used(n, i) = {}
  BY <1>6, <1>9 DEF Used
<1>13. Formed(n) /\ Same(m, n) /\ n.sb.inodes = m.sb.inodes \ {i}
  BY <1>4, <1>8 DEF Stored, Same
<1>14. Room(n) >= Room(m)
  <2>1. Free(m) \subseteq Free(n)
    BY <1>4, <1>8 DEF Stored, Free, GetBit
  <2> QED
    BY <2>1, FreeFacts, FS_Subset DEF Room
<1>15. Touched(m, n, i)
  BY <1>6, <1>7, <1>9, <1>10, <1>11, <1>12, <1>13 DEF Touched
<1> QED
  BY <1>1, <1>9, <1>13, <1>14, <1>15 DEF Deleted, fresh

-----------------------------------------------------------------------------
(* Directories                                                             *)

LEMMA PartsFacts ==
  ASSUME NEW d
  PROVE  /\ Len(DirectoryParts(d)) = DirectoryBlocks
         /\ DirectoryParts(d)[1] = [dir |-> d, part |-> 1]
<1> DEFINE parts == DirectoryParts(d)
<1>1. DirectoryBlocks \in Nat \ {0}
  BY DiskAssumption
<1>2. parts \in [1 .. DirectoryBlocks -> {parts[k] : k \in 1 .. DirectoryBlocks}]
  BY DEF DirectoryParts
<1>3. parts[1] = [dir |-> d, part |-> 1]
  BY <1>1 DEF DirectoryParts
<1> HIDE DEF parts
<1>4. Len(parts) = DirectoryBlocks
  <2>1. parts \in Seq({parts[k] : k \in 1 .. DirectoryBlocks})
    BY <1>1, <1>2, SeqDef
  <2>2. DOMAIN parts = 1 .. DirectoryBlocks
    BY <1>2
  <2> QED
    BY <1>1, <2>1, <2>2, LenProperties
<1> QED
  BY <1>3, <1>4 DEF parts

DirPut(m, n, i, d) ==
  /\ Touched(m, n, i) /\ Same(m, n)
  /\ n.sb.inodes = m.sb.inodes
  /\ Room(n) = Room(m) - DirectoryBlocks
  /\ InodeAt(n, i).type = InodeAt(m, i).type
  /\ InodeAt(n, i).allocated >= 1
  /\ HoldsDirectory(n, InodeAt(n, i))
  /\ ReadDir(n, InodeAt(n, i)) = d

LEMMA DirWritten ==
  ASSUME FilesAsMeant, NEW m, NEW new, Good(m, new), NEW i \in InodeId,
         NEW d, d[1].inode = i, Room(m) >= DirectoryBlocks
  PROVE  DirPut(m, WriteDir(m, d), i, d)
<1> DEFINE parts == DirectoryParts(d)
           n == WriteToInode(m, InodeAt(m, i), parts)
<1>1. WriteDir(m, d) = n
  BY DEF WriteDir
<1>2. Len(parts) = DirectoryBlocks /\ parts[1] = [dir |-> d, part |-> 1]
  BY PartsFacts
<1>3. DirectoryBlocks \in Nat \ {0} /\ MaxInodeBlocks \in Nat /\ DirectoryBlocks <= MaxInodeBlocks
  BY DiskAssumption
<1>4. Formed(m) /\ IsInode(InodeAt(m, i), i)
  BY DEF Good, Whole
<1> HIDE DEF parts
<1>5. Rewrote(m, n, i, parts)
  BY <1>2, <1>3, <1>4, InodeRewritten
<1> HIDE DEF n
<1>6. Touched(m, n, i)
  BY <1>2, <1>3, <1>5, RewroteTouched
<1>7. n.disk[InodeAt(n, i).blocks[1]] = parts[1]
  BY <1>2, <1>3, <1>5 DEF Rewrote
<1>8. HoldsDirectory(n, InodeAt(n, i)) /\ ReadDir(n, InodeAt(n, i)) = d
  BY <1>2, <1>7 DEF HoldsDirectory, ReadDir
<1>9. InodeAt(n, i).allocated >= 1
  <2>1. InodeAt(m, i).allocated \in Nat
    BY <1>3, <1>4 DEF IsInode
  <2> QED
    BY <1>2, <1>3, <1>5, <2>1 DEF Rewrote, AtLeast
<1> QED
  BY <1>1, <1>2, <1>5, <1>6, <1>8, <1>9 DEF DirPut, Rewrote

LEMMA LinkedGood ==
  ASSUME NEW n, NEW new, NEW i, Good(n, new \cup {i}), HasLinks(n, i)
  PROVE  Good(n, new \ {i})
BY DEF Good, Readable

LEMMA DirPutGood ==
  ASSUME NEW m, NEW new, Good(m, new), NEW n, NEW i \in InodeId, NEW d, DirPut(m, n, i, d),
         IsLinks(d, i)
  PROVE  Good(n, new \ {i})
<1>1. Good(n, new \cup {i})
  BY TouchedGood DEF DirPut
<1>2. HasLinks(n, i)
  BY DEF DirPut, HasLinks
<1> QED
  BY <1>1, <1>2, LinkedGood

LEMMA LinkAdded ==
  ASSUME NEW d, NEW i, IsLinks(d, i), Len(d) + 1 < MaxFiles, NEW name, NEW id \in InodeId, id # 0
  PROVE  IsLinks(Append(d, Link(name, id)), i)
<1> DEFINE l == Link(name, id)
           e == Append(d, l)
<1>1. l.inode = id
  BY DEF Link
<1> HIDE DEF l
<1>2. /\ IsSeq(e) /\ Len(e) = Len(d) + 1 /\ e[Len(d) + 1] = l
      /\ \A k \in 1 .. Len(d) : e[k] = d[k]
  BY AppendSeq DEF IsLinks
<1>3. Len(d) \in Nat /\ Len(d) >= 1
  BY LenOf DEF IsLinks
<1> HIDE DEF e
<1>4. ASSUME NEW k \in 1 .. Len(e)
      PROVE  e[k].inode \in InodeId /\ (e[k].inode = 0 => e[k].name \in {".", ".."})
  <2>1. CASE k = Len(d) + 1
    BY <1>1, <1>2, <2>1
  <2>2. CASE k # Len(d) + 1
    <3>1. k \in 1 .. Len(d)
      BY <1>2, <1>3, <2>2
    <3> QED
      BY <1>2, <3>1 DEF IsLinks
  <2> QED
    BY <2>1, <2>2
<1>5. e[1] = Link(".", i)
  BY <1>2, <1>3 DEF IsLinks
<1>6. IsLinks(e, i)
  BY <1>2, <1>3, <1>4, <1>5 DEF IsLinks
<1> QED
  BY <1>6 DEF e, l

LEMMA LinksToFacts ==
  ASSUME NEW d, Len(d) \in Nat, NEW name, LinksTo(d, name) # {}
  PROVE  /\ Min(LinksTo(d, name)) \in 1 .. Len(d)
         /\ d[Min(LinksTo(d, name))].name = name
         /\ \A k \in 1 .. Len(d) : d[k].name = name => Min(LinksTo(d, name)) <= k
<1>1. LinksTo(d, name) \subseteq Nat
  BY DEF LinksTo
<1>2. /\ Min(LinksTo(d, name)) \in LinksTo(d, name)
      /\ \A y \in LinksTo(d, name) : Min(LinksTo(d, name)) <= y
  BY <1>1, MinOfSet
<1> QED
  BY <1>2 DEF LinksTo

LEMMA LinkDeleted ==
  ASSUME NEW d, NEW i, IsLinks(d, i), NEW name, name # "."
  PROVE  IsLinks(DeleteFileLink(d, name), i)
<1>0. IsSeq(d) /\ Len(d) \in Nat /\ Len(d) < MaxFiles /\ d[1] = Link(".", i) /\ MaxFiles \in Nat
  BY LenOf, DiskAssumption DEF IsLinks
<1>1. CASE LinksTo(d, name) = {}
  BY <1>1 DEF DeleteFileLink
<1>2. CASE LinksTo(d, name) # {}
  <2> DEFINE j == Min(LinksTo(d, name))
             e == RemoveAt(d, j)
  <2>1. j \in 1 .. Len(d) /\ d[j].name = name
    BY <1>0, <1>2, LinksToFacts
  <2>2. DeleteFileLink(d, name) = e
    BY <1>2 DEF DeleteFileLink
  <2> HIDE DEF j
  <2>3. j # 1
    BY <1>0, <2>1 DEF Link
  <2>4. Removed(d, e, j)
    BY <1>0, <2>1, RemoveSeq
  <2> HIDE DEF e
  <2>5. IsSeq(e) /\ Len(e) = Len(d) - 1
    BY <2>4 DEF Removed
  <2>6. ASSUME NEW k \in 1 .. Len(e)
        PROVE  e[k].inode \in InodeId /\ (e[k].inode = 0 => e[k].name \in {".", ".."})
    <3>1. e[k] = d[k] \/ e[k] = d[k + 1]
      BY <2>4 DEF Removed
    <3>2. k \in 1 .. Len(d) /\ k + 1 \in 1 .. Len(d)
      BY <1>0, <2>5
    <3> QED
      BY <3>1, <3>2 DEF IsLinks
  <2>7. e[1] = d[1] /\ 1 <= Len(e)
    <3>1. 1 \in 1 .. Len(e) /\ 1 < j
      BY <1>0, <2>1, <2>3, <2>5
    <3> QED
      BY <2>4, <3>1 DEF Removed
  <2>8. Len(e) < MaxFiles
    BY <1>0, <2>5
  <2> QED
    BY <1>0, <2>2, <2>5, <2>6, <2>7, <2>8 DEF IsLinks
<1> QED
  BY <1>1, <1>2

LEMMA LookupFacts ==
  ASSUME NEW d, NEW i, IsLinks(d, i) \/ d = <<>>, NEW name
  PROVE  /\ DirectoryLookup(d, name) \in InodeId \cup {-1}
         /\ DirectoryLookup(d, name) = 0 => name \in {".", ".."}
<1>1. CASE LinksTo(d, name) = {}
  BY <1>1 DEF DirectoryLookup
<1>2. CASE LinksTo(d, name) # {}
  <2>1. CASE d = <<>>
    BY <1>2, <2>1, EmptyIsSeq DEF LinksTo
  <2>2. CASE IsLinks(d, i)
    <3> DEFINE j == Min(LinksTo(d, name))
    <3>1. Len(d) \in Nat
      BY <2>2, LenOf DEF IsLinks
    <3>2. j \in 1 .. Len(d) /\ d[j].name = name
      BY <1>2, <3>1, LinksToFacts
    <3>3. DirectoryLookup(d, name) = d[j].inode
      BY <1>2 DEF DirectoryLookup
    <3> HIDE DEF j
    <3> QED
      BY <2>2, <3>2, <3>3 DEF IsLinks
  <2> QED
    BY <2>1, <2>2
<1> QED
  BY <1>1, <1>2

-----------------------------------------------------------------------------
(* Paths                                                                   *)

Rooted(m) == 0 \in m.sb.inodes /\ IsDir(InodeAt(m, 0)) /\ IsLinks(m.root, 0)

Ready(m) == Good(m, {}) /\ Rooted(m)

(* The links d are those of a directory, or there are none.                *)
KnownDir(m, d) ==
  \/ d = <<>>
  \/ \E i \in InodeId : /\ IsDir(InodeAt(m, i)) /\ IsLinks(d, i)
                        /\ d = ReadDir(m, InodeAt(m, i)) \/ (i = 0 /\ d = m.root)

KnownInode(m, inode) == inode = Blank.inode \/ \E j \in InodeId \ {0} : inode = InodeAt(m, j)

LEMMA BlankIsNoDir == ~IsDir(Blank.inode) /\ Blank.dir = <<>>
<1>1. Blank.inode.type = Unallocated
  BY DEF Blank, NewInode
<1>2. Blank.dir = <<>>
  BY DEF Blank
<1> QED
  BY <1>1, <1>2 DEF IsDir, Unallocated, Directory

LEMMA InodeOrFacts ==
  ASSUME NEW m, NEW id \in (InodeId \ {0}) \cup {-1}, NEW before, KnownInode(m, before)
  PROVE  KnownInode(m, InodeOr(m, id, before))
<1>1. CASE id = -1
  BY <1>1 DEF InodeOr
<1>2. CASE id # -1
  BY <1>2 DEF InodeOr, KnownInode
<1> QED
  BY <1>1, <1>2

LEMMA DirOrFacts ==
  ASSUME NEW m, Ready(m), NEW inode, KnownInode(m, inode), NEW before, KnownDir(m, before)
  PROVE  KnownDir(m, DirOr(m, inode, before))
<1>1. CASE ~IsDir(inode)
  BY <1>1 DEF DirOr
<1>2. CASE IsDir(inode)
  <2>1. PICK j \in InodeId : inode = InodeAt(m, j)
    BY <1>2, BlankIsNoDir DEF KnownInode
  <2>2. HasLinks(m, j)
    BY <1>2, <2>1 DEF Ready, Good, Readable
  <2>3. IsLinks(ReadDir(m, InodeAt(m, j)), j)
    BY <2>2 DEF HasLinks
  <2> QED
    BY <1>2, <2>1, <2>3 DEF DirOr, KnownDir
<1> QED
  BY <1>1, <1>2

LEMMA KnownLookup ==
  ASSUME NEW m, NEW d, KnownDir(m, d), NEW name, name \notin {".", ".."}
  PROVE  DirectoryLookup(d, name) \in (InodeId \ {0}) \cup {-1}
BY LookupFacts DEF KnownDir

LEMMA OneName ==
  ASSUME NEW name
  PROVE  /\ Steps(<<name>>) = <<name>> /\ <<name>>[1] = name
         /\ Len(<<name>>) = 1
BY DEF Steps

LEMMA OneStep ==
  ASSUME NEW m, NEW d, NEW path, NEW stack
  PROVE  Len(Steps(path)) = 1
           => PathToInodeId(m, d, path, stack) = Enter(m, WalkStart(d, stack), Steps(path)[1]).id
<1> DEFINE one == 1
           N == Len(Steps(path))
           Walk(w) == /\ w[0] = WalkStart(d, stack)
                      /\ \A k \in 1 .. N : w[k] = Enter(m, w[k - 1], Steps(path)[k])
                      /\ PathToInodeId(m, d, path, stack) = w[N].id
<1>1. N \in Nat => \E w : Walk(w)
  BY WalkRuns
<1> HIDE DEF N
<1>2. SUFFICES ASSUME N = one
               PROVE  PathToInodeId(m, d, path, stack)
                        = Enter(m, WalkStart(d, stack), Steps(path)[one]).id
  BY DEF N
<1>3. N \in Nat /\ one \in 1 .. N /\ one - 1 = 0
  BY <1>2
<1>4. PICK w : Walk(w)
  BY <1>1, <1>3
<1> HIDE DEF one
<1>5. w[one] = Enter(m, w[one - 1], Steps(path)[one])
  BY <1>3, <1>4
<1> QED
  BY <1>2, <1>3, <1>4, <1>5

LEMMA NameFound ==
  ASSUME NEW m, NEW d, NEW name, NEW stack
  PROVE  PathToInodeId(m, d, <<name>>, stack) = DirectoryLookup(d, name)
<1> DEFINE path == <<name>>
           start == WalkStart(d, stack)
<1>1. Steps(path)[1] = name /\ Len(Steps(path)) = 1
  BY OneName
<1> HIDE DEF path
<1>2. PathToInodeId(m, d, path, stack) = Enter(m, start, name).id
  BY <1>1, OneStep
<1>3. start.dir = d /\ start.stopped = FALSE
  BY DEF WalkStart
<1> HIDE DEF start
<1>4. Enter(m, start, name).id = DirectoryLookup(d, name)
  BY <1>3 DEF Enter
<1> QED
  BY <1>2, <1>4 DEF path

WalkFields == {"id", "inode", "stopped", "dir"}

Walking(m, w) ==
  /\ DOMAIN w = WalkFields
  /\ w.id \in (InodeId \ {0}) \cup {-1}
  /\ KnownInode(m, w.inode) /\ KnownDir(m, w.dir)

LEMMA EnterFacts ==
  ASSUME NEW m, Ready(m), NEW w, Walking(m, w), NEW name, name \notin {".", ".."}
  PROVE  Walking(m, Enter(m, w, name))
<1> DEFINE id == DirectoryLookup(w.dir, name)
           inode == InodeOr(m, id, w.inode)
           d == DirOr(m, inode, w.dir)
           r == [id |-> id, inode |-> inode, stopped |-> ~IsDir(inode), dir |-> d]
<1>1. CASE w.stopped
  <2> DEFINE e == [w EXCEPT !.id = -1]
  <2>1. Enter(m, w, name) = e
    BY <1>1 DEF Enter
  <2>2. DOMAIN e = WalkFields /\ e.id = -1 /\ e.inode = w.inode /\ e.dir = w.dir
    BY DEF Walking, WalkFields
  <2> HIDE DEF e
  <2> QED
    BY <2>1, <2>2 DEF Walking
<1>2. CASE ~w.stopped
  <2>1. Enter(m, w, name) = r
    BY <1>2 DEF Enter
  <2>2. id \in (InodeId \ {0}) \cup {-1}
    BY KnownLookup DEF Walking
  <2> HIDE DEF id
  <2>3. KnownInode(m, inode)
    BY <2>2, InodeOrFacts DEF Walking
  <2> HIDE DEF inode
  <2>4. KnownDir(m, d)
    BY <2>3, DirOrFacts DEF Walking
  <2> HIDE DEF d
  <2>5. DOMAIN r = WalkFields /\ r.id = id /\ r.inode = inode /\ r.dir = d
    BY DEF WalkFields
  <2> HIDE DEF r
  <2> QED
    BY <2>1, <2>2, <2>3, <2>4, <2>5 DEF Walking
<1> QED
  BY <1>1, <1>2

(* Directories by their names.                                             *)
Plain(path) == IsSeq(path) /\ \A k \in 1 .. Len(path) : path[k] \notin {".", ".."}

LEMMA PathsArePlain ==
  ASSUME FilesAsMeant, NEW path \in Paths
  PROVE  Plain(path)
<1>1. IsSeq(path)
  BY CallsAssumption, ASequence
<1>2. DOMAIN path = 1 .. Len(path)
  BY <1>1, LenOf
<1>3. \A k \in 1 .. Len(path) : path[k] \in Range(path)
  BY <1>2 DEF Range
<1> QED
  BY <1>1, <1>3 DEF FilesAsMeant, Plain

LEMMA DevIsPlain == Plain(<<"dev">>)
<1> DEFINE dev == "dev"
<1>1. <<dev>> \in Seq({dev}) /\ Len(<<dev>>) = 1 /\ <<dev>>[1] = dev
  OBVIOUS
<1>2. IsSeq(<<dev>>)
  BY <1>1, ASequence
<1>3. dev \notin {".", ".."}
  OBVIOUS
<1> QED
  BY <1>1, <1>2, <1>3 DEF Plain

Walked(m, path, w) ==
  /\ w[0] = WalkStart(m.root, Blank)
  /\ \A k \in 1 .. Len(path) : w[k] = Enter(m, w[k - 1], path[k])
  /\ \A k \in 0 .. Len(path) : Walking(m, w[k])
  /\ PathToInodeId(m, m.root, path, Blank) = w[Len(path)].id

LEMMA PathWalked ==
  ASSUME NEW m, Ready(m), 0 \in InodeId, NEW path, Plain(path), path # <<>>
  PROVE  \E w : Walked(m, path, w)
<1> DEFINE N == Len(path)
<1>1. N \in Nat
  BY LenOf DEF Plain
<1>2. \A k \in 1 .. N : path[k] \notin {".", ".."}
  BY DEF Plain
<1>3. PICK w : /\ w[0] = WalkStart(m.root, Blank)
               /\ \A k \in 1 .. N : w[k] = Enter(m, w[k - 1], path[k])
               /\ PathToInodeId(m, m.root, path, Blank) = w[N].id
  <2>1. Steps(path) = path
    BY DEF Steps
  <2> QED
    BY <1>1, <2>1, WalkRuns
<1> HIDE DEF N
<1> DEFINE S == {k \in 0 .. N : Walking(m, w[k])}
<1>4. 0 \in S
  <2>1. KnownDir(m, m.root)
    BY DEF Ready, Rooted, KnownDir
  <2>2. Walking(m, WalkStart(m.root, Blank))
    BY <2>1 DEF WalkStart, Walking, WalkFields, KnownInode
  <2> QED
    BY <1>1, <1>3, <2>2
<1>5. ASSUME NEW k \in 0 .. N - 1, k \in S
      PROVE  k + 1 \in S
  <2>1. k + 1 \in 1 .. N /\ (k + 1) - 1 = k
    BY <1>1
  <2>2. w[k + 1] = Enter(m, w[(k + 1) - 1], path[k + 1])
    BY <1>3, <2>1
  <2>3. Walking(m, Enter(m, w[k], path[k + 1]))
    BY <1>2, <1>5, <2>1, EnterFacts
  <2> QED
    BY <2>1, <2>2, <2>3
<1>6. \A k \in 0 .. N : Walking(m, w[k])
  <2> HIDE DEF S
  <2>1. \A k \in 0 .. N : k \in S
    BY <1>1, <1>4, <1>5, UpTo
  <2> QED
    BY <2>1 DEF S
<1>7. Walked(m, path, w)
  BY <1>3, <1>6 DEF Walked, N
<1> QED
  BY <1>7

LEMMA PathFound ==
  ASSUME NEW m, Ready(m), 0 \in InodeId, NEW path, Plain(path), path # <<>>
  PROVE  PathToInodeId(m, m.root, path, Blank) \in (InodeId \ {0}) \cup {-1}
<1>1. PICK w : Walked(m, path, w)
  BY PathWalked
<1>2. Len(path) \in Nat
  BY LenOf DEF Plain
<1> QED
  BY <1>1, <1>2 DEF Walked, Walking

LEMMA ParentFacts ==
  ASSUME NEW m, Ready(m), 0 \in InodeId, NEW path, Plain(path)
  PROVE  /\ KnownInode(m, ParentInode(m, path, Blank))
         /\ KnownDir(m, ParentDir(m, path, Blank))
<1> DEFINE id == IF path = <<>> THEN -1 ELSE PathToInodeId(m, m.root, path, Blank)
<1>1. ParentInode(m, path, Blank) = InodeOr(m, id, Blank.inode)
  BY DEF ParentInode
<1>2. id \in (InodeId \ {0}) \cup {-1}
  BY PathFound
<1> HIDE DEF id
<1>3. KnownInode(m, Blank.inode)
  BY DEF KnownInode
<1>4. KnownInode(m, ParentInode(m, path, Blank))
  BY <1>1, <1>2, <1>3, InodeOrFacts
<1>5. KnownDir(m, m.root) /\ KnownDir(m, Blank.dir)
  BY BlankIsNoDir DEF Ready, Rooted, KnownDir
<1>6. KnownDir(m, DirOr(m, ParentInode(m, path, Blank), Blank.dir))
  BY <1>4, <1>5, DirOrFacts
<1> QED
  BY <1>4, <1>5, <1>6 DEF ParentDir

-----------------------------------------------------------------------------
(* Adding to a directory                                                   *)

LEMMA KnownLen ==
  ASSUME NEW m, NEW d, KnownDir(m, d)
  PROVE  IsSeq(d) /\ Len(d) \in Nat
<1>1. IsSeq(d)
  BY EmptyIsSeq DEF KnownDir, IsLinks
<1> QED
  BY <1>1, LenOf

LEMMA GoodMore ==
  ASSUME NEW m, NEW new, Good(m, new), NEW more, new \subseteq more
  PROVE  Good(m, more)
BY DEF Good, Readable

LEMMA NoDirGood ==
  ASSUME NEW m, NEW i, Good(m, {i}), ~IsDir(InodeAt(m, i))
  PROVE  Good(m, {})
BY DEF Good, Readable

(* Directory i, unless it is the root, or what it changes, stays what it is. *)
LEMMA RootedKept ==
  ASSUME NEW m, Rooted(m), 0 \in InodeId, NEW n, Same(m, n), NEW i, Frame(m, n, {i}),
         InodeAt(n, i).type = InodeAt(m, i).type, 0 \in n.sb.inodes
  PROVE  Rooted(n)
<1>1. IsDir(InodeAt(n, 0))
  <2>1. CASE i = 0
    BY <2>1 DEF Rooted, IsDir
  <2>2. CASE i # 0
    BY <2>2 DEF Rooted, Frame, SameAt
  <2> QED
    BY <2>1, <2>2
<1>2. n.root = m.root
  BY DEF Same
<1> QED
  BY <1>1, <1>2 DEF Rooted

(* A new inode with a link to it in the directory d is.                    *)
Linked(m, a, d, name, type) ==
  /\ a.id \in InodeId \ {0} /\ a.id \notin m.sb.inodes
  /\ Good(a.m, {a.id}) /\ Rooted(a.m) /\ Same(m, a.m)
  /\ InodeAt(a.m, a.id).type = type
  /\ a.m.sb.inodes = m.sb.inodes \cup {a.id}
  /\ Room(a.m) = Room(m) - DirectoryBlocks
  /\ a.dir = Append(d, Link(name, a.id))
  /\ \E i \in InodeId :
       /\ Frame(m, a.m, {i, a.id}) /\ InodeAt(a.m, i).allocated >= 1
       /\ HoldsDirectory(a.m, InodeAt(a.m, i)) /\ ReadDir(a.m, InodeAt(a.m, i)) = a.dir
       /\ \/ i = a.id /\ d = <<>>
          \/ i # a.id /\ IsDir(InodeAt(m, i)) /\ IsDir(InodeAt(a.m, i)) /\ IsLinks(d, i)

(* The new inode c may be the one the links go to, when there are none yet. *)
LinksPut(m, n, c, type, links, i) ==
  /\ c.id \in InodeId \ {0} /\ c.id \notin m.sb.inodes
  /\ Good(n, {c.id}) /\ Rooted(n) /\ Same(m, n)
  /\ InodeAt(n, c.id).type = type
  /\ n.sb.inodes = m.sb.inodes \cup {c.id}
  /\ Room(n) = Room(m) - DirectoryBlocks
  /\ Frame(m, n, {i, c.id})
  /\ InodeAt(n, i).allocated >= 1
  /\ i # c.id => InodeAt(n, i).type = InodeAt(m, i).type
  /\ HoldsDirectory(n, InodeAt(n, i)) /\ ReadDir(n, InodeAt(n, i)) = links

LEMMA LinkPut ==
  ASSUME FilesAsMeant, NEW m, Ready(m), NEW c, NEW type \in InodeType, MadeInode(m, c, type),
         NEW links, NEW i \in InodeId, links[1].inode = i, Room(m) >= DirectoryBlocks,
         i = c.id \/ IsLinks(links, i)
  PROVE  LinksPut(m, WriteDir(c.m, links), c, type, links, i)
<1> DEFINE n == WriteDir(c.m, links)
<1>1. Good(m, {}) /\ Rooted(m) /\ 0 \in InodeId
  BY Layout DEF Ready
<1>2. /\ c.id \in InodeId /\ c.id \notin m.sb.inodes /\ Touched(m, c.m, c.id)
      /\ Same(m, c.m) /\ c.m.sb.inodes = m.sb.inodes \cup {c.id} /\ Room(c.m) = Room(m)
      /\ InodeAt(c.m, c.id).type = type
  BY DEF MadeInode
<1>3. c.id # 0
  BY <1>1, <1>2 DEF Rooted
<1>4. Good(c.m, {c.id})
  <2>1. Good(c.m, {} \cup {c.id})
    BY <1>1, <1>2, TouchedGood
  <2> QED
    BY <2>1
<1>5. DirPut(c.m, n, i, links)
  BY <1>2, <1>4, DirWritten
<1> HIDE DEF n
<1>6. Good(n, {c.id})
  <2>1. CASE i = c.id
    <3>1. Good(n, {c.id} \cup {c.id})
      BY <1>4, <1>5, <2>1, TouchedGood DEF DirPut
    <3> QED
      BY <3>1
  <2>2. CASE IsLinks(links, i)
    <3>1. Good(n, {c.id} \ {i})
      BY <1>4, <1>5, <2>2, DirPutGood
    <3> QED
      BY <3>1, GoodMore
  <2> QED
    BY <2>1, <2>2
<1>7. Frame(m, c.m, {c.id}) /\ Frame(c.m, n, {i}) /\ Same(c.m, n)
      /\ n.sb.inodes = c.m.sb.inodes /\ Room(n) = Room(c.m) - DirectoryBlocks
      /\ InodeAt(n, i).type = InodeAt(c.m, i).type /\ InodeAt(n, i).allocated >= 1
      /\ HoldsDirectory(n, InodeAt(n, i)) /\ ReadDir(n, InodeAt(n, i)) = links
  BY <1>2, <1>5 DEF DirPut, Touched
<1>8. Frame(m, n, {i, c.id})
  <2>1. Frame(m, n, {c.id} \cup {i})
    BY <1>7, FrameTrans
  <2> QED
    BY <2>1, FrameMore
<1>9. InodeAt(n, c.id).type = type
  <2>1. CASE i = c.id
    BY <1>2, <1>7, <2>1
  <2>2. CASE i # c.id
    BY <1>2, <1>7, <2>2 DEF Frame, SameAt
  <2> QED
    BY <2>1, <2>2
<1>10. Rooted(n)
  <2>1. 0 \in c.m.sb.inodes /\ IsDir(InodeAt(c.m, 0)) /\ IsLinks(c.m.root, 0)
    BY <1>1, <1>2, <1>3, <1>7 DEF Rooted, Same, Frame, SameAt
  <2>2. Rooted(c.m)
    BY <2>1 DEF Rooted
  <2> QED
    BY <1>1, <1>7, <2>1, <2>2, RootedKept
<1>11. Same(m, n)
  BY <1>2, <1>7 DEF Same
<1>12. i # c.id => InodeAt(n, i).type = InodeAt(m, i).type
  BY <1>7 DEF Frame, SameAt
<1>13. LinksPut(m, n, c, type, links, i)
  BY <1>2, <1>3, <1>6, <1>7, <1>8, <1>9, <1>10, <1>11, <1>12 DEF LinksPut
<1> QED
  BY <1>13 DEF n

LEMMA LinkIsAdded ==
  ASSUME FilesAsMeant, NEW m, Ready(m), Room(m) >= DirectoryBlocks,
         NEW d, KnownDir(m, d), Len(d) + 1 < MaxFiles, NEW name,
         NEW c, NEW type \in InodeType, MadeInode(m, c, type)
  PROVE  Linked(m, AddLink(d, name, c), d, name, type)
<1> DEFINE l == Link(name, c.id)
           links == Append(d, l)
           a == AddLink(d, name, c)
           n == WriteDir(c.m, links)
<1>1. c.id \in InodeId /\ c.id \notin m.sb.inodes /\ c.id # -1
  BY DEF MadeInode, InodeId
<1>2. a = [m |-> n, id |-> c.id, dir |-> links]
  BY <1>1 DEF AddLink
<1>3. c.id # 0
  BY <1>1 DEF Ready, Rooted
<1>4. l.inode = c.id
  BY DEF Link
<1> HIDE DEF a, l
<1>5. PICK i \in InodeId : /\ links[1].inode = i
                           /\ \/ i = c.id /\ d = <<>>
                              \/ /\ IsLinks(links, i) /\ i # c.id
                                 /\ IsDir(InodeAt(m, i)) /\ IsLinks(d, i)
  <2>1. CASE d = <<>>
    <3>1. links[1] = l
      BY <2>1, AppendSeq, EmptyIsSeq
    <3> QED
      BY <1>1, <1>4, <2>1, <3>1
  <2>2. CASE d # <<>>
    <3>1. PICK i \in InodeId : IsDir(InodeAt(m, i)) /\ IsLinks(d, i)
      BY <2>2 DEF KnownDir
    <3>2. IsLinks(links, i)
      BY <1>1, <1>3, <3>1, LinkAdded DEF l
    <3>3. links[1].inode = i
      BY <3>2 DEF IsLinks, Link
    <3>4. i # c.id
      BY <1>1, <3>1 DEF Ready, Good, Whole, IsDir, Directory, Unallocated
    <3> QED
      BY <3>1, <3>2, <3>3, <3>4
  <2> QED
    BY <2>1, <2>2
<1> HIDE DEF links
<1>6. LinksPut(m, n, c, type, links, i)
  BY <1>5, LinkPut
<1> HIDE DEF n
<1>7. a.m = n /\ a.id = c.id /\ a.dir = links
  BY <1>2
<1>8. a.dir = Append(d, Link(name, a.id))
  BY <1>7 DEF links, l
<1>9. \E j \in InodeId :
        /\ Frame(m, a.m, {j, a.id}) /\ InodeAt(a.m, j).allocated >= 1
        /\ HoldsDirectory(a.m, InodeAt(a.m, j)) /\ ReadDir(a.m, InodeAt(a.m, j)) = a.dir
        /\ \/ j = a.id /\ d = <<>>
           \/ j # a.id /\ IsDir(InodeAt(m, j)) /\ IsDir(InodeAt(a.m, j)) /\ IsLinks(d, j)
  <2>1. /\ Frame(m, a.m, {i, a.id}) /\ InodeAt(a.m, i).allocated >= 1
        /\ HoldsDirectory(a.m, InodeAt(a.m, i)) /\ ReadDir(a.m, InodeAt(a.m, i)) = a.dir
    BY <1>6, <1>7 DEF LinksPut
  <2>2. \/ i = a.id /\ d = <<>>
        \/ i # a.id /\ IsDir(InodeAt(m, i)) /\ IsDir(InodeAt(a.m, i)) /\ IsLinks(d, i)
    BY <1>5, <1>6, <1>7 DEF LinksPut, IsDir
  <2> HIDE DEF a
  <2> QED
    BY <2>1, <2>2
<1>10. Linked(m, a, d, name, type)
  BY <1>6, <1>7, <1>8, <1>9 DEF Linked, LinksPut
<1> QED
  BY <1>10 DEF a

LEMMA FileMade ==
  ASSUME FilesAsMeant, NEW m, Ready(m), Room(m) >= DirectoryBlocks,
         NEW d, KnownDir(m, d), NEW name, NEW type \in InodeType
  PROVE  LET a == CreateFile(m, d, name, type, Blank)
         IN  (a.m = m /\ a.id = -1 /\ a.dir = d) \/ Linked(m, a, d, name, type)
<1> DEFINE c == CreateInodeType(m, type, Blank)
           a == CreateFile(m, d, name, type, Blank)
<1>1. Len(d) \in Nat /\ MaxFiles \in Nat
  BY KnownLen, DiskAssumption
<1>2. \/ a = [m |-> m, id |-> -1, dir |-> d]
      \/ a = AddLink(d, name, c) /\ Len(d) + 1 < MaxFiles
  BY <1>1 DEF CreateFile
<1> HIDE DEF a
<1>3. (c.id = -1 /\ c.m = m) \/ MadeInode(m, c, type)
  BY InodeMade DEF Ready
<1> HIDE DEF c
<1>4. CASE c.id = -1 /\ c.m = m
  <2>1. AddLink(d, name, c) = [m |-> m, id |-> -1, dir |-> d]
    BY <1>4 DEF AddLink
  <2> QED
    BY <1>2, <2>1 DEF a
<1>5. CASE MadeInode(m, c, type)
  BY <1>2, <1>5, LinkIsAdded DEF a
<1> QED
  BY <1>3, <1>4, <1>5

(* Two machines with the same disk and bitmaps.                            *)
SameDisk(m, n) == Shape(n) /\ n.disk = m.disk /\ n.sb = m.sb

LEMMA SameDiskFacts ==
  ASSUME NEW m, NEW n, SameDisk(m, n), NEW new
  PROVE  /\ Good(m, new) => Good(n, new)
         /\ Room(n) = Room(m)
         /\ \A i : InodeAt(n, i) = InodeAt(m, i) /\ ReadDir(n, InodeAt(n, i)) = ReadDir(m, InodeAt(m, i))
         /\ \A P : Frame(m, n, P)
<1>1. \A i : InodeAt(n, i) = InodeAt(m, i)
  BY DEF SameDisk, InodeAt
<1>2. \A inode : /\ HoldsDirectory(n, inode) <=> HoldsDirectory(m, inode)
                 /\ ReadDir(n, inode) = ReadDir(m, inode)
  BY DEF SameDisk, HoldsDirectory, ReadDir
<1>3. Room(n) = Room(m)
  BY DEF SameDisk, Room, Free
<1>4. \A P : Frame(m, n, P)
  BY <1>1 DEF SameDisk, Frame, SameAt
<1>5. ASSUME Good(m, new)
      PROVE  Good(n, new)
  <2>1. Whole(n)
    BY <1>1, <1>5 DEF SameDisk, Good, Whole, Formed
  <2>2. Owned(n)
    <3>1. n.sb = m.sb /\ Owned(m)
      BY <1>5 DEF SameDisk, Good
    <3>2. \A i, k : Used(n, i) = Used(m, i) /\ BlockOf(n, i, k) = BlockOf(m, i, k)
      BY <1>1 DEF Used, BlockOf
    <3> QED
      BY <3>1, <3>2 DEF Owned
  <2>3. ASSUME NEW i \in InodeId, i \notin new, IsDir(InodeAt(n, i))
        PROVE  HasLinks(n, i)
    <3>1. HasLinks(m, i)
      BY <1>1, <1>5, <2>3 DEF Good, Readable
    <3> QED
      BY <1>1, <1>2, <3>1 DEF HasLinks
  <2> QED
    BY <2>1, <2>2, <2>3 DEF Good, Readable
<1> QED
  BY <1>1, <1>2, <1>3, <1>4, <1>5

(* What the calls may do to the disk: it is in order after them and has at *)
(* most r free blocks less.                                                *)
Leads(m, n, r) == Ready(n) /\ Room(n) >= Room(m) - r

RootIsRead(m, n) ==
  /\ Ready(n) /\ SameDisk(m, n) /\ n.open = m.open /\ n.held = m.held
  /\ n.root = ReadDir(m, InodeAt(m, 0))

LEMMA RootRead ==
  ASSUME FilesAsMeant, NEW m, Good(m, {}), 0 \in m.sb.inodes, IsDir(InodeAt(m, 0))
  PROVE  RootIsRead(m, ReadRootDir(m))
<1> DEFINE d == ReadDir(m, InodeAt(m, 0))
           n == [m EXCEPT !.root = d]
<1>1. ReadRootDir(m) = n
  BY DEF ReadRootDir
<1>2. HasLinks(m, 0)
  BY Layout DEF Good, Readable
<1>3. IsLinks(d, 0)
  BY <1>2 DEF HasLinks
<1> HIDE DEF d
<1>4. Shape(m)
  BY DEF Good, Whole, Formed
<1>5. /\ n.root = d /\ n.open = m.open /\ n.held = m.held
      /\ n.disk = m.disk /\ n.sb = m.sb /\ Shape(n)
  BY <1>4 DEF Shape, Fields
<1> HIDE DEF n
<1>6. SameDisk(m, n)
  BY <1>5 DEF SameDisk
<1>7. Good(n, {}) /\ InodeAt(n, 0) = InodeAt(m, 0)
  BY <1>6, SameDiskFacts
<1>8. Rooted(n)
  BY <1>3, <1>5, <1>7 DEF Rooted
<1>9. RootIsRead(m, n)
  BY <1>5, <1>6, <1>7, <1>8 DEF RootIsRead, Ready, d
<1> QED
  BY <1>1, <1>9

LEMMA RootReadLeads ==
  ASSUME FilesAsMeant, NEW m, NEW n, NEW r, Leads(m, n, r)
  PROVE  /\ Leads(m, ReadRootDir(n), r) /\ SameDisk(n, ReadRootDir(n))
         /\ ReadRootDir(n).open = n.open /\ ReadRootDir(n).held = n.held
<1>1. RootIsRead(n, ReadRootDir(n))
  BY RootRead DEF Leads, Ready, Rooted
<1>2. Room(ReadRootDir(n)) = Room(n)
  BY <1>1, SameDiskFacts DEF RootIsRead
<1> QED
  BY <1>1, <1>2 DEF Leads, RootIsRead

-----------------------------------------------------------------------------
(* A new directory                                                         *)

(* With the links of the new directory, its "." and "..".                  *)
DirMade(m, a, d, name) ==
  /\ a.id \in InodeId \ {0} /\ a.id \notin m.sb.inodes
  /\ Ready(a.m) /\ Same(m, a.m)
  /\ IsDir(InodeAt(a.m, a.id)) /\ ReadDir(a.m, InodeAt(a.m, a.id)) = a.dir
  /\ IsLinks(a.dir, a.id) /\ Len(a.dir) = 2
  /\ a.m.sb.inodes = m.sb.inodes \cup {a.id}
  /\ Room(a.m) = Room(m) - 2 * DirectoryBlocks
  /\ \E i \in InodeId :
       /\ Frame(m, a.m, {i, a.id}) /\ i # a.id
       /\ HoldsDirectory(a.m, InodeAt(a.m, i))
       /\ ReadDir(a.m, InodeAt(a.m, i)) = Append(d, Link(name, a.id))
       /\ IsDir(InodeAt(m, i)) /\ IsDir(InodeAt(a.m, i)) /\ IsLinks(d, i)

LEMMA DotsFacts ==
  ASSUME FilesAsMeant, NEW i \in InodeId, NEW j \in InodeId
  PROVE  IsLinks(<<Link(".", i), Link("..", j)>>, i) /\ Len(<<Link(".", i), Link("..", j)>>) = 2
<1> DEFINE l == Link(".", i)
           k == Link("..", j)
           d == <<l, k>>
<1>1. l.inode = i /\ l.name = "." /\ k.inode = j /\ k.name = ".."
  BY DEF Link
<1> HIDE DEF l, k
<1>2. d \in Seq({l, k}) /\ Len(d) = 2 /\ d[1] = l /\ d[2] = k
  OBVIOUS
<1>3. IsSeq(d)
  BY <1>2, ASequence
<1>4. \A n \in 1 .. Len(d) : d[n] = l \/ d[n] = k
  BY <1>2
<1> HIDE DEF d
<1>5. 1 <= Len(d) /\ Len(d) < MaxFiles
  BY <1>2, DiskAssumption
<1>6. IsLinks(d, i)
  BY <1>1, <1>2, <1>3, <1>4, <1>5 DEF IsLinks, l
<1> QED
  BY <1>2, <1>6 DEF d, l, k

LEMMA DotsAdded ==
  ASSUME FilesAsMeant, NEW m, Ready(m), Room(m) >= 2 * DirectoryBlocks, Room(m) \in Nat,
         NEW d, NEW name, d # <<>>, KnownDir(m, d),
         NEW c, Linked(m, c, d, name, Directory)
  PROVE  DirMade(m, AddDots(d, c), d, name)
<1> DEFINE up == d[1].inode
           dots == <<Link(".", c.id), Link("..", up)>>
           n == WriteDir(c.m, dots)
           a == AddDots(d, c)
<1>1. /\ c.id \in InodeId /\ c.id # 0 /\ c.id # -1 /\ c.id \notin m.sb.inodes
      /\ Good(c.m, {c.id}) /\ Rooted(c.m) /\ Same(m, c.m)
      /\ InodeAt(c.m, c.id).type = Directory
      /\ c.m.sb.inodes = m.sb.inodes \cup {c.id}
      /\ Room(c.m) = Room(m) - DirectoryBlocks
      /\ c.dir = Append(d, Link(name, c.id))
  BY DEF Linked, InodeId
<1>2. a = [m |-> n, id |-> c.id, dir |-> dots]
  BY <1>1 DEF AddDots
<1> HIDE DEF a
<1>3. PICK g \in InodeId : IsLinks(d, g)
  BY DEF KnownDir
<1>4. up \in InodeId
  BY <1>3 DEF IsLinks, Link
<1> HIDE DEF up
<1>5. IsLinks(dots, c.id) /\ Len(dots) = 2 /\ dots[1].inode = c.id
  <2>1. IsLinks(dots, c.id) /\ Len(dots) = 2
    BY <1>1, <1>4, DotsFacts
  <2>2. dots[1] = Link(".", c.id)
    OBVIOUS
  <2> QED
    BY <2>1, <2>2 DEF Link
<1> HIDE DEF dots
<1>6. DirectoryBlocks \in Nat /\ Room(c.m) >= DirectoryBlocks
  BY <1>1, DiskAssumption
<1>7. DirPut(c.m, n, c.id, dots)
  BY <1>1, <1>5, <1>6, DirWritten
<1> HIDE DEF n
<1>8. Good(n, {})
  <2>1. Good(n, {c.id} \ {c.id})
    BY <1>1, <1>5, <1>7, DirPutGood
  <2> QED
    BY <2>1
<1>9. Frame(c.m, n, {c.id}) /\ Same(c.m, n) /\ n.sb.inodes = c.m.sb.inodes
      /\ Room(n) = Room(c.m) - DirectoryBlocks /\ InodeAt(n, c.id).type = Directory
      /\ ReadDir(n, InodeAt(n, c.id)) = dots
  BY <1>1, <1>7 DEF DirPut, Touched
<1>10. Ready(n)
  <2>1. Rooted(n)
    BY <1>1, <1>9, Layout, RootedKept DEF Rooted
  <2> QED
    BY <1>8, <2>1 DEF Ready
<1>11. PICK i \in InodeId :
         /\ Frame(m, c.m, {i, c.id}) /\ InodeAt(c.m, i).allocated >= 1
         /\ HoldsDirectory(c.m, InodeAt(c.m, i)) /\ ReadDir(c.m, InodeAt(c.m, i)) = c.dir
         /\ i # c.id /\ IsDir(InodeAt(m, i)) /\ IsDir(InodeAt(c.m, i)) /\ IsLinks(d, i)
  BY DEF Linked
<1>12. i # c.id /\ IsDir(InodeAt(n, i))
  BY <1>9, <1>11 DEF Frame, SameAt
<1>13. /\ HoldsDirectory(n, InodeAt(n, i))
       /\ ReadDir(n, InodeAt(n, i)) = Append(d, Link(name, c.id))
  <2>1. SameAt(c.m, n, i)
    BY <1>9, <1>12 DEF Frame
  <2>2. InodeAt(c.m, i).allocated \in Nat \ {0}
    BY <1>1, <1>11, DiskAssumption DEF Good, Whole, IsInode
  <2> QED
    BY <1>1, <1>11, <2>1, <2>2, SameRead
<1>14. Frame(m, n, {i, c.id})
  <2>1. Frame(m, n, {i, c.id} \cup {c.id})
    BY <1>9, <1>11, FrameTrans
  <2> QED
    BY <2>1, FrameMore
<1>15. a.m = n /\ a.id = c.id /\ a.dir = dots
  BY <1>2
<1>16. Same(m, n) /\ IsDir(InodeAt(n, c.id)) /\ n.sb.inodes = m.sb.inodes \cup {c.id}
       /\ Room(n) = Room(m) - 2 * DirectoryBlocks
  BY <1>1, <1>6, <1>9 DEF Same, IsDir
<1>17. DirMade(m, a, d, name)
  BY <1>1, <1>5, <1>9, <1>10, <1>11, <1>12, <1>13, <1>14, <1>15, <1>16 DEF DirMade
<1> QED
  BY <1>17 DEF a

LEMMA DirectoryMade ==
  ASSUME FilesAsMeant, NEW m, Ready(m), Room(m) >= 2 * DirectoryBlocks,
         NEW d, d # <<>>, KnownDir(m, d), NEW name
  PROVE  LET a == CreateDirectory(m, d, name, Blank)
         IN  (a.m = m /\ a.id = -1) \/ DirMade(m, a, d, name)
<1> DEFINE c == CreateFile(m, d, name, Directory, Blank)
           a == CreateDirectory(m, d, name, Blank)
<1>1. Room(m) \in Nat /\ DirectoryBlocks \in Nat /\ Room(m) >= DirectoryBlocks
  BY FreeFacts, DiskAssumption
<1>2. a = AddDots(d, c)
  BY DEF CreateDirectory
<1>3. (c.m = m /\ c.id = -1) \/ Linked(m, c, d, name, Directory)
  BY <1>1, FileMade DEF InodeType
<1> HIDE DEF c, a
<1>4. CASE c.m = m /\ c.id = -1
  BY <1>2, <1>4 DEF AddDots, a
<1>5. CASE Linked(m, c, d, name, Directory)
  BY <1>1, <1>2, <1>5, DotsAdded DEF a
<1> QED
  BY <1>3, <1>4, <1>5

-----------------------------------------------------------------------------
(* What a call does to the files there are                                 *)

IsFile(m, i) == InodeAt(m, i).type = File

(* All files but file i are what they were, and i has not become shorter.  *)
ButFor(m, n, i) ==
  /\ \A j \in InodeId : j # i => /\ IsFile(n, j) <=> IsFile(m, j)
                                 /\ IsFile(m, j) => SameAt(m, n, j)
  /\ IsFile(m, i) /\ IsFile(n, i) => InodeAt(n, i).allocated >= InodeAt(m, i).allocated

OneFile(m, n) == \E i \in InodeId : ButFor(m, n, i)

LEMMA FrameOneFile ==
  ASSUME NEW m, NEW n, NEW i, NEW j \in InodeId, Frame(m, n, {i, j}),
         i = j \/ (~IsFile(m, i) /\ ~IsFile(n, i)),
         ~IsFile(m, j) \/ ~IsFile(n, j)
  PROVE  ButFor(m, n, j)
<1>1. ASSUME NEW k \in InodeId, k # j
      PROVE  (IsFile(n, k) <=> IsFile(m, k)) /\ (IsFile(m, k) => SameAt(m, n, k))
  <2>1. CASE k = i
    BY <1>1, <2>1
  <2>2. CASE k # i
    BY <1>1, <2>2 DEF Frame, SameAt, IsFile
  <2> QED
    BY <2>1, <2>2
<1> QED
  BY <1>1 DEF ButFor

LEMMA FileIsNoDir == \A inode : IsDir(inode) => inode.type # File
BY DEF IsDir, Directory, File

LEMMA ButForThen ==
  ASSUME NEW m, NEW n, NEW o, NEW i, ButFor(m, n, i), SameDisk(n, o)
  PROVE  ButFor(m, o, i)
<1>1. /\ \A j : InodeAt(o, j) = InodeAt(n, j)
      /\ \A j : IsFile(o, j) <=> IsFile(n, j)
  BY SameDiskFacts DEF IsFile
<1>2. o.disk = n.disk
  BY DEF SameDisk
<1>3. \A j : SameAt(m, n, j) => SameAt(m, o, j)
  BY <1>1, <1>2 DEF SameAt
<1> QED
  BY <1>1, <1>3 DEF ButFor

LEMMA NoFileChanged ==
  ASSUME NEW m, NEW new, Good(m, new), NEW n, SameDisk(m, n), NEW i \in InodeId
  PROVE  ButFor(m, n, i)
<1>1. /\ \A j : InodeAt(n, j) = InodeAt(m, j)
      /\ n.disk = m.disk
  BY SameDiskFacts DEF SameDisk
<1>2. InodeAt(m, i).allocated \in Nat
  BY DiskAssumption DEF Good, Whole, IsInode
<1> QED
  BY <1>1, <1>2 DEF ButFor, IsFile, SameAt

LEMMA NewIsNoFile ==
  ASSUME NEW m, NEW new, Good(m, new), NEW i \in InodeId, i \notin m.sb.inodes
  PROVE  ~IsFile(m, i)
BY DEF Good, Whole, IsFile, File, Unallocated

(* A call that leaves the table of open files and the processes' lists.    *)
Stayed(m, n) == n.open = m.open /\ n.held = m.held

LEMMA NothingDone ==
  ASSUME NEW m, Ready(m), NEW r \in Nat, 0 \in InodeId
  PROVE  Leads(m, m, r) /\ OneFile(m, m) /\ Stayed(m, m)
<1>1. SameDisk(m, m)
  BY DEF Ready, Good, Whole, Formed, SameDisk
<1>2. ButFor(m, m, 0)
  BY <1>1, NoFileChanged DEF Ready
<1>3. Room(m) >= Room(m) - r
  BY FreeFacts
<1> QED
  BY <1>2, <1>3 DEF Leads, OneFile, Stayed

(* What comes after a walk that found a directory.                         *)
LEMMA ParentIsDir ==
  ASSUME FilesAsMeant, NEW m, Ready(m), NEW path, Plain(path), ~NoParent(m, path, Blank)
  PROVE  KnownDir(m, ParentDir(m, path, Blank)) /\ ParentDir(m, path, Blank) # <<>>
<1>0. 0 \in InodeId
  BY Layout
<1>1. KnownInode(m, ParentInode(m, path, Blank)) /\ KnownDir(m, ParentDir(m, path, Blank))
  BY <1>0, ParentFacts
<1>2. \A d, i : IsLinks(d, i) => d # <<>>
  BY EmptyIsSeq DEF IsLinks
<1>3. CASE path = <<>>
  BY <1>1, <1>2, <1>3 DEF ParentDir, Ready, Rooted
<1>4. CASE path # <<>>
  <2> DEFINE inode == ParentInode(m, path, Blank)
  <2>1. IsDir(inode)
    BY <1>4 DEF NoParent
  <2>2. ParentDir(m, path, Blank) = ReadDir(m, inode)
    BY <1>4, <2>1 DEF ParentDir, DirOr
  <2> HIDE DEF inode
  <2>3. PICK j \in InodeId : inode = InodeAt(m, j)
    BY <1>1, <2>1, BlankIsNoDir DEF KnownInode, inode
  <2>4. HasLinks(m, j)
    BY <2>1, <2>3 DEF Ready, Good, Readable
  <2> QED
    BY <1>1, <1>2, <2>2, <2>3, <2>4 DEF HasLinks
<1> QED
  BY <1>3, <1>4

LEMMA SysMkdirLeads ==
  ASSUME FilesAsMeant, NEW m, Ready(m), Room(m) >= 2 * DirectoryBlocks,
         NEW path, Plain(path), NEW name
  PROVE  LET n == SysMkdir(m, path, name, Blank)
         IN  Leads(m, n, 2 * DirectoryBlocks) /\ OneFile(m, n) /\ Stayed(m, n)
<1> DEFINE n == SysMkdir(m, path, name, Blank)
           d == ParentDir(m, path, Blank)
           c == CreateDirectory(m, d, name, Blank)
           r == 2 * DirectoryBlocks
<1>0. r \in Nat /\ 0 \in InodeId
  BY DiskAssumption, Layout
<1>1. \/ n = m
      \/ ~NoParent(m, path, Blank) /\ c.id # -1 /\ n = ReadRootDir(c.m)
  BY DEF SysMkdir
<1>2. CASE n = m
  BY <1>0, <1>2, NothingDone
<1>3. CASE ~NoParent(m, path, Blank) /\ c.id # -1 /\ n = ReadRootDir(c.m)
  <2> HIDE DEF n
  <2>1. KnownDir(m, d) /\ d # <<>>
    BY <1>3, ParentIsDir
  <2> HIDE DEF d
  <2>2. DirMade(m, c, d, name)
    BY <1>3, <2>1, DirectoryMade
  <2> HIDE DEF c
  <2>3. Leads(m, c.m, r) /\ Stayed(m, c.m)
    BY <2>2, FreeFacts, <1>0 DEF DirMade, Leads, Stayed, Same
  <2>4. OneFile(m, c.m)
    <3>1. PICK i \in InodeId :
            /\ Frame(m, c.m, {i, c.id})
            /\ IsDir(InodeAt(m, i)) /\ IsDir(InodeAt(c.m, i))
      BY <2>2 DEF DirMade
    <3>2. ~IsFile(m, c.id) /\ c.id \in InodeId
      BY <2>2, NewIsNoFile DEF Ready, DirMade
    <3>3. ButFor(m, c.m, c.id)
      BY <3>1, <3>2, FileIsNoDir, FrameOneFile DEF IsFile
    <3> QED
      BY <3>2, <3>3 DEF OneFile
  <2>5. Leads(m, n, r) /\ SameDisk(c.m, n) /\ Stayed(c.m, n)
    BY <1>3, <2>3, RootReadLeads DEF Stayed
  <2>6. OneFile(m, n)
    BY <2>4, <2>5, ButForThen DEF OneFile
  <2> QED
    BY <2>3, <2>5, <2>6 DEF Stayed, n
<1> QED
  BY <1>1, <1>2, <1>3

-----------------------------------------------------------------------------
(* The table of open files and the lists of the processes                  *)

OpenFd == [id : FdId, flags : 0 .. 4, inode : InodeId \cup {-1}]

Table(o) == IsSeq(o) /\ Len(o) <= MaxOpenFiles /\ \A k \in 1 .. Len(o) : o[k] \in OpenFd

(* The devices come first, and no descriptor behind them has their ids.    *)
DeviceFd(fd) == Fd(fd, IF fd = 0 THEN READ_GLOBAL ELSE WRITE_GLOBAL, fd + 2)

DevicesFirst(o) ==
  /\ IsSeq(o) /\ Len(o) >= 3
  /\ \A fd \in 0 .. 2 : o[fd + 1] = DeviceFd(fd)
  /\ \A k \in 1 .. Len(o) : k > 3 => o[k].id \in Nat /\ o[k].id >= 3

LEMMA AddFdFacts ==
  ASSUME NEW o, NEW inode, NEW flags
  PROVE  LET a == AddFd(o, inode, flags)
         IN  \/ a.open = o
             \/ /\ ~(Len(o) >= MaxOpenFiles)
                /\ a.open = Append(o, Fd(Len(o), flags, inode))
<1> DEFINE ofInode == {k \in 1 .. Len(o) : o[k].inode = inode}
<1>1. CASE Len(o) >= MaxOpenFiles \/ ofInode # {}
  BY <1>1 DEF AddFd
<1>2. CASE ~(Len(o) >= MaxOpenFiles) /\ ofInode = {}
  BY <1>2 DEF AddFd
<1> QED
  BY <1>1, <1>2

LEMMA AddFdTable ==
  ASSUME NEW o, Table(o), NEW inode \in InodeId \cup {-1}, NEW flags \in 0 .. 4
  PROVE  Table(AddFd(o, inode, flags).open)
<1> DEFINE fd == Fd(Len(o), flags, inode)
           t == Append(o, fd)
<1>1. Len(o) \in Nat /\ MaxOpenFiles \in Nat /\ IsSeq(o)
  BY LenOf, OpenFilesAssumption DEF Table
<1>2. AddFd(o, inode, flags).open = o \/ (~(Len(o) >= MaxOpenFiles) /\ AddFd(o, inode, flags).open = t)
  BY AddFdFacts
<1>3. ASSUME ~(Len(o) >= MaxOpenFiles)
      PROVE  Table(t)
  <2>1. Len(o) \in FdId
    BY <1>1, <1>3 DEF FdId
  <2>2. fd \in OpenFd
    BY <2>1 DEF Fd, OpenFd
  <2> HIDE DEF fd
  <2>3. /\ IsSeq(t) /\ Len(t) = Len(o) + 1 /\ t[Len(o) + 1] = fd
        /\ \A k \in 1 .. Len(o) : t[k] = o[k]
    BY <1>1, AppendSeq
  <2> HIDE DEF t
  <2>4. ASSUME NEW k \in 1 .. Len(t)
        PROVE  t[k] \in OpenFd
    <3>1. k \in 1 .. Len(o) \/ k = Len(o) + 1
      BY <1>1, <2>3
    <3> QED
      BY <2>2, <2>3, <3>1 DEF Table
  <2> QED
    BY <1>1, <1>3, <2>3, <2>4 DEF Table
<1> QED
  BY <1>2, <1>3

LEMMA AddFdDevices ==
  ASSUME NEW o, DevicesFirst(o), NEW inode, NEW flags
  PROVE  DevicesFirst(AddFd(o, inode, flags).open)
<1> DEFINE fd == Fd(Len(o), flags, inode)
           t == Append(o, fd)
<1>1. Len(o) \in Nat /\ IsSeq(o) /\ Len(o) >= 3
  BY LenOf DEF DevicesFirst
<1>2. AddFd(o, inode, flags).open = o \/ AddFd(o, inode, flags).open = t
  BY AddFdFacts
<1>3. fd.id = Len(o)
  BY DEF Fd
<1> HIDE DEF fd
<1>4. /\ IsSeq(t) /\ Len(t) = Len(o) + 1 /\ t[Len(o) + 1] = fd
      /\ \A k \in 1 .. Len(o) : t[k] = o[k]
  BY <1>1, AppendSeq
<1> HIDE DEF t
<1>5. ASSUME NEW k \in 1 .. Len(t), k > 3
      PROVE  t[k].id \in Nat /\ t[k].id >= 3
  <2>1. k \in 1 .. Len(o) \/ k = Len(o) + 1
    BY <1>1, <1>4
  <2> QED
    BY <1>1, <1>3, <1>4, <1>5, <2>1 DEF DevicesFirst
<1>6. \A f \in 0 .. 2 : t[f + 1] = DeviceFd(f)
  BY <1>1, <1>4 DEF DevicesFirst
<1>7. DevicesFirst(t)
  BY <1>1, <1>4, <1>5, <1>6 DEF DevicesFirst
<1> QED
  BY <1>2, <1>7

LEMMA CloseFileFacts ==
  ASSUME NEW o, IsSeq(o), NEW fd
  PROVE  \/ CloseFile(o, fd) = o
         \/ \E i \in 1 .. Len(o) : /\ o[i].id = fd /\ o[i].flags \notin Global
                                   /\ Removed(o, CloseFile(o, fd), i)
<1> DEFINE i == Min(FdsOf(o, fd))
<1>0. Len(o) \in Nat
  BY LenOf
<1>1. CASE ~IsOpen(o, fd) \/ FdIdToFd(o, fd).flags \in Global
  BY <1>1 DEF CloseFile
<1>2. CASE ~(~IsOpen(o, fd) \/ FdIdToFd(o, fd).flags \in Global)
  <2>1. CloseFile(o, fd) = RemoveAt(o, i) /\ o[i].flags \notin Global
    BY <1>2 DEF CloseFile, FdIdToFd
  <2>2. FdsOf(o, fd) # {} /\ FdsOf(o, fd) \subseteq Nat
    BY <1>2 DEF IsOpen, FdsOf
  <2>3. i \in FdsOf(o, fd)
    BY <2>2, MinOfSet
  <2>4. i \in 1 .. Len(o) /\ o[i].id = fd
    BY <2>3 DEF FdsOf
  <2> HIDE DEF i
  <2>5. Removed(o, RemoveAt(o, i), i)
    BY <1>0, <2>4, RemoveSeq
  <2> QED
    BY <2>1, <2>4, <2>5
<1> QED
  BY <1>1, <1>2

LEMMA CloseFileTable ==
  ASSUME NEW o, Table(o), NEW fd
  PROVE  Table(CloseFile(o, fd))
<1> DEFINE t == CloseFile(o, fd)
<1>1. IsSeq(o) /\ Len(o) \in Nat /\ MaxOpenFiles \in Nat
  BY LenOf, OpenFilesAssumption DEF Table
<1>2. ASSUME NEW i \in 1 .. Len(o), Removed(o, t, i)
      PROVE  Table(t)
  <2> HIDE DEF t
  <2>1. IsSeq(t) /\ Len(t) = Len(o) - 1
    BY <1>2 DEF Removed
  <2>2. ASSUME NEW k \in 1 .. Len(t)
        PROVE  t[k] \in OpenFd
    <3>1. t[k] = o[k] \/ t[k] = o[k + 1]
      BY <1>2 DEF Removed
    <3>2. k \in 1 .. Len(o) /\ k + 1 \in 1 .. Len(o)
      BY <1>1, <2>1
    <3> QED
      BY <3>1, <3>2 DEF Table
  <2> QED
    BY <1>1, <2>1, <2>2 DEF Table
<1> QED
  BY <1>1, <1>2, CloseFileFacts

LEMMA CloseFileDevices ==
  ASSUME NEW o, DevicesFirst(o), NEW fd
  PROVE  DevicesFirst(CloseFile(o, fd))
<1> DEFINE t == CloseFile(o, fd)
<1>1. IsSeq(o) /\ Len(o) \in Nat /\ Len(o) >= 3
  BY LenOf DEF DevicesFirst
<1>2. ASSUME NEW i \in 1 .. Len(o), o[i].flags \notin Global, Removed(o, t, i)
      PROVE  DevicesFirst(t)
  <2> HIDE DEF t
  <2>1. IsSeq(t) /\ Len(t) = Len(o) - 1
    BY <1>2 DEF Removed
  <2>2. i > 3
    <3>1. SUFFICES ASSUME i <= 3 PROVE FALSE
      BY <1>1
    <3>2. i - 1 \in 0 .. 2 /\ (i - 1) + 1 = i
      BY <1>1, <3>1
    <3>3. o[(i - 1) + 1] = DeviceFd(i - 1)
      BY <3>2 DEF DevicesFirst
    <3>4. o[i] = DeviceFd(i - 1)
      BY <3>2, <3>3
    <3>5. \A f : DeviceFd(f).flags \in Global
      BY DEF DeviceFd, Fd, Global
    <3> QED
      BY <1>2, <3>4, <3>5
  <2>3. ASSUME NEW k \in 1 .. Len(t)
        PROVE  /\ k <= 3 => t[k] = o[k]
               /\ k > 3 => t[k].id \in Nat /\ t[k].id >= 3
    <3>1. k < i => t[k] = o[k]
      BY <1>2 DEF Removed
    <3>2. ~(k < i) => t[k] = o[k + 1]
      BY <1>2 DEF Removed
    <3>3. k \in 1 .. Len(o) /\ k + 1 \in 1 .. Len(o)
      BY <1>1, <2>1
    <3> QED
      BY <2>2, <3>1, <3>2, <3>3 DEF DevicesFirst
  <2>4. Len(t) >= 3
    BY <1>1, <2>1, <2>2
  <2>5. \A f \in 0 .. 2 : t[f + 1] = DeviceFd(f)
    <3>1. ASSUME NEW f \in 0 .. 2
          PROVE  t[f + 1] = DeviceFd(f)
      <4>1. f + 1 \in 1 .. Len(t) /\ f + 1 <= 3
        BY <1>1, <2>1, <2>4
      <4> QED
        BY <2>3, <4>1 DEF DevicesFirst
    <3> QED
      BY <3>1
  <2> QED
    BY <2>1, <2>3, <2>4, <2>5 DEF DevicesFirst
<1> QED
  BY <1>1, <1>2, CloseFileFacts

LEMMA CloseAllFacts ==
  ASSUME NEW o, IsSeq(o)
  PROVE  /\ Table(o) => Table(CloseAll(o))
         /\ DevicesFirst(o) => DevicesFirst(CloseAll(o))
<1> DEFINE N == Len(o)
           Kept0(t) == (Table(o) => Table(t)) /\ (DevicesFirst(o) => DevicesFirst(t))
<1>1. N \in Nat
  BY LenOf
<1>2. PICK w : /\ w[0] = o
               /\ \A k \in 1 .. N : w[k] = CloseKth(w[k - 1], k)
               /\ CloseAll(o) = w[N]
  BY <1>1, CloseRuns
<1> HIDE DEF N
<1> DEFINE S == {k \in 0 .. N : Kept0(w[k])}
<1>3. 0 \in S
  BY <1>1, <1>2
<1>4. ASSUME NEW k \in 0 .. N - 1, k \in S
      PROVE  k + 1 \in S
  <2>1. Kept0(w[k])
    BY <1>4
  <2>2. Kept0(CloseKth(w[k], k + 1))
    BY <2>1, CloseFileTable, CloseFileDevices DEF CloseKth
  <2>3. k + 1 \in 1 .. N /\ (k + 1) - 1 = k
    BY <1>1
  <2>4. w[k + 1] = CloseKth(w[(k + 1) - 1], k + 1)
    BY <1>2, <2>3
  <2> HIDE DEF Kept0
  <2> QED
    BY <2>2, <2>3, <2>4
<1>5. N \in S
  <2> HIDE DEF S
  <2>1. \A k \in 0 .. N : k \in S
    BY <1>1, <1>3, <1>4, UpTo
  <2> QED
    BY <1>1, <2>1
<1> QED
  BY <1>2, <1>5

List(h) == IsSeq(h) /\ Len(h) <= MaxOpenFiles

Lists(held0) == DOMAIN held0 = Procs /\ \A p \in Procs : List(held0[p])

LEMMA AddProcessFdList ==
  ASSUME NEW h, List(h), NEW fd
  PROVE  List(AddProcessFd(h, fd))
<1>1. IsSeq(h) /\ Len(h) \in Nat /\ MaxOpenFiles \in Nat
  BY LenOf, OpenFilesAssumption DEF List
<1>2. CASE Len(h) >= MaxOpenFiles
  BY <1>2 DEF AddProcessFd
<1>3. CASE ~(Len(h) >= MaxOpenFiles)
  <2> DEFINE t == Append(h, fd)
  <2>1. IsSeq(t) /\ Len(t) = Len(h) + 1
    BY <1>1, AppendSeq
  <2>2. AddProcessFd(h, fd) = t
    BY <1>3 DEF AddProcessFd
  <2> HIDE DEF t
  <2> QED
    BY <1>1, <1>3, <2>1, <2>2 DEF List
<1> QED
  BY <1>2, <1>3

LEMMA RemoveProcessFdList ==
  ASSUME NEW h, List(h), NEW fd
  PROVE  List(RemoveProcessFd(h, fd))
<1> DEFINE n == Len(h) - 1
           value(k) == IF k <= Min(HeldAt(h, fd)) THEN h[k] ELSE h[k - 1]
           t == [k \in 1 .. n |-> value(k)]
           S == {value(k) : k \in 1 .. n}
<1>1. IsSeq(h) /\ Len(h) \in Nat /\ MaxOpenFiles \in Nat
  BY LenOf, OpenFilesAssumption DEF List
<1>2. CASE HeldAt(h, fd) = {}
  BY <1>2 DEF RemoveProcessFd
<1>3. CASE HeldAt(h, fd) # {}
  <2>1. Len(h) >= 1
    BY <1>1, <1>3 DEF HeldAt
  <2>2. RemoveProcessFd(h, fd) = t
    BY <1>3 DEF RemoveProcessFd
  <2>3. n \in Nat /\ n <= Len(h)
    BY <1>1, <2>1
  <2>4. t \in [1 .. n -> S]
    OBVIOUS
  <2>5. t \in Seq(S) /\ Len(t) = n
    <3> HIDE DEF S, t, n
    <3>1. t \in Seq(S)
      BY <2>3, <2>4, SeqDef
    <3>2. DOMAIN t = 1 .. n
      BY <2>4
    <3> QED
      BY <2>3, <3>1, <3>2, LenProperties
  <2> HIDE DEF S, t
  <2>6. IsSeq(t)
    BY <2>5, ASequence
  <2> QED
    BY <1>1, <2>2, <2>3, <2>5, <2>6 DEF List
<1> QED
  BY <1>2, <1>3

LEMMA NoListIsLong == List(<<>>)
BY EmptyIsSeq, OpenFilesAssumption DEF List

LEMMA OneList ==
  ASSUME NEW h, Lists(h), NEW p \in Procs, NEW l, List(l)
  PROVE  Lists([h EXCEPT ![p] = l])
BY DEF Lists

-----------------------------------------------------------------------------
(* open, close and write                                                   *)

Sound(m) == Ready(m) /\ Table(m.open) /\ Lists(m.held)

(* A call that leaves things as they should be, with at most r blocks less *)
(* and at most one file changed.                                           *)
After(m, n, r) ==
  /\ Sound(n) /\ Room(n) >= Room(m) - r /\ OneFile(m, n)
  /\ DevicesFirst(m.open) => DevicesFirst(n.open)

LEMMA StayedAfter ==
  ASSUME NEW m, Sound(m), NEW n, NEW r, Leads(m, n, r), OneFile(m, n), Stayed(m, n)
  PROVE  After(m, n, r)
BY DEF After, Sound, Leads, Stayed

LEMMA UnchangedAfter ==
  ASSUME FilesAsMeant, NEW m, Sound(m), NEW r \in Nat
  PROVE  After(m, m, r)
<1>1. Leads(m, m, r) /\ OneFile(m, m) /\ Stayed(m, m)
  BY Layout, NothingDone DEF Sound
<1> QED
  BY <1>1, StayedAfter

(* A change of root, open or held only.                                    *)
LEMMA SameDiskAfter ==
  ASSUME NEW m, Ready(m), NEW n, SameDisk(m, n), IsLinks(n.root, 0)
  PROVE  Ready(n)
<1>1. Good(n, {}) /\ InodeAt(n, 0) = InodeAt(m, 0)
  BY SameDiskFacts DEF Ready
<1> QED
  BY <1>1 DEF Ready, Rooted, SameDisk

OpenChanged(m, n, o) ==
  /\ SameDisk(m, n) /\ n.root = m.root /\ n.held = m.held
  /\ n.open = o

LEMMA OpenChange ==
  ASSUME NEW m, Shape(m), NEW o
  PROVE  OpenChanged(m, [m EXCEPT !.open = o], o)
BY DEF Shape, Fields, SameDisk, OpenChanged

HeldChanged(m, n, h) ==
  /\ SameDisk(m, n) /\ n.root = m.root /\ n.open = m.open
  /\ n.held = h

LEMMA HeldChange ==
  ASSUME NEW m, Shape(m), NEW h
  PROVE  HeldChanged(m, [m EXCEPT !.held = h], h)
BY DEF Shape, Fields, SameDisk, HeldChanged

LEMMA TablesAfter ==
  ASSUME FilesAsMeant, NEW m, Sound(m), NEW n, SameDisk(m, n), IsLinks(n.root, 0),
         Table(n.open), Lists(n.held), DevicesFirst(m.open) => DevicesFirst(n.open)
  PROVE  After(m, n, 0)
<1>1. Ready(n)
  BY SameDiskAfter DEF Sound
<1>2. ButFor(m, n, 0) /\ 0 \in InodeId
  BY Layout, NoFileChanged DEF Sound, Ready
<1>3. Room(n) >= Room(m) - 0
  BY SameDiskFacts, FreeFacts
<1> QED
  BY <1>1, <1>2, <1>3 DEF After, Sound, OneFile

(* Something that leaves the disk alone, after a step that may have        *)
(* changed a file.                                                         *)
LEMMA AfterThen ==
  ASSUME NEW m, NEW n, NEW o, NEW r \in Nat, After(m, n, r), SameDisk(n, o), After(n, o, 0)
  PROVE  After(m, o, r)
<1>1. OneFile(m, o)
  BY ButForThen DEF After, OneFile
<1>2. Room(o) = Room(n)
  BY SameDiskFacts
<1> QED
  BY <1>1, <1>2 DEF After

LEMMA OpenInodeAfter ==
  ASSUME FilesAsMeant, NEW m, Sound(m), NEW id \in InodeId \cup {-1}, NEW flags \in 0 .. 4
  PROVE  After(m, OpenInode(m, id, flags).m, 0) /\ SameDisk(m, OpenInode(m, id, flags).m)
<1> DEFINE o == AddFd(m.open, id, flags).open
           n == [m EXCEPT !.open = o]
<1>1. OpenInode(m, id, flags).m = n
  BY DEF OpenInode
<1>2. Table(o) /\ (DevicesFirst(m.open) => DevicesFirst(o))
  BY AddFdTable, AddFdDevices DEF Sound
<1> HIDE DEF o
<1>3. Shape(m) /\ IsLinks(m.root, 0) /\ Lists(m.held)
  BY DEF Sound, Ready, Good, Whole, Formed, Rooted
<1>4. OpenChanged(m, n, o)
  BY <1>3, OpenChange
<1> HIDE DEF n
<1>5. After(m, n, 0)
  BY <1>2, <1>3, <1>4, TablesAfter DEF OpenChanged
<1> QED
  BY <1>1, <1>4, <1>5 DEF OpenChanged

LEMMA FileMadeAfter ==
  ASSUME FilesAsMeant, NEW m, Sound(m), NEW a, NEW d, NEW name, Linked(m, a, d, name, File)
  PROVE  After(m, a.m, DirectoryBlocks)
<1>1. /\ a.id \in InodeId /\ a.id \notin m.sb.inodes /\ InodeAt(a.m, a.id).type = File
      /\ Good(a.m, {a.id}) /\ Rooted(a.m) /\ Same(m, a.m)
      /\ Room(a.m) = Room(m) - DirectoryBlocks
  BY DEF Linked
<1>2. Ready(a.m)
  <2>1. ~IsDir(InodeAt(a.m, a.id))
    BY <1>1, FileIsNoDir
  <2> QED
    BY <1>1, <2>1, NoDirGood DEF Ready
<1>3. PICK i \in InodeId : /\ Frame(m, a.m, {i, a.id})
                           /\ i = a.id \/ (IsDir(InodeAt(m, i)) /\ IsDir(InodeAt(a.m, i)))
  BY DEF Linked
<1>4. ~IsFile(m, a.id)
  BY <1>1, NewIsNoFile DEF Sound, Ready
<1>5. ButFor(m, a.m, a.id)
  BY <1>1, <1>3, <1>4, FileIsNoDir, FrameOneFile DEF IsFile
<1>6. Leads(m, a.m, DirectoryBlocks) /\ OneFile(m, a.m) /\ Stayed(m, a.m)
  BY <1>1, <1>2, <1>5, FreeFacts, DiskAssumption DEF Leads, OneFile, Stayed, Same
<1> QED
  BY <1>6, StayedAfter

LEMMA OpenFileAfter ==
  ASSUME FilesAsMeant, NEW m, Sound(m), Room(m) >= DirectoryBlocks,
         NEW path, Plain(path), NEW name, NEW flags \in 0 .. 4
  PROVE  After(m, OpenFile(m, path, name, flags, Blank).m, DirectoryBlocks)
<1> DEFINE d == ParentDir(m, path, Blank)
           id == PathToInodeId(m, d, <<name>>, Blank)
           c == CreateFile(m, d, name, File, Blank)
           n == OpenFile(m, path, name, flags, Blank).m
<1>1. DirectoryBlocks \in Nat
  BY DiskAssumption
<1>2. n \in {m, OpenInode(m, id, flags).m, OpenInode(c.m, c.id, flags).m}
  BY DEF OpenFile, OpenIn, OpenCreated
<1>3. KnownDir(m, d)
  BY Layout, ParentFacts DEF Sound
<1>4. id \in InodeId \cup {-1}
  <2>1. id = DirectoryLookup(d, name)
    BY NameFound
  <2> HIDE DEF d, id
  <2> QED
    BY <1>3, <2>1, LookupFacts DEF KnownDir
<1> HIDE DEF d, id, n
<1>5. (c.m = m /\ c.id = -1) \/ Linked(m, c, d, name, File)
  BY <1>3, FileMade DEF Sound, InodeType
<1> HIDE DEF c
<1>6. After(m, m, DirectoryBlocks)
  BY <1>1, UnchangedAfter
<1>7. \A i \in InodeId \cup {-1} : After(m, OpenInode(m, i, flags).m, DirectoryBlocks)
  <2>1. ASSUME NEW i \in InodeId \cup {-1}
        PROVE  After(m, OpenInode(m, i, flags).m, DirectoryBlocks)
    <3>1. After(m, OpenInode(m, i, flags).m, 0) /\ SameDisk(m, OpenInode(m, i, flags).m)
      BY OpenInodeAfter
    <3> QED
      BY <1>1, <1>6, <3>1, AfterThen
  <2> QED
    BY <2>1
<1>8. CASE c.m = m /\ c.id = -1
  BY <1>2, <1>4, <1>6, <1>7, <1>8 DEF n
<1>9. CASE Linked(m, c, d, name, File)
  <2> DEFINE o == OpenInode(c.m, c.id, flags).m
  <2>1. After(m, c.m, DirectoryBlocks) /\ c.id \in InodeId
    BY <1>9, FileMadeAfter DEF Linked
  <2>2. After(c.m, o, 0) /\ SameDisk(c.m, o)
    BY <2>1, OpenInodeAfter DEF After
  <2> HIDE DEF o
  <2>3. After(m, o, DirectoryBlocks)
    BY <1>1, <2>1, <2>2, AfterThen
  <2> QED
    BY <1>2, <1>4, <1>6, <1>7, <2>3 DEF n, o
<1> QED
  BY <1>5, <1>8, <1>9

LEMMA RootReadAfter ==
  ASSUME FilesAsMeant, NEW m, Sound(m)
  PROVE  After(m, ReadRootDir(m), 0) /\ SameDisk(m, ReadRootDir(m))
<1> DEFINE n == ReadRootDir(m)
<1>1. RootIsRead(m, n)
  BY RootRead DEF Sound, Ready, Rooted
<1> HIDE DEF n
<1>2. SameDisk(m, n) /\ IsLinks(n.root, 0) /\ n.open = m.open /\ n.held = m.held
  BY <1>1 DEF RootIsRead, Ready, Rooted
<1>3. After(m, n, 0)
  BY <1>2, TablesAfter DEF Sound
<1> QED
  BY <1>2, <1>3 DEF n

LEMMA SysOpenAfter ==
  ASSUME FilesAsMeant, NEW m, Sound(m), Room(m) >= DirectoryBlocks, NEW p \in Procs,
         NEW path, Plain(path), NEW name, NEW flags \in 0 .. 4
  PROVE  After(m, SysOpen(m, p, path, name, flags, Blank), DirectoryBlocks)
<1> DEFINE o == OpenFile(m, path, name, flags, Blank)
           r == ReadRootDir(o.m)
           h == [r.held EXCEPT ![p] = AddProcessFd(@, o.fd)]
           n == [r EXCEPT !.held = h]
<1>0. DirectoryBlocks \in Nat
  BY DiskAssumption
<1>1. SysOpen(m, p, path, name, flags, Blank) \in {o.m, n}
  BY DEF SysOpen, HoldOpened
<1>2. After(m, o.m, DirectoryBlocks)
  BY OpenFileAfter
<1> HIDE DEF o
<1>3. After(o.m, r, 0) /\ SameDisk(o.m, r)
  BY <1>2, RootReadAfter DEF After
<1> HIDE DEF r
<1>4. After(m, r, DirectoryBlocks)
  BY <1>0, <1>2, <1>3, AfterThen
<1>5. Lists(h)
  <2>1. h = [r.held EXCEPT ![p] = AddProcessFd(r.held[p], o.fd)]
    OBVIOUS
  <2>2. Lists(r.held) /\ List(AddProcessFd(r.held[p], o.fd))
    BY <1>4, AddProcessFdList DEF After, Sound, Lists
  <2> QED
    BY <2>1, <2>2, OneList
<1> HIDE DEF h
<1>6. Shape(r) /\ IsLinks(r.root, 0) /\ Table(r.open)
  BY <1>4 DEF After, Sound, Ready, Good, Whole, Formed, Rooted
<1>7. HeldChanged(r, n, h)
  BY <1>6, HeldChange
<1> HIDE DEF n
<1>8. After(r, n, 0) /\ SameDisk(r, n)
  BY <1>4, <1>5, <1>6, <1>7, TablesAfter DEF HeldChanged, After
<1>9. After(m, n, DirectoryBlocks)
  BY <1>0, <1>4, <1>8, AfterThen
<1> QED
  BY <1>1, <1>2, <1>9

LEMMA SysCloseAfter ==
  ASSUME FilesAsMeant, NEW m, Sound(m), NEW p \in Procs, NEW fd
  PROVE  After(m, SysClose(m, p, fd), 0)
<1> DEFINE t == CloseFile(m.open, fd)
           l == [m EXCEPT !.open = t]
           h == [m.held EXCEPT ![p] = RemoveProcessFd(@, fd)]
           n == [l EXCEPT !.held = h]
<1>1. SysClose(m, p, fd) = m \/ SysClose(m, p, fd) = n
  <2>1. Shape(m)
    BY DEF Sound, Ready, Good, Whole, Formed
  <2> QED
    BY <2>1 DEF SysClose, Shape, Fields
<1>2. After(m, m, 0)
  BY UnchangedAfter
<1>3. Shape(m) /\ IsLinks(m.root, 0)
  BY DEF Sound, Ready, Good, Whole, Formed, Rooted
<1>4. Table(t) /\ (DevicesFirst(m.open) => DevicesFirst(t))
  BY CloseFileTable, CloseFileDevices DEF Sound
<1>5. Lists(h)
  <2>1. Lists(m.held) /\ List(RemoveProcessFd(m.held[p], fd))
    BY RemoveProcessFdList DEF Sound, Lists
  <2> QED
    BY <2>1, OneList
<1> HIDE DEF t, h
<1>6. OpenChanged(m, l, t)
  BY <1>3, OpenChange
<1> HIDE DEF l
<1>7. HeldChanged(l, n, h)
  BY <1>6, HeldChange DEF OpenChanged, SameDisk
<1> HIDE DEF n
<1>8. /\ SameDisk(m, n) /\ n.root = m.root
      /\ n.open = t /\ n.held = h
  BY <1>6, <1>7 DEF OpenChanged, HeldChanged, SameDisk
<1>9. After(m, n, 0)
  BY <1>3, <1>4, <1>5, <1>8, TablesAfter
<1> QED
  BY <1>1, <1>2, <1>9 DEF n

LEMMA OpenFdFacts ==
  ASSUME NEW o, Table(o), NEW fd, IsOpen(o, fd)
  PROVE  FdIdToFd(o, fd) \in OpenFd /\ FdIdToFd(o, fd).inode \in InodeId \cup {-1}
<1>1. Len(o) \in Nat
  BY LenOf DEF Table
<1>2. Min(FdsOf(o, fd)) \in 1 .. Len(o)
  BY <1>1, FdsOfMin
<1>3. FdIdToFd(o, fd) \in OpenFd
  BY <1>2 DEF FdIdToFd, Table
<1> QED
  BY <1>3 DEF OpenFd

(* write: either nothing happens or the file is written anew.              *)
LEMMA SysWriteWrites ==
  ASSUME FilesAsMeant, NEW m, Sound(m), Room(m) >= MaxInodeBlocks, NEW p, NEW fd, NEW contents,
         Len(contents) \in Nat
  PROVE  \/ SysWrite(m, p, fd, contents) = m
         \/ /\ Len(contents) <= MaxInodeBlocks
            /\ \E i \in InodeId :
                 /\ i = FdIdToFd(m.open, fd).inode /\ IsOpen(m.open, fd)
                 /\ InodeAt(m, i).type = File
                 /\ Rewrote(m, SysWrite(m, p, fd, contents), i, contents)
<1> DEFINE i == FdIdToFd(m.open, fd).inode
           n == SysWrite(m, p, fd, contents)
<1>1. \/ n = m
      \/ /\ IsOpen(m.open, fd) /\ i # -1 /\ InodeAt(m, i).type = File
         /\ n = WriteToInode(m, InodeAt(m, i), contents)
  BY DEF SysWrite, ProcessHasFilePermission
<1> HIDE DEF n
<1>2. ASSUME IsOpen(m.open, fd), i # -1, InodeAt(m, i).type = File,
             n = WriteToInode(m, InodeAt(m, i), contents), n # m
      PROVE  /\ Len(contents) <= MaxInodeBlocks
             /\ i \in InodeId /\ Rewrote(m, n, i, contents)
  <2>1. i \in InodeId
    BY <1>2, OpenFdFacts DEF Sound
  <2> HIDE DEF i
  <2>2. MaxInodeBlocks \in Nat /\ Room(m) \in Nat
    BY DiskAssumption, FreeFacts
  <2>3. Len(contents) <= MaxInodeBlocks
    BY <1>2, <2>2 DEF WriteToInode
  <2>4. Formed(m) /\ IsInode(InodeAt(m, i), i)
    BY <2>1 DEF Sound, Ready, Good, Whole
  <2>5. Rewrote(m, n, i, contents)
    BY <1>2, <2>1, <2>2, <2>3, <2>4, InodeRewritten
  <2> QED
    BY <2>1, <2>3, <2>5
<1> QED
  BY <1>1, <1>2 DEF n

LEMMA RewroteAfter ==
  ASSUME FilesAsMeant, NEW m, Sound(m), NEW n, NEW i \in InodeId, NEW contents,
         Len(contents) \in Nat, Len(contents) <= MaxInodeBlocks,
         InodeAt(m, i).type = File, Rewrote(m, n, i, contents)
  PROVE  After(m, n, MaxInodeBlocks)
<1>0. Good(m, {}) /\ Rooted(m) /\ MaxInodeBlocks \in Nat /\ 0 \in InodeId
  BY DiskAssumption, Layout DEF Sound, Ready
<1>1. Touched(m, n, i)
  BY <1>0, RewroteTouched
<1>2. InodeAt(n, i).type = File /\ InodeAt(m, i).allocated \in Nat
      /\ InodeAt(n, i).allocated = AtLeast(Len(contents), InodeAt(m, i).allocated)
  BY <1>0 DEF Rewrote, Good, Whole, IsInode
<1>3. Good(n, {})
  <2>1. Good(n, {} \cup {i})
    BY <1>0, <1>1, TouchedGood
  <2>2. Good(n, {i})
    BY <2>1
  <2> QED
    BY <1>2, <2>2, FileIsNoDir, NoDirGood
<1>4. Frame(m, n, {i}) /\ Same(m, n) /\ n.sb.inodes = m.sb.inodes
      /\ Room(n) = Room(m) - Len(contents)
  BY <1>1 DEF Touched, Rewrote
<1>5. Rooted(n)
  BY <1>0, <1>2, <1>4, RootedKept DEF Rooted
<1>6. ButFor(m, n, i)
  <2>1. ASSUME NEW j \in InodeId, j # i
        PROVE  (IsFile(n, j) <=> IsFile(m, j)) /\ (IsFile(m, j) => SameAt(m, n, j))
    BY <1>4, <2>1 DEF Frame, SameAt, IsFile
  <2>2. InodeAt(n, i).allocated >= InodeAt(m, i).allocated
    BY <1>2 DEF AtLeast
  <2> QED
    BY <2>1, <2>2 DEF ButFor
<1>7. Room(n) >= Room(m) - MaxInodeBlocks
  BY <1>0, <1>4, FreeFacts
<1>8. Leads(m, n, MaxInodeBlocks) /\ OneFile(m, n) /\ Stayed(m, n)
  BY <1>3, <1>4, <1>5, <1>6, <1>7 DEF Leads, Ready, OneFile, Stayed, Same
<1> QED
  BY <1>8, StayedAfter

LEMMA SysWriteAfter ==
  ASSUME FilesAsMeant, NEW m, Sound(m), Room(m) >= MaxInodeBlocks, NEW p, NEW fd, NEW contents,
         Len(contents) \in Nat
  PROVE  After(m, SysWrite(m, p, fd, contents), MaxInodeBlocks)
<1>1. MaxInodeBlocks \in Nat
  BY DiskAssumption
<1>2. CASE SysWrite(m, p, fd, contents) = m
  BY <1>1, <1>2, UnchangedAfter
<1>3. CASE SysWrite(m, p, fd, contents) # m
  BY <1>3, SysWriteWrites, RewroteAfter
<1> QED
  BY <1>2, <1>3

-----------------------------------------------------------------------------
(* rm and rmdir                                                            *)

(* Directory i has the links d, and inode j is given back.                 *)
DirUnlinked(m, n, i, d, j) ==
  /\ After(m, n, DirectoryBlocks)
  /\ Frame(m, n, {i, j}) /\ Same(m, n) /\ ~IsDir(InodeAt(n, j))
  /\ i # j => IsDir(InodeAt(n, i)) /\ ReadDir(n, InodeAt(n, i)) = d

LEMMA Unlinked ==
  ASSUME FilesAsMeant, NEW m, Sound(m), Room(m) >= DirectoryBlocks,
         NEW i \in InodeId, IsDir(InodeAt(m, i)), NEW d, IsLinks(d, i), NEW j \in InodeId \ {0}
  PROVE  DirUnlinked(m, DeleteInode(WriteDir(m, d), InodeAt(m, j)), i, d, j)
<1> DEFINE l == WriteDir(m, d)
           inode == InodeAt(m, j)
           n == DeleteInode(l, inode)
<1>1. Good(m, {}) /\ Rooted(m) /\ 0 \in InodeId /\ DirectoryBlocks \in Nat
  BY Layout, DiskAssumption DEF Sound, Ready
<1>2. DirPut(m, l, i, d)
  <2>1. d[1].inode = i
    BY DEF IsLinks, Link
  <2> QED
    BY <1>1, <2>1, DirWritten
<1> HIDE DEF l
<1>3. /\ Touched(m, l, i) /\ Frame(m, l, {i}) /\ Same(m, l) /\ l.sb.inodes = m.sb.inodes
      /\ Room(l) = Room(m) - DirectoryBlocks
      /\ InodeAt(l, i).type = InodeAt(m, i).type
  BY <1>2 DEF DirPut, Touched
<1>4. Good(l, {})
  <2>1. Good(l, {} \ {i})
    BY <1>1, <1>2, DirPutGood
  <2> QED
    BY <2>1
<1>5. Deleted(l, n, j)
  <2>1. inode.id = j
    BY <1>1 DEF Good, Whole, IsInode
  <2>2. ASSUME NEW k \in InodeId, k # j, NEW x \in Used(l, k)
        PROVE  BlockOf(l, k, x) \notin {inode.blocks[y] : y \in 1 .. inode.allocated}
    <3>1. \A y \in Used(m, j) : BlockOf(l, k, x) # BlockOf(m, j, y)
      BY <1>1, <1>3, <2>2, Unshared
    <3> QED
      BY <3>1 DEF Used, BlockOf
  <2> HIDE DEF inode
  <2> QED
    BY <1>4, <2>1, <2>2, InodeDeleted
<1> HIDE DEF inode, n
<1>6. /\ Touched(l, n, j) /\ Frame(l, n, {j}) /\ Same(l, n) /\ InodeAt(n, j).type = Unallocated
      /\ n.sb.inodes = l.sb.inodes \ {j} /\ Room(n) >= Room(l)
  BY <1>5 DEF Deleted, Touched, NewInode
<1>7. Good(n, {})
  <2>1. Good(n, {} \cup {j})
    BY <1>4, <1>6, TouchedGood
  <2>2. Good(n, {j})
    BY <2>1
  <2> QED
    BY <1>6, <2>2, NoDirGood DEF IsDir, Directory, Unallocated
<1>8. Rooted(l)
  BY <1>1, <1>3, RootedKept DEF Rooted
<1>9. Rooted(n)
  BY <1>1, <1>6, <1>8 DEF Rooted, Frame, SameAt, Same
<1>10. Frame(m, n, {i, j})
  <2>1. Frame(m, n, {i} \cup {j})
    BY <1>3, <1>6, FrameTrans
  <2> QED
    BY <2>1, FrameMore
<1>11. ~IsFile(m, i) /\ ~IsFile(n, i) /\ ~IsFile(n, j)
  <2>1. ~IsFile(n, j)
    BY <1>6 DEF IsFile, File, Unallocated
  <2>2. i # j => InodeAt(n, i).type = InodeAt(m, i).type
    BY <1>3, <1>6 DEF Frame, SameAt
  <2> QED
    BY <2>1, <2>2, FileIsNoDir DEF IsFile, IsDir
<1>12. ButFor(m, n, j)
  BY <1>10, <1>11, FrameOneFile
<1>13. Leads(m, n, DirectoryBlocks) /\ OneFile(m, n) /\ Stayed(m, n)
  <2>1. Room(n) >= Room(m) - DirectoryBlocks
    BY <1>1, <1>3, <1>6, FreeFacts
  <2> QED
    BY <1>3, <1>6, <1>7, <1>9, <1>12, <2>1 DEF Leads, Ready, OneFile, Stayed, Same
<1>14. After(m, n, DirectoryBlocks)
  BY <1>13, StayedAfter
<1>15. ASSUME i # j
       PROVE  IsDir(InodeAt(n, i)) /\ ReadDir(n, InodeAt(n, i)) = d
  <2>1. SameAt(l, n, i) /\ InodeAt(n, i) = InodeAt(l, i)
    BY <1>6, <1>15 DEF Frame, SameAt
  <2>2. InodeAt(l, i).allocated \in Nat \ {0}
    BY <1>2, <1>4, DiskAssumption DEF DirPut, Good, Whole, IsInode
  <2>3. ReadDir(n, InodeAt(n, i)) = d
    BY <1>2, <2>1, <2>2, SameRead DEF DirPut
  <2> QED
    BY <1>3, <2>1, <2>3 DEF IsDir
<1>16. ~IsDir(InodeAt(n, j)) /\ Same(m, n)
  BY <1>3, <1>6 DEF IsDir, Directory, Unallocated, Same
<1>17. DirUnlinked(m, n, i, d, j)
  BY <1>10, <1>14, <1>15, <1>16 DEF DirUnlinked
<1> QED
  BY <1>17 DEF n, l, inode

LEMMA SysRmAfter ==
  ASSUME FilesAsMeant, NEW m, Sound(m), Room(m) >= DirectoryBlocks,
         NEW path, Plain(path), NEW name, name \notin {".", ".."}
  PROVE  After(m, SysRm(m, path, name, Blank), DirectoryBlocks)
<1> DEFINE d == ParentDir(m, path, Blank)
           id == PathToInodeId(m, d, <<name>>, Blank)
           l == DeleteFileLink(d, name)
           o == DeleteInode(WriteDir(m, l), InodeAt(m, id))
           n == SysRm(m, path, name, Blank)
<1>0. DirectoryBlocks \in Nat
  BY DiskAssumption
<1>1. n = m \/ (id # -1 /\ n = ReadRootDir(o))
  BY DEF SysRm
<1> HIDE DEF n
<1>2. KnownDir(m, d)
  BY Layout, ParentFacts DEF Sound
<1>3. id = DirectoryLookup(d, name)
  BY NameFound
<1> HIDE DEF d, id
<1>4. ASSUME id # -1
      PROVE  After(m, ReadRootDir(o), DirectoryBlocks)
  <2>1. id \in InodeId \ {0}
    BY <1>2, <1>3, <1>4, KnownLookup
  <2>2. d # <<>>
    BY <1>3, <1>4, EmptyIsSeq DEF DirectoryLookup, LinksTo
  <2>3. PICK i \in InodeId : IsDir(InodeAt(m, i)) /\ IsLinks(d, i)
    BY <1>2, <2>2 DEF KnownDir
  <2>4. IsLinks(l, i)
    BY <2>3, LinkDeleted
  <2> HIDE DEF l
  <2>5. After(m, o, DirectoryBlocks)
    BY <2>1, <2>3, <2>4, Unlinked DEF DirUnlinked
  <2> HIDE DEF o
  <2> QED
    BY <1>0, <2>5, RootReadAfter, AfterThen DEF After
<1>5. After(m, m, DirectoryBlocks)
  BY <1>0, UnchangedAfter
<1> QED
  BY <1>1, <1>4, <1>5 DEF n

LEMMA SysRmdirAfter ==
  ASSUME FilesAsMeant, NEW m, Sound(m), Room(m) >= DirectoryBlocks,
         NEW path, Plain(path), NEW name, name \notin {".", ".."}
  PROVE  After(m, SysRmdir(m, path, name, Blank), DirectoryBlocks)
<1> DEFINE p == ParentInode(m, path, Blank)
           d == ParentDir(m, path, Blank)
           id == PathToInodeId(m, d, <<name>>, Blank)
           inode == InodeOr(m, id, p)
           l == DeleteFileLink(d, name)
           n == SysRmdir(m, path, name, Blank)
           o == DeleteInode(WriteDir(m, l), inode)
<1>0. DirectoryBlocks \in Nat
  BY DiskAssumption
<1>1. n = m \/ (IsDir(inode) /\ n = o)
  BY DEF SysRmdir
<1> HIDE DEF n
<1>2. KnownDir(m, d) /\ KnownInode(m, p)
  BY Layout, ParentFacts DEF Sound
<1>3. id = DirectoryLookup(d, name)
  BY NameFound
<1>4. path = <<>> => d = m.root
  BY DEF ParentDir
<1>5. path # <<>> => d = IF IsDir(p) THEN ReadDir(m, p) ELSE <<>>
  BY BlankIsNoDir DEF ParentDir, DirOr
<1>6. path = <<>> => p = Blank.inode
  BY DEF ParentInode, InodeOr
<1> HIDE DEF p, d, id
<1>7. ASSUME IsDir(inode)
      PROVE  After(m, o, DirectoryBlocks)
  <2>1. id \in (InodeId \ {0}) \cup {-1}
    BY <1>2, <1>3, KnownLookup
  <2>2. KnownInode(m, inode)
    BY <1>2, <2>1, InodeOrFacts
  <2>3. PICK j \in InodeId \ {0} : inode = InodeAt(m, j)
    BY <1>7, <2>2, BlankIsNoDir DEF KnownInode
  <2>4. d # <<>>
    <3>1. CASE id # -1
      BY <1>3, <3>1, EmptyIsSeq DEF DirectoryLookup, LinksTo
    <3>2. CASE id = -1
      <4>1. inode = p
        BY <3>2 DEF InodeOr
      <4>2. path # <<>> /\ d = ReadDir(m, p)
        BY <1>5, <1>6, <1>7, <4>1, BlankIsNoDir
      <4>3. HasLinks(m, j)
        BY <1>7, <2>3 DEF Sound, Ready, Good, Readable
      <4>4. IsLinks(d, j)
        BY <2>3, <4>1, <4>2, <4>3 DEF HasLinks
      <4> QED
        BY <4>4, EmptyIsSeq DEF IsLinks
    <3> QED
      BY <3>1, <3>2
  <2> HIDE DEF inode
  <2>5. PICK i \in InodeId : IsDir(InodeAt(m, i)) /\ IsLinks(d, i)
    BY <1>2, <2>4 DEF KnownDir
  <2>6. IsLinks(l, i)
    BY <2>5, LinkDeleted
  <2> HIDE DEF l
  <2> QED
    BY <2>3, <2>5, <2>6, Unlinked DEF DirUnlinked
<1>8. After(m, m, DirectoryBlocks)
  BY <1>0, UnchangedAfter
<1> QED
  BY <1>1, <1>7, <1>8 DEF n

-----------------------------------------------------------------------------
(* mount and unmount                                                       *)

(* What writing the superblock does.                                       *)
LEMMA SuperblockAfter ==
  ASSUME FilesAsMeant, NEW m, Sound(m)
  PROVE  /\ After(m, WriteSuperblock(m), 0)
         /\ Same(m, WriteSuperblock(m))
         /\ \A i \in InodeId : SameAt(m, WriteSuperblock(m), i)
         /\ WriteSuperblock(m).sb.inodes = m.sb.inodes
<1> DEFINE n == WriteSuperblock(m)
           z == 0
<1>0. Good(m, {}) /\ Rooted(m) /\ z \in InodeId /\ Formed(m)
  BY Layout DEF Sound, Ready, Good, Whole
<1>1. Saved(m, n)
  BY <1>0, SuperblockShape DEF Formed
<1> HIDE DEF n
<1>2. z \in Addr /\ z \notin DataAddr /\ DataAddr \subseteq Addr
  BY Layout, ZeroIsAddr
<1>3. n.disk = [m.disk EXCEPT ![z] = [sb |-> n.sb]] /\ DOMAIN m.disk = Addr
  BY <1>0, <1>1 DEF Saved, Formed, Shape
<1>4. n.sb = [m.sb EXCEPT !.blocks = @ \cup {z}] /\ DOMAIN m.sb = SbFields
  BY <1>0, <1>1, <1>2, Bits DEF Saved, Formed
<1>5. /\ DOMAIN n.sb = SbFields /\ n.sb.num = m.sb.num /\ n.sb.inodes = m.sb.inodes
      /\ n.sb.blocks = m.sb.blocks \cup {z}
  BY <1>4 DEF SbFields
<1>6. Formed(n) /\ Same(m, n)
  BY <1>0, <1>1, <1>2, <1>5 DEF Formed, Saved
<1>7. \A i \in InodeId : InodeAt(n, i) = InodeAt(m, i)
  <2>1. \A a \in Addr : a # z => n.disk[a] = m.disk[a]
    BY <1>3
  <2> QED
    BY <2>1, Layout DEF InodeAt
<1>8. \A a \in DataAddr : n.disk[a] = m.disk[a] /\ (a \in n.sb.blocks <=> a \in m.sb.blocks)
  BY <1>2, <1>3, <1>5
<1>9. ASSUME NEW i \in InodeId
      PROVE  SameAt(m, n, i)
  <2>1. \A k \in Used(m, i) : BlockOf(m, i, k) \in DataAddr
    BY <1>0 DEF Good, Owned
  <2> QED
    BY <1>7, <1>8, <2>1 DEF SameAt
<1>10. Good(n, {})
  <2>1. Whole(n)
    BY <1>0, <1>5, <1>6, <1>7 DEF Good, Whole
  <2>2. Owned(n)
    <3>1. \A i \in InodeId : /\ Used(n, i) = Used(m, i)
                             /\ \A k : BlockOf(n, i, k) = BlockOf(m, i, k)
      BY <1>7 DEF Used, BlockOf
    <3>2. Owned(m) /\ m.sb.blocks \subseteq n.sb.blocks
      BY <1>0, <1>5 DEF Good
    <3> QED
      BY <3>1, <3>2 DEF Owned
  <2>3. ASSUME NEW i \in InodeId, IsDir(InodeAt(n, i))
        PROVE  HasLinks(n, i)
    <3>1. HasLinks(m, i) /\ InodeAt(m, i).allocated \in 0 .. MaxInodeBlocks
      BY <1>0, <1>7, <2>3 DEF Good, Readable, Whole, IsInode
    <3> QED
      BY <1>9, <3>1, SameLinks, DiskAssumption
  <2> QED
    BY <2>1, <2>2, <2>3 DEF Good, Readable
<1>11. Rooted(n)
  BY <1>0, <1>5, <1>6, <1>7 DEF Rooted, Same
<1>12. Room(n) >= Room(m) - 0
  <2>1. Free(n) = Free(m)
    BY <1>8 DEF Free, GetBit
  <2> QED
    BY <2>1, FreeFacts DEF Room
<1>13. ButFor(m, n, z)
  <2>1. InodeAt(m, z).allocated \in Nat
    BY <1>0, DiskAssumption DEF Good, Whole, IsInode
  <2> QED
    BY <1>0, <1>7, <1>9, <2>1 DEF ButFor, IsFile
<1>14. Leads(m, n, 0) /\ OneFile(m, n) /\ Stayed(m, n)
  BY <1>0, <1>6, <1>10, <1>11, <1>12, <1>13 DEF Leads, Ready, OneFile, Stayed, Same
<1>15. After(m, n, 0)
  BY <1>14, StayedAfter
<1> QED
  BY <1>5, <1>6, <1>9, <1>15 DEF n

(* An open that must not create a file.                                    *)
LEMMA OpenOldAfter ==
  ASSUME FilesAsMeant, NEW m, Sound(m), NEW path, Plain(path), NEW name, NEW flags \in 0 .. 4,
         flags \notin {WRITE, READ_WRITE, WRITE_GLOBAL}
  PROVE  After(m, OpenFile(m, path, name, flags, Blank).m, 0)
<1> DEFINE d == ParentDir(m, path, Blank)
           id == PathToInodeId(m, d, <<name>>, Blank)
           n == OpenFile(m, path, name, flags, Blank).m
<1>1. n \in {m, OpenInode(m, id, flags).m}
  BY DEF OpenFile, OpenIn
<1>2. KnownDir(m, d)
  BY Layout, ParentFacts DEF Sound
<1>3. id \in InodeId \cup {-1}
  <2>1. id = DirectoryLookup(d, name)
    BY NameFound
  <2> HIDE DEF d, id
  <2> QED
    BY <1>2, <2>1, LookupFacts DEF KnownDir
<1> HIDE DEF d, id, n
<1>4. After(m, m, 0)
  BY UnchangedAfter
<1>5. After(m, OpenInode(m, id, flags).m, 0)
  BY <1>3, OpenInodeAfter
<1> QED
  BY <1>1, <1>4, <1>5 DEF n

LEMMA IoDevicesSound ==
  ASSUME FilesAsMeant, NEW m, Sound(m), Room(m) >= 2 * DirectoryBlocks
  PROVE  Sound(OpenIoDevices(m))
<1> DEFINE one == OpenDevice(m, "stdin", READ_GLOBAL)
           two == OpenDevice(one, "stdout", WRITE_GLOBAL)
           three == OpenDevice(two, "stderr", WRITE_GLOBAL)
<1>1. OpenIoDevices(m) = three
  BY DEF OpenIoDevices
<1>2. /\ READ_GLOBAL \in 0 .. 4 /\ WRITE_GLOBAL \in 0 .. 4
      /\ READ_GLOBAL \notin {WRITE, READ_WRITE, WRITE_GLOBAL}
  BY DEF READ_GLOBAL, WRITE_GLOBAL, WRITE, READ_WRITE
<1>3. After(m, one, 0)
  BY <1>2, DevIsPlain, OpenOldAfter DEF OpenDevice
<1> HIDE DEF one
<1>4. Room(m) \in Nat /\ Room(one) \in Nat /\ Room(two) \in Nat /\ DirectoryBlocks \in Nat
  BY FreeFacts, DiskAssumption
<1>5. Sound(one) /\ Room(one) >= 2 * DirectoryBlocks
  BY <1>3, <1>4 DEF After
<1>6. After(one, two, DirectoryBlocks)
  BY <1>2, <1>4, <1>5, DevIsPlain, OpenFileAfter DEF OpenDevice
<1> HIDE DEF two
<1>7. Sound(two) /\ Room(two) >= DirectoryBlocks
  BY <1>4, <1>5, <1>6 DEF After
<1>8. After(two, three, DirectoryBlocks)
  BY <1>2, <1>7, DevIsPlain, OpenFileAfter DEF OpenDevice
<1> QED
  BY <1>1, <1>8 DEF After

(* mount of a disk that has been mounted before: what is in memory is read *)
(* from it again.                                                          *)
Reread(m, n) ==
  /\ Sound(n) /\ SameDisk(m, n) /\ n.held = m.held /\ n.open = <<>>
  /\ n.root = ReadDir(m, InodeAt(m, 0))

LEMMA DiskReread ==
  ASSUME FilesAsMeant, NEW m, Ready(m), Lists(m.held), m.disk[0] = [sb |-> m.sb]
  PROVE  \E n : Reread(m, n) /\ SysMount(m) = WriteSuperblock(OpenIoDevices(n))
<1> DEFINE z == [m EXCEPT !.sb = NoSuperblock, !.root = <<>>, !.open = <<>>]
           y == [z EXCEPT !.sb = m.disk[0].sb]
           n == ReadRootDir(y)
<1>1. DOMAIN m = Fields /\ Shape(m) /\ m.sb.num = DiskBlocks
  BY DEF Ready, Good, Whole, Formed, Shape
<1>2. z.disk = m.disk /\ DOMAIN z = Fields /\ z.seen = m.seen /\ z.held = m.held
      /\ z.root = <<>> /\ z.open = <<>>
  BY <1>1 DEF Fields
<1>3. SysMount(m) = WriteSuperblock(OpenIoDevices(n))
  <2>1. "sb" \in DOMAIN m.disk[0] /\ m.disk[0].sb.num = DiskBlocks
    BY <1>1
  <2> HIDE DEF n
  <2> QED
    BY <2>1 DEF SysMount, n
<1> HIDE DEF z
<1>4. SameDisk(m, y) /\ y.held = m.held /\ y.open = <<>>
  BY <1>1, <1>2 DEF SameDisk, Shape, Fields
<1> HIDE DEF y
<1>5. Good(y, {}) /\ 0 \in y.sb.inodes /\ IsDir(InodeAt(y, 0))
      /\ ReadDir(y, InodeAt(y, 0)) = ReadDir(m, InodeAt(m, 0))
  BY <1>4, SameDiskFacts DEF Ready, Rooted, SameDisk
<1>6. RootIsRead(y, n)
  BY <1>5, RootRead
<1> HIDE DEF n
<1>7. Table(<<>>)
  BY EmptyIsSeq, OpenFilesAssumption DEF Table
<1>8. Reread(m, n)
  BY <1>4, <1>5, <1>6, <1>7 DEF Reread, RootIsRead, SameDisk, Sound
<1> QED
  BY <1>3, <1>8

LEMMA SysMountSound ==
  ASSUME FilesAsMeant, NEW m, Ready(m), Lists(m.held), m.disk[0] = [sb |-> m.sb],
         Room(m) >= 2 * DirectoryBlocks
  PROVE  Sound(SysMount(m))
<1>1. PICK n : Reread(m, n) /\ SysMount(m) = WriteSuperblock(OpenIoDevices(n))
  BY DiskReread
<1>2. Sound(n) /\ Room(n) >= 2 * DirectoryBlocks
  BY <1>1, SameDiskFacts DEF Reread
<1>3. Sound(OpenIoDevices(n))
  BY <1>2, IoDevicesSound
<1> QED
  BY <1>1, <1>3, SuperblockAfter DEF After

LEMMA SysUnmountAfter ==
  ASSUME FilesAsMeant, NEW m, Sound(m)
  PROVE  After(m, SysUnmount(m), 0)
<1> DEFINE t == CloseAll(m.open)
           l == [m EXCEPT !.open = t]
           n == WriteSuperblock(l)
<1>1. SysUnmount(m) = n
  BY DEF SysUnmount
<1>2. Table(t) /\ (DevicesFirst(m.open) => DevicesFirst(t))
  BY CloseAllFacts DEF Sound, Table
<1> HIDE DEF t
<1>3. Shape(m) /\ IsLinks(m.root, 0) /\ Lists(m.held)
  BY DEF Sound, Ready, Good, Whole, Formed, Rooted
<1>4. OpenChanged(m, l, t)
  BY <1>3, OpenChange
<1> HIDE DEF l
<1>5. After(m, l, 0)
  BY <1>2, <1>3, <1>4, TablesAfter DEF OpenChanged
<1>6. After(l, n, 0) /\ (\A i \in InodeId : SameAt(l, n, i)) /\ Same(l, n)
  BY <1>5, SuperblockAfter DEF After
<1> HIDE DEF n
<1>7. SameDisk(m, l)
  BY <1>4 DEF OpenChanged
<1>8. OneFile(m, n)
  <2>1. 0 \in InodeId /\ Good(m, {})
    BY Layout DEF Sound, Ready
  <2>2. \A i \in InodeId : InodeAt(l, i) = InodeAt(m, i)
    BY <1>7, SameDiskFacts
  <2>3. \A i \in InodeId : SameAt(m, n, i)
    BY <1>6, <1>7, <2>2 DEF SameAt, SameDisk, Used, BlockOf
  <2>4. InodeAt(m, 0).allocated \in Nat
    BY <2>1, DiskAssumption DEF Good, Whole, IsInode
  <2>5. ButFor(m, n, 0)
    BY <2>1, <2>3, <2>4 DEF ButFor, IsFile, SameAt
  <2> QED
    BY <2>1, <2>5 DEF OneFile
<1>9. Room(n) >= Room(m) - 0
  BY <1>5, <1>6, FreeFacts DEF After
<1>10. DevicesFirst(m.open) => DevicesFirst(n.open)
  BY <1>5, <1>6 DEF After
<1>11. After(m, n, 0)
  BY <1>6, <1>8, <1>9, <1>10 DEF After
<1> QED
  BY <1>1, <1>11

-----------------------------------------------------------------------------
(* A new disk                                                              *)

(* The first k inodes are initialised, and nothing is in use yet.          *)
Prepared(m, k) ==
  /\ Formed(m) /\ m.sb.inodes = {} /\ Free(m) = DataAddr
  /\ \A i \in InodeId : i < k => InodeAt(m, i) = NewInode(i)

LEMMA NewInodeFacts ==
  ASSUME NEW i \in InodeId
  PROVE  /\ NewInode(i).id = i /\ NewInode(i).type = Unallocated
         /\ NewInode(i).allocated = 0 /\ IsInode(NewInode(i), i)
<1> DEFINE z == 0
           zeros == [k \in 1 .. MaxInodeBlocks |-> 0]
           inode == NewInode(i)
<1>1. zeros \in [1 .. MaxInodeBlocks -> Addr]
  BY ZeroIsAddr
<1>2. inode = [id |-> i, type |-> Unallocated, allocated |-> z, blocks |-> zeros]
  BY DEF NewInode
<1>3. z \in 0 .. MaxInodeBlocks /\ Unallocated \in InodeType
  BY DiskAssumption DEF InodeType
<1> HIDE DEF z, zeros, inode
<1>4. IsInode(inode, i)
  BY <1>1, <1>2, <1>3 DEF IsInode
<1>5. inode.id = i /\ inode.type = Unallocated /\ inode.allocated = z
  BY <1>2
<1> QED
  BY <1>4, <1>5 DEF z, inode

LEMMA OnePrepared ==
  ASSUME FilesAsMeant, NEW m, NEW k \in InodeId, Prepared(m, k)
  PROVE  Prepared(WriteInode(m, NewInode(k)), k + 1) /\ Same(m, WriteInode(m, NewInode(k)))
<1> DEFINE inode == NewInode(k)
           n == WriteInode(m, inode)
<1>1. inode.id = k
  BY NewInodeFacts
<1>2. \A i : i = k => NewInode(i) = inode
  OBVIOUS
<1> HIDE DEF inode
<1>3. Stored(m, n, inode)
  BY <1>1, InodeStored DEF Prepared
<1> HIDE DEF n
<1>4. InodeId \subseteq Int
  BY InodeNumFacts DEF InodeId
<1>5. ASSUME NEW i \in InodeId, i < k + 1
      PROVE  InodeAt(n, i) = NewInode(i)
  <2>1. CASE i = k
    BY <1>1, <1>2, <1>3, <2>1 DEF Stored
  <2>2. CASE i # k
    <3>1. i < k
      BY <1>4, <1>5, <2>2
    <3> QED
      BY <1>1, <1>3, <2>2, <3>1 DEF Stored, Prepared
  <2> QED
    BY <2>1, <2>2
<1>6. Prepared(n, k + 1) /\ Same(m, n)
  BY <1>3, <1>5 DEF Stored, Prepared
<1> QED
  BY <1>6 DEF n, inode

LEMMA InodesPrepared ==
  ASSUME FilesAsMeant, NEW m, Prepared(m, 0)
  PROVE  Prepared(InitInodes(m), InodeNum) /\ Same(m, InitInodes(m))
<1> DEFINE N == InodeNum
           P(n, k) == Prepared(n, k) /\ Same(m, n)
<1>1. N \in Nat
  BY InodeNumFacts
<1>2. PICK w : /\ w[0] = m
               /\ \A k \in 1 .. N : w[k] = WriteInode(w[k - 1], NewInode(k - 1))
               /\ InitInodes(m) = w[N]
  BY <1>1, InitRuns
<1>0. InodeId = 0 .. N - 1
  BY DEF InodeId
<1> HIDE DEF N
<1> DEFINE S == {k \in 0 .. N : P(w[k], k)}
<1>3. 0 \in S
  <2>1. P(m, 0)
    BY DEF Same
  <2> QED
    BY <1>1, <1>2, <2>1
<1>4. ASSUME NEW k \in 0 .. N - 1, k \in S
      PROVE  k + 1 \in S
  <2>1. P(w[k], k) /\ k \in InodeId
    BY <1>0, <1>4
  <2> DEFINE n == WriteInode(w[k], NewInode(k))
  <2>2. Prepared(n, k + 1) /\ Same(w[k], n)
    BY <2>1, OnePrepared
  <2> HIDE DEF n
  <2>3. k + 1 \in 1 .. N /\ (k + 1) - 1 = k
    BY <1>1
  <2>4. w[k + 1] = n
    <3>1. w[k + 1] = WriteInode(w[(k + 1) - 1], NewInode((k + 1) - 1))
      BY <1>2, <2>3
    <3> QED
      BY <2>3, <3>1 DEF n
  <2>5. P(n, k + 1)
    BY <2>1, <2>2 DEF Same
  <2> QED
    BY <2>3, <2>4, <2>5
<1>5. P(w[N], N)
  <2> HIDE DEF S
  <2>1. \A k \in 0 .. N : k \in S
    BY <1>1, <1>3, <1>4, UpTo
  <2> QED
    BY <1>1, <2>1 DEF S
<1> QED
  BY <1>2, <1>5 DEF N

LEMMA PreparedGood ==
  ASSUME FilesAsMeant, NEW m, Prepared(m, InodeNum)
  PROVE  Good(m, {}) /\ Room(m) = DiskBlocks - DataStart
<1>1. \A i \in InodeId : i < InodeNum
  BY InodeNumFacts DEF InodeId
<1>2. ASSUME NEW i \in InodeId
      PROVE  /\ InodeAt(m, i).type = Unallocated /\ InodeAt(m, i).allocated = 0
             /\ IsInode(InodeAt(m, i), i)
  <2>1. InodeAt(m, i) = NewInode(i)
    BY <1>1 DEF Prepared
  <2> QED
    BY <2>1, NewInodeFacts
<1>3. Whole(m)
  BY <1>2 DEF Prepared, Whole
<1>4. \A i \in InodeId : Used(m, i) = {}
  BY <1>2 DEF Used
<1>5. Owned(m)
  BY <1>4 DEF Owned
<1>6. Readable(m, {})
  BY <1>2 DEF Readable, IsDir, Directory, Unallocated
<1>7. Room(m) = DiskBlocks - DataStart
  <2>1. DiskBlocks \in Nat /\ DataStart \in Nat /\ DirectoryBlocks \in Nat /\ InodeNum \in Nat
    BY InodeNumFacts, DiskAssumption DEF DataStart, InodeStart
  <2>2. DataStart <= DiskBlocks
    BY <2>1 DEF FilesAsMeant
  <2> DEFINE a == DataStart
             b == DiskBlocks - 1
  <2>3. Cardinality(a .. b) = DiskBlocks - DataStart
    <3>1. a \in Int /\ b \in Int /\ a <= b + 1 /\ b - a + 1 = DiskBlocks - DataStart
      BY <2>1, <2>2
    <3>2. \A i, j \in Int : Cardinality(i .. j) = IF i > j THEN 0 ELSE j - i + 1
      BY FS_Interval
    <3> HIDE DEF a, b
    <3>3. Cardinality(a .. b) = IF a > b THEN 0 ELSE b - a + 1
      BY <3>1, <3>2
    <3> QED
      BY <3>1, <3>3
  <2> QED
    BY <2>3 DEF Room, Prepared, DataAddr
<1> QED
  BY <1>3, <1>5, <1>6, <1>7 DEF Good

(* Inodes are taken in their order.                                        *)
LEMMA InodeIsNext ==
  ASSUME FilesAsMeant, NEW m, NEW new, Good(m, new), NEW type \in InodeType,
         NEW k \in InodeId, m.sb.inodes = 0 .. k - 1
  PROVE  LET c == CreateInodeType(m, type, Blank)
         IN  MadeInode(m, c, type) /\ c.id = k /\ c.m.sb.inodes = 0 .. k
<1> DEFINE c == CreateInodeType(m, type, Blank)
           free == {id \in InodeId : ~GetBit(m.sb.inodes, id)}
<1>1. InodeId \subseteq Nat /\ k \in Nat
  BY InodeNumFacts DEF InodeId
<1>2. k \in free /\ \A i \in free : k <= i
  BY <1>1 DEF GetBit
<1>3. FreeInodeId(m) = IF free = {} THEN -1 ELSE Min(free)
  BY DEF FreeInodeId
<1>4. free \subseteq Nat
  BY <1>1
<1> HIDE DEF free
<1>5. Min(free) \in free /\ \A y \in free : Min(free) <= y
  BY <1>2, <1>4, MinOfSet
<1>6. Min(free) = k
  <2>1. Min(free) <= k /\ k <= Min(free) /\ Min(free) \in Nat
    BY <1>2, <1>4, <1>5
  <2> QED
    BY <1>1, <2>1
<1>7. FreeInodeId(m) = k /\ k # -1
  BY <1>1, <1>2, <1>3, <1>6
<1>8. c.id = k
  BY <1>7 DEF CreateInodeType
<1>9. (c.id = -1 /\ c.m = m) \/ MadeInode(m, c, type)
  BY InodeMade
<1> HIDE DEF c
<1>10. MadeInode(m, c, type)
  BY <1>7, <1>8, <1>9
<1>11. c.m.sb.inodes = 0 .. k
  <2>1. c.m.sb.inodes = (0 .. k - 1) \cup {k}
    BY <1>8, <1>10 DEF MadeInode
  <2>2. (0 .. k - 1) \cup {k} = 0 .. k
    BY <1>1
  <2> QED
    BY <2>1, <2>2
<1> QED
  BY <1>8, <1>10, <1>11 DEF c

RootDots == <<Link(".", 0), Link("..", 0)>>

RootMade(m, n) ==
  /\ Ready(n) /\ n.root = RootDots /\ ReadDir(n, InodeAt(n, 0)) = RootDots
  /\ n.open = m.open /\ n.held = m.held
  /\ n.sb.inodes = 0 .. 0
  /\ Room(n) = Room(m) - DirectoryBlocks

LEMMA RootIsMade ==
  ASSUME FilesAsMeant, NEW m, Good(m, {}), m.sb.inodes = {}, Room(m) >= DirectoryBlocks
  PROVE  RootMade(m, CreateRootDirectory(m))
<1> DEFINE z == 0
           c == CreateInodeType(m, Directory, Blank)
           d == <<Link(".", c.id), Link("..", c.id)>>
           n == WriteDir(c.m, d)
           o == [n EXCEPT !.root = d]
<1>1. CreateRootDirectory(m) = o
  BY DEF CreateRootDirectory
<1>2. z \in InodeId /\ m.sb.inodes = 0 .. z - 1
  BY Layout
<1>3. MadeInode(m, c, Directory) /\ c.id = z /\ c.m.sb.inodes = 0 .. z
  BY <1>2, InodeIsNext DEF InodeType
<1> HIDE DEF c
<1>4. d = RootDots
  BY <1>3 DEF RootDots
<1> HIDE DEF d
<1>5. IsLinks(d, z) /\ d[1].inode = z
  <2>1. IsLinks(d, z)
    BY <1>2, <1>4, DotsFacts DEF RootDots
  <2> QED
    BY <2>1 DEF IsLinks, Link
<1>6. Good(c.m, {z}) /\ Same(m, c.m) /\ Room(c.m) = Room(m) /\ InodeAt(c.m, z).type = Directory
  <2>1. Good(c.m, {} \cup {c.id})
    BY <1>3, TouchedGood DEF MadeInode
  <2> QED
    BY <1>3, <2>1 DEF MadeInode
<1>7. DirPut(c.m, n, z, d)
  BY <1>2, <1>5, <1>6, DirWritten
<1> HIDE DEF n
<1>8. Good(n, {})
  <2>1. Good(n, {z} \ {z})
    BY <1>2, <1>5, <1>6, <1>7, DirPutGood
  <2> QED
    BY <2>1
<1>9. /\ Same(c.m, n) /\ n.sb.inodes = 0 .. z /\ Room(n) = Room(m) - DirectoryBlocks
      /\ InodeAt(n, z).type = Directory /\ ReadDir(n, InodeAt(n, z)) = d
  BY <1>3, <1>6, <1>7 DEF DirPut
<1>10. Shape(n)
  BY <1>8 DEF Good, Whole, Formed
<1>11. /\ o.root = d /\ o.open = n.open /\ o.held = n.held /\ SameDisk(n, o)
  BY <1>10 DEF Shape, Fields, SameDisk
<1> HIDE DEF o
<1>12. Good(o, {}) /\ InodeAt(o, z) = InodeAt(n, z) /\ Room(o) = Room(n)
       /\ ReadDir(o, InodeAt(o, z)) = d /\ o.sb = n.sb
  BY <1>8, <1>9, <1>11, SameDiskFacts DEF SameDisk
<1>13. Rooted(o)
  <2>1. z \in o.sb.inodes
    BY <1>9, <1>12
  <2> QED
    BY <1>5, <1>9, <1>11, <1>12, <2>1 DEF Rooted, IsDir, z
<1>14. RootMade(m, o)
  BY <1>4, <1>6, <1>9, <1>11, <1>12, <1>13 DEF RootMade, Ready, Same, z
<1> QED
  BY <1>1, <1>14

LEMMA DiskInitialised ==
  ASSUME FilesAsMeant, NEW m, Shape(m)
  PROVE  \E n : /\ n.open = m.open /\ n.held = m.held /\ Room(n) = DiskBlocks - DataStart
                /\ RootMade(n, InitDisk(m))
<1> DEFINE z == 0
           v == [num |-> DiskBlocks, inodes |-> {}, blocks |-> {}]
           l == [m EXCEPT !.sb = v]
           n == WriteSuperblock(l)
           i == InitInodes(n)
<1>1. InitDisk(m) = CreateRootDirectory(i)
  BY DEF InitDisk
<1>2. v.num = DiskBlocks /\ v.inodes = {} /\ v.blocks = {} /\ DOMAIN v = SbFields
  BY DEF SbFields
<1> HIDE DEF v
<1>3. Shape(l) /\ l.sb = v /\ Same(m, l)
  BY DEF Shape, Fields, Same
<1> HIDE DEF l
<1>4. Saved(l, n)
  BY <1>3, SuperblockShape
<1> HIDE DEF n
<1>5. z \in Addr /\ z \notin DataAddr
  BY Layout, ZeroIsAddr
<1>6. n.sb = [v EXCEPT !.blocks = {z}]
  BY <1>2, <1>3, <1>4, <1>5, Bits DEF Saved
<1>7. n.sb.num = DiskBlocks /\ n.sb.inodes = {} /\ n.sb.blocks = {z} /\ DOMAIN n.sb = SbFields
  BY <1>2, <1>6 DEF SbFields
<1>8. Formed(n)
  BY <1>4, <1>5, <1>7 DEF Formed, Saved
<1>9. Free(n) = DataAddr
  BY <1>5, <1>7 DEF Free, GetBit
<1>10. Prepared(n, z)
  <2>1. \A j \in InodeId : ~(j < z)
    BY InodeNumFacts DEF InodeId
  <2> QED
    BY <1>7, <1>8, <1>9, <2>1 DEF Prepared
<1>11. Prepared(i, InodeNum) /\ Same(n, i)
  BY <1>10, InodesPrepared DEF z
<1> HIDE DEF i
<1>12. Good(i, {}) /\ Room(i) = DiskBlocks - DataStart
  BY <1>11, PreparedGood
<1>13. RootMade(i, CreateRootDirectory(i))
  <2>1. DiskBlocks \in Nat /\ DataStart \in Nat /\ DirectoryBlocks \in Nat
    BY InodeNumFacts, DiskAssumption DEF DataStart, InodeStart
  <2>2. Room(i) >= DirectoryBlocks
    BY <1>12, <2>1 DEF FilesAsMeant
  <2> QED
    BY <1>11, <1>12, <2>2, RootIsMade DEF Prepared
<1> QED
  BY <1>1, <1>3, <1>4, <1>11, <1>12, <1>13 DEF Same, Saved

(* A file that there is room for is made, and gets the next inode.         *)
LEMMA FileIsMade ==
  ASSUME FilesAsMeant, NEW m, Ready(m), Room(m) >= DirectoryBlocks,
         NEW d, KnownDir(m, d), NEW name, LinksTo(d, name) = {}, Len(d) + 1 < MaxFiles,
         NEW type \in InodeType, NEW k \in InodeId, m.sb.inodes = 0 .. k - 1
  PROVE  LET a == CreateFile(m, d, name, type, Blank)
         IN  Linked(m, a, d, name, type) /\ a.id = k /\ a.m.sb.inodes = 0 .. k
<1> DEFINE c == CreateInodeType(m, type, Blank)
           a == CreateFile(m, d, name, type, Blank)
<1>1. MadeInode(m, c, type) /\ c.id = k /\ c.m.sb.inodes = 0 .. k
  BY InodeIsNext DEF Ready
<1>2. a = AddLink(d, name, c)
  <2>1. Len(d) \in Nat /\ MaxFiles \in Nat
    BY KnownLen, DiskAssumption
  <2>2. DirectoryLookup(d, name) = -1 /\ ~(DirectoryLookup(d, name) >= 0)
    BY DEF DirectoryLookup
  <2> HIDE DEF c
  <2> QED
    BY <2>1, <2>2 DEF CreateFile, c
<1> HIDE DEF a
<1>3. k # -1 /\ k \in Nat
  BY InodeNumFacts DEF InodeId
<1>4. a.id = k
  <2> HIDE DEF c
  <2> QED
    BY <1>1, <1>2, <1>3 DEF AddLink
<1> HIDE DEF c
<1>5. Linked(m, a, d, name, type)
  BY <1>1, <1>2, LinkIsAdded
<1>6. a.m.sb.inodes = 0 .. k
  <2>1. a.m.sb.inodes = (0 .. k - 1) \cup {k}
    BY <1>4, <1>5 DEF Linked
  <2>2. (0 .. k - 1) \cup {k} = 0 .. k
    BY <1>3
  <2> QED
    BY <2>1, <2>2
<1> QED
  BY <1>4, <1>5, <1>6 DEF a

(* The directory of the devices, link by link, and the device of inode k.  *)
DevName(k) == IF k = 2 THEN "stdin" ELSE IF k = 3 THEN "stdout" ELSE "stderr"

DevLink(j) ==
  IF j = 1 THEN Link(".", 1) ELSE IF j = 2 THEN Link("..", 0) ELSE Link(DevName(j - 1), j - 1)

RootLinks == Append(RootDots, Link("dev", 1))

(* c is the directory when inodes 0 .. k - 1 are made.                     *)
DevsMade(m, c, k, r) ==
  /\ Ready(c.m) /\ c.m.open = m.open /\ c.m.held = m.held /\ Room(c.m) = Room(m) - r
  /\ c.m.sb.inodes = 0 .. k - 1
  /\ IsDir(InodeAt(c.m, 1)) /\ ReadDir(c.m, InodeAt(c.m, 1)) = c.dir
  /\ IsLinks(c.dir, 1) /\ Len(c.dir) = k /\ \A j \in 1 .. k : c.dir[j] = DevLink(j)
  /\ c.m.root = RootDots /\ ReadDir(c.m, InodeAt(c.m, 0)) = RootLinks
  /\ \A j \in 2 .. k - 1 : InodeAt(c.m, j).type = Device

LEMMA FirstInodes ==
  ASSUME FilesAsMeant
  PROVE  0 .. 4 \subseteq InodeId
BY InodeNumFacts DEF InodeId

LEMMA RootDotsFacts ==
  ASSUME FilesAsMeant
  PROVE  /\ IsLinks(RootDots, 0) /\ RootDots # <<>> /\ Len(RootDots) = 2
         /\ RootDots[1] = Link(".", 0) /\ RootDots[2] = Link("..", 0)
         /\ LinksTo(RootDots, "dev") = {}
<1>1. IsLinks(RootDots, 0) /\ Len(RootDots) = 2
  BY FirstInodes, DotsFacts DEF RootDots
<1>2. RootDots[1] = Link(".", 0) /\ RootDots[2] = Link("..", 0)
  BY DEF RootDots
<1>3. RootDots # <<>>
  BY <1>1, EmptyIsSeq
<1>4. RootDots[1].name = "." /\ RootDots[2].name = ".."
  BY <1>2 DEF Link
<1> HIDE DEF RootDots
<1>5. LinksTo(RootDots, "dev") = {}
  <2>1. \A k \in 1 .. 2 : RootDots[k].name # "dev"
    BY <1>4
  <2> QED
    BY <1>1, <2>1 DEF LinksTo
<1> QED
  BY <1>1, <1>2, <1>3, <1>5

(* A directory's first link tells which one it is.                         *)
LEMMA OwnLinks ==
  ASSUME NEW d, NEW i, NEW j, IsLinks(d, i), IsLinks(d, j)
  PROVE  i = j
<1>1. Link(".", i).inode = i /\ Link(".", j).inode = j
  BY DEF Link
<1>2. d[1] = Link(".", i) /\ d[1] = Link(".", j)
  BY DEF IsLinks
<1> QED
  BY <1>1, <1>2

LEMMA DevIsMade ==
  ASSUME FilesAsMeant, NEW m, Ready(m), Room(m) >= 2 * DirectoryBlocks,
         m.root = RootDots, ReadDir(m, InodeAt(m, 0)) = RootDots, m.sb.inodes = 0 .. 0
  PROVE  LET dev == CreateDirectory(m, m.root, "dev", Blank)
         IN  DevsMade(m, dev, 2, 2 * DirectoryBlocks) /\ dev.id = 1
<1> DEFINE one == 1
           c == CreateFile(m, RootDots, "dev", Directory, Blank)
           dev == CreateDirectory(m, m.root, "dev", Blank)
           dots == <<Link(".", c.id), Link("..", RootDots[1].inode)>>
<1>1. Room(m) \in Nat /\ DirectoryBlocks \in Nat /\ Room(m) >= DirectoryBlocks
  BY FreeFacts, DiskAssumption
<1>2. dev = AddDots(RootDots, c)
  BY DEF CreateDirectory
<1> HIDE DEF dev
<1>3. KnownDir(m, RootDots)
  <2>1. IsDir(InodeAt(m, 0)) /\ IsLinks(RootDots, 0) /\ 0 \in InodeId
    BY RootDotsFacts, FirstInodes DEF Ready, Rooted
  <2> QED
    BY <2>1 DEF KnownDir
<1>4. Linked(m, c, RootDots, "dev", Directory) /\ c.id = one
  <2> DEFINE name == "dev"
  <2>0. Len(RootDots) = 2 /\ MaxFiles \in Nat /\ MaxFiles >= 6
    BY RootDotsFacts, DiskAssumption
  <2>1. one \in InodeId /\ Len(RootDots) + 1 < MaxFiles
    BY <2>0, FirstInodes
  <2>2. m.sb.inodes = 0 .. one - 1
    OBVIOUS
  <2>3. LinksTo(RootDots, name) = {} /\ Directory \in InodeType
    BY RootDotsFacts DEF InodeType
  <2>4. c = CreateFile(m, RootDots, name, Directory, Blank)
    OBVIOUS
  <2> HIDE DEF one, name, c
  <2>5. Linked(m, c, RootDots, name, Directory) /\ c.id = one
    BY <1>1, <1>3, <2>1, <2>2, <2>3, <2>4, FileIsMade
  <2> QED
    BY <2>5 DEF name
<1> HIDE DEF c
<1>5. DirMade(m, dev, RootDots, "dev")
  BY <1>1, <1>2, <1>3, <1>4, RootDotsFacts, DotsAdded
<1>6. dev.id = one /\ dev.dir = dots
  <2>1. c.id # -1
    BY <1>4
  <2> HIDE DEF dots, one
  <2> QED
    BY <1>2, <1>4, <2>1 DEF AddDots, dots
<1>7. dots[1] = DevLink(1) /\ dots[2] = DevLink(2)
  <2>1. RootDots[1].inode = 0
    BY RootDotsFacts DEF Link
  <2>2. dots[1] = Link(".", one) /\ dots[2] = Link("..", 0)
    BY <1>4, <2>1
  <2>3. DevLink(1) = Link(".", 1) /\ DevLink(2) = Link("..", 0)
    BY DEF DevLink
  <2> QED
    BY <2>2, <2>3
<1>8. PICK i \in InodeId :
         /\ ReadDir(dev.m, InodeAt(dev.m, i)) = Append(RootDots, Link("dev", dev.id))
         /\ IsLinks(RootDots, i)
  BY <1>5 DEF DirMade
<1>9. i = 0
  BY <1>8, RootDotsFacts, OwnLinks
<1>10. ReadDir(dev.m, InodeAt(dev.m, 0)) = RootLinks
  BY <1>6, <1>8, <1>9 DEF RootLinks, one
<1> HIDE DEF dots
<1>11. dev.m.sb.inodes = 0 .. 1
  <2>1. dev.m.sb.inodes = (0 .. 0) \cup {1}
    BY <1>5, <1>6 DEF DirMade, one
  <2> QED
    BY <2>1
<1>12. /\ Ready(dev.m) /\ Same(m, dev.m) /\ IsDir(InodeAt(dev.m, one))
       /\ ReadDir(dev.m, InodeAt(dev.m, one)) = dev.dir /\ IsLinks(dev.dir, one)
       /\ Len(dev.dir) = 2 /\ Room(dev.m) = Room(m) - 2 * DirectoryBlocks
  BY <1>5, <1>6 DEF DirMade
<1>13. \A j \in 1 .. 2 : dev.dir[j] = DevLink(j)
  BY <1>6, <1>7
<1>14. DevsMade(m, dev, 2, 2 * DirectoryBlocks)
  <2>1. \A j \in 2 .. 1 : InodeAt(dev.m, j).type = Device
    OBVIOUS
  <2>2. 2 - 1 = 1
    OBVIOUS
  <2> QED
    BY <1>10, <1>11, <1>12, <1>13, <2>1, <2>2 DEF DevsMade, Same, one
<1> QED
  BY <1>6, <1>14 DEF dev, one

LEMMA DeviceIsMade ==
  ASSUME FilesAsMeant, NEW m, NEW c, NEW k \in 2 .. 4, NEW r \in Nat, DevsMade(m, c, k, r),
         Room(m) \in Nat, Room(m) - r >= DirectoryBlocks
  PROVE  DevsMade(m, CreateDevice(c, DevName(k)), k + 1, r + DirectoryBlocks)
<1> DEFINE one == 1
           name == DevName(k)
           a == CreateDevice(c, name)
<1>0. k \in InodeId /\ one \in InodeId /\ DirectoryBlocks \in Nat
  BY FirstInodes, DiskAssumption
<1>1. a = CreateFile(c.m, c.dir, name, Device, Blank)
  BY DEF CreateDevice
<1> HIDE DEF a
<1>2. /\ Ready(c.m) /\ IsDir(InodeAt(c.m, one)) /\ ReadDir(c.m, InodeAt(c.m, one)) = c.dir
      /\ IsLinks(c.dir, one) /\ Len(c.dir) = k /\ c.m.sb.inodes = 0 .. k - 1
      /\ Room(c.m) = Room(m) - r
      /\ \A j \in 1 .. k : c.dir[j] = DevLink(j)
  BY DEF DevsMade
<1>3. KnownDir(c.m, c.dir)
  BY <1>0, <1>2 DEF KnownDir
<1>4. \A j \in 1 .. k : c.dir[j].name # name
  <2>1. \A j \in 1 .. k : DevLink(j).name # name
    BY DEF DevLink, Link, DevName
  <2> QED
    BY <1>2, <2>1
<1> HIDE DEF name, one
<1>5. Linked(c.m, a, c.dir, name, Device) /\ a.id = k /\ a.m.sb.inodes = 0 .. k
  <2>1. LinksTo(c.dir, name) = {}
    BY <1>2, <1>4 DEF LinksTo
  <2>2. Len(c.dir) + 1 < MaxFiles
    BY <1>2, DiskAssumption
  <2> QED
    BY <1>0, <1>1, <1>2, <1>3, <2>1, <2>2, FileIsMade DEF InodeType
<1>6. PICK i \in InodeId :
       /\ Frame(c.m, a.m, {i, a.id}) /\ InodeAt(a.m, i).allocated >= 1
       /\ HoldsDirectory(a.m, InodeAt(a.m, i)) /\ ReadDir(a.m, InodeAt(a.m, i)) = a.dir
       /\ IsDir(InodeAt(a.m, i)) /\ IsLinks(c.dir, i)
  <2>1. c.dir # <<>>
    BY <1>2, EmptyIsSeq
  <2> QED
    BY <1>5, <2>1 DEF Linked
<1>7. i = one
  BY <1>2, <1>6, OwnLinks
<1>8. a.dir = Append(c.dir, Link(name, k)) /\ InodeAt(a.m, k).type = Device
      /\ Same(c.m, a.m) /\ Good(a.m, {k}) /\ Rooted(a.m)
      /\ Room(a.m) = Room(c.m) - DirectoryBlocks
  BY <1>5 DEF Linked
<1>9. Ready(a.m)
  <2>1. ~IsDir(InodeAt(a.m, k))
    BY <1>8 DEF IsDir, Directory, Device
  <2> QED
    BY <1>8, <2>1, NoDirGood DEF Ready
<1>10. HasLinks(a.m, one)
  BY <1>6, <1>7, <1>9 DEF Ready, Good, Readable
<1>11. /\ Len(a.dir) = k + 1 /\ a.dir[k + 1] = Link(name, k)
       /\ \A j \in 1 .. k : a.dir[j] = c.dir[j]
  BY <1>2, <1>8, AppendSeq DEF IsLinks
<1>12. \A j \in 1 .. k + 1 : a.dir[j] = DevLink(j)
  <2>1. DevLink(k + 1) = Link(name, k)
    BY DEF DevLink, name
  <2>2. \A j \in 1 .. k + 1 : j \in 1 .. k \/ j = k + 1
    OBVIOUS
  <2> QED
    BY <1>2, <1>11, <2>1, <2>2
<1>13. ReadDir(a.m, InodeAt(a.m, 0)) = RootLinks
  <2>1. 0 \in InodeId /\ 0 # one /\ 0 # k
    BY FirstInodes DEF one
  <2>2. SameAt(c.m, a.m, 0)
    BY <1>5, <1>6, <1>7, <2>1 DEF Frame
  <2>3. InodeAt(c.m, 0).allocated \in Nat \ {0}
    <3>1. HasLinks(c.m, 0) /\ InodeAt(c.m, 0).allocated \in Nat
      BY <1>2, <2>1, DiskAssumption DEF Ready, Good, Readable, Rooted, Whole, IsInode
    <3> QED
      BY <3>1 DEF HasLinks
  <2> QED
    BY <2>2, <2>3, SameRead DEF DevsMade
<1>14. ASSUME NEW j \in 2 .. k
       PROVE  InodeAt(a.m, j).type = Device
  <2>1. CASE j = k
    BY <1>8, <2>1
  <2>2. CASE j # k
    <3>1. j \in InodeId /\ j \in 2 .. k - 1 /\ j # one
      BY <2>2, FirstInodes DEF one
    <3>2. InodeAt(a.m, j) = InodeAt(c.m, j)
      BY <1>5, <1>6, <1>7, <2>2, <3>1 DEF Frame, SameAt
    <3> QED
      BY <3>1, <3>2 DEF DevsMade
  <2> QED
    BY <2>1, <2>2
<1>15. a.m.open = m.open /\ a.m.held = m.held /\ a.m.root = RootDots
  BY <1>8 DEF Same, DevsMade
<1>16. Room(a.m) = Room(m) - (r + DirectoryBlocks)
  BY <1>0, <1>2, <1>8
<1>17. IsDir(InodeAt(a.m, 1)) /\ ReadDir(a.m, InodeAt(a.m, 1)) = a.dir /\ IsLinks(a.dir, 1)
  BY <1>6, <1>7, <1>10 DEF HasLinks, one
<1>18. (k + 1) - 1 = k
  OBVIOUS
<1>19. DevsMade(m, a, k + 1, r + DirectoryBlocks)
  BY <1>5, <1>9, <1>11, <1>12, <1>13, <1>14, <1>15, <1>16, <1>17, <1>18 DEF DevsMade
<1> QED
  BY <1>19 DEF a, name

LEMMA IoDevicesMade ==
  ASSUME FilesAsMeant, NEW m, Ready(m), Room(m) >= 5 * DirectoryBlocks,
         m.root = RootDots, ReadDir(m, InodeAt(m, 0)) = RootDots, m.sb.inodes = 0 .. 0
  PROVE  \E c : /\ DevsMade(m, c, 5, 5 * DirectoryBlocks)
                /\ CreateIoDevices(m) = [c.m EXCEPT !.root = RootLinks]
<1> DEFINE dev == CreateDirectory(m, m.root, "dev", Blank)
           one == CreateDevice(dev, "stdin")
           two == CreateDevice(one, "stdout")
           three == CreateDevice(two, "stderr")
           r == Append(m.root, Link("dev", dev.id))
           D == DirectoryBlocks
<1>1. CreateIoDevices(m) = [three.m EXCEPT !.root = r]
  BY DEF CreateIoDevices
<1>2. Room(m) \in Nat /\ D \in Nat /\ Room(m) >= 5 * D
  BY FreeFacts, DiskAssumption
<1>3. DevsMade(m, dev, 2, 2 * D) /\ dev.id = 1
  BY <1>2, DevIsMade
<1>4. r = RootLinks
  BY <1>3 DEF RootLinks
<1>5. DevName(2) = "stdin" /\ DevName(3) = "stdout" /\ DevName(4) = "stderr"
  BY DEF DevName
<1>7. one = CreateDevice(dev, DevName(2)) /\ two = CreateDevice(one, DevName(3))
      /\ three = CreateDevice(two, DevName(4))
  BY <1>5
<1> HIDE DEF dev, one, two, three, r, D
<1>8. DevsMade(m, one, 2 + 1, 2 * D + D)
  <2>1. 2 \in 2 .. 4 /\ 2 * D \in Nat /\ Room(m) - 2 * D >= D
    BY <1>2
  <2> QED
    BY <1>2, <1>3, <1>7, <2>1, DeviceIsMade DEF D
<1>9. DevsMade(m, one, 3, 3 * D)
  <2>1. 2 + 1 = 3 /\ 2 * D + D = 3 * D
    BY <1>2
  <2> QED
    BY <1>8, <2>1
<1>10. DevsMade(m, two, 3 + 1, 3 * D + D)
  <2>1. 3 \in 2 .. 4 /\ 3 * D \in Nat /\ Room(m) - 3 * D >= D
    BY <1>2
  <2> QED
    BY <1>2, <1>7, <1>9, <2>1, DeviceIsMade DEF D
<1>11. DevsMade(m, two, 4, 4 * D)
  <2>1. 3 + 1 = 4 /\ 3 * D + D = 4 * D
    BY <1>2
  <2> QED
    BY <1>10, <2>1
<1>12. DevsMade(m, three, 4 + 1, 4 * D + D)
  <2>1. 4 \in 2 .. 4 /\ 4 * D \in Nat /\ Room(m) - 4 * D >= D
    BY <1>2
  <2> QED
    BY <1>2, <1>7, <1>11, <2>1, DeviceIsMade DEF D
<1>13. DevsMade(m, three, 5, 5 * D)
  <2>1. 4 + 1 = 5 /\ 4 * D + D = 5 * D
    BY <1>2
  <2> QED
    BY <1>12, <2>1
<1> QED
  BY <1>1, <1>4, <1>13 DEF D

-----------------------------------------------------------------------------
(* The devices: inode 1 is /dev, 2 to 4 are what it has                    *)

DevNames == {"dev", "stdin", "stdout", "stderr"}

(* The links of directory i: /dev and what it has are where mount looks    *)
(* for them, and under no other names.                                     *)
DirHas(d, i) ==
  /\ \A k \in 1 .. Len(d) : d[k].inode \in 1 .. 4 => d[k].name \in DevNames \cup {".", ".."}
  /\ i = 0 => DirectoryLookup(d, "dev") = 1
  /\ i = 1 => \A j \in 2 .. 4 : DirectoryLookup(d, DevName(j)) = j

HasDevices(m) ==
  /\ IsDir(InodeAt(m, 1)) /\ \A i \in 2 .. 4 : InodeAt(m, i).type = Device
  /\ DirHas(m.root, 0)
  /\ \A i \in InodeId : IsDir(InodeAt(m, i)) => DirHas(ReadDir(m, InodeAt(m, i)), i)

FoundAt(d, name, k) ==
  /\ k \in 1 .. Len(d) /\ d[k].name = name
  /\ \A j \in 1 .. Len(d) : d[j].name = name => k <= j

LEMMA LookupAt ==
  ASSUME NEW d, Len(d) \in Nat, NEW name, NEW k, FoundAt(d, name, k)
  PROVE  DirectoryLookup(d, name) = d[k].inode
<1> DEFINE S == LinksTo(d, name)
<1>1. k \in S /\ \A j \in S : k <= j
  BY DEF FoundAt, LinksTo
<1>2. S \subseteq Nat
  BY DEF LinksTo
<1>3. DirectoryLookup(d, name) = IF S = {} THEN -1 ELSE d[Min(S)].inode
  BY DEF DirectoryLookup
<1> HIDE DEF S
<1>4. Min(S) \in S /\ \A y \in S : Min(S) <= y
  BY <1>1, <1>2, MinOfSet
<1>5. Min(S) = k
  <2>1. Min(S) <= k /\ k <= Min(S) /\ Min(S) \in Nat /\ k \in Nat
    BY <1>1, <1>2, <1>4
  <2> QED
    BY <2>1
<1> QED
  BY <1>1, <1>3, <1>5

LEMMA LookupHas ==
  ASSUME NEW d, Len(d) \in Nat, NEW name, NEW i, DirectoryLookup(d, name) = i, i # -1
  PROVE  \E k : FoundAt(d, name, k) /\ d[k].inode = i
<1> DEFINE k == Min(LinksTo(d, name))
<1>1. LinksTo(d, name) # {} /\ d[k].inode = i
  BY DEF DirectoryLookup
<1>2. FoundAt(d, name, k)
  BY <1>1, LinksToFacts DEF FoundAt
<1> HIDE DEF k
<1> QED
  BY <1>1, <1>2

(* A link behind the others is found last, a link of another name not      *)
(* missed.                                                                 *)
LEMMA LookupAppend ==
  ASSUME NEW d, IsSeq(d), NEW name, NEW i, DirectoryLookup(d, name) = i, i # -1, NEW l
  PROVE  DirectoryLookup(Append(d, l), name) = i
<1> DEFINE e == Append(d, l)
<1>1. Len(d) \in Nat
  BY LenOf
<1>2. PICK k : FoundAt(d, name, k) /\ d[k].inode = i
  BY <1>1, LookupHas
<1>3. Len(e) = Len(d) + 1 /\ \A j \in 1 .. Len(d) : e[j] = d[j]
  BY AppendSeq
<1> HIDE DEF e
<1>4. FoundAt(e, name, k)
  <2>1. k \in 1 .. Len(e) /\ e[k].name = name
    BY <1>1, <1>2, <1>3 DEF FoundAt
  <2>2. ASSUME NEW j \in 1 .. Len(e), e[j].name = name
        PROVE  k <= j
    <3>1. CASE j \in 1 .. Len(d)
      BY <1>2, <1>3, <2>2, <3>1 DEF FoundAt
    <3>2. CASE j = Len(d) + 1
      BY <1>1, <1>2, <3>2 DEF FoundAt
    <3> QED
      BY <1>1, <1>3, <3>1, <3>2
  <2> QED
    BY <2>1, <2>2 DEF FoundAt
<1>5. e[k].inode = i /\ Len(e) \in Nat
  BY <1>1, <1>2, <1>3 DEF FoundAt
<1> QED
  BY <1>4, <1>5, LookupAt DEF e

LEMMA LookupDelete ==
  ASSUME NEW d, IsSeq(d), NEW name, NEW i, DirectoryLookup(d, name) = i, i # -1,
         NEW other, other # name
  PROVE  DirectoryLookup(DeleteFileLink(d, other), name) = i
<1>1. Len(d) \in Nat
  BY LenOf
<1>2. CASE LinksTo(d, other) = {}
  BY <1>2 DEF DeleteFileLink
<1>3. CASE LinksTo(d, other) # {}
  <2> DEFINE x == Min(LinksTo(d, other))
             e == RemoveAt(d, x)
  <2>1. x \in 1 .. Len(d) /\ d[x].name = other
    BY <1>1, <1>3, LinksToFacts
  <2>2. DeleteFileLink(d, other) = e
    BY <1>3 DEF DeleteFileLink
  <2> HIDE DEF x
  <2>3. Removed(d, e, x)
    BY <2>1, RemoveSeq
  <2> HIDE DEF e
  <2>4. PICK k : FoundAt(d, name, k) /\ d[k].inode = i
    BY <1>1, LookupHas
  <2>5. k # x /\ k \in 1 .. Len(d) /\ d[k].name = name
        /\ \A j \in 1 .. Len(d) : d[j].name = name => k <= j
    BY <2>1, <2>4 DEF FoundAt
  <2>6. Len(e) = Len(d) - 1
    BY <2>3 DEF Removed
  <2> DEFINE h == IF k < x THEN k ELSE k - 1
  <2>7. h \in 1 .. Len(e) /\ e[h] = d[k]
    BY <1>1, <2>1, <2>3, <2>5, <2>6 DEF Removed
  <2>8. ASSUME NEW j \in 1 .. Len(e), e[j].name = name
        PROVE  h <= j
    <3>1. CASE j < x
      <4>1. e[j] = d[j] /\ j \in 1 .. Len(d)
        BY <1>1, <2>3, <2>6, <2>8, <3>1 DEF Removed
      <4>2. k <= j
        BY <2>5, <2>8, <4>1
      <4> QED
        BY <2>1, <2>5, <3>1, <4>2
    <3>2. CASE ~(j < x)
      <4>1. e[j] = d[j + 1] /\ j + 1 \in 1 .. Len(d)
        BY <1>1, <2>3, <2>6, <2>8, <3>2 DEF Removed
      <4>2. k <= j + 1
        BY <2>5, <2>8, <4>1
      <4> QED
        BY <2>1, <2>5, <3>2, <4>2
    <3> QED
      BY <3>1, <3>2
  <2> HIDE DEF h
  <2>9. FoundAt(e, name, h) /\ e[h].inode = i
    BY <2>4, <2>5, <2>7, <2>8 DEF FoundAt
  <2> QED
    BY <1>1, <2>2, <2>6, <2>7, <2>9, LookupAt
<1> QED
  BY <1>2, <1>3

LEMMA RootLinksFacts ==
  ASSUME FilesAsMeant
  PROVE  IsLinks(RootLinks, 0) /\ DirHas(RootLinks, 0)
<1> DEFINE name == "dev"
           one == 1
           l == Link(name, one)
           d == RootLinks
<1>1. /\ IsLinks(RootDots, 0) /\ Len(RootDots) = 2
      /\ RootDots[1] = Link(".", 0) /\ RootDots[2] = Link("..", 0)
  BY RootDotsFacts
<1>2. d = Append(RootDots, l)
  BY DEF RootLinks
<1> DEFINE z == 0
<1>3. /\ one \in InodeId /\ one # z /\ IsLinks(RootDots, z) /\ IsSeq(RootDots)
      /\ Len(RootDots) + 1 < MaxFiles
  <2>1. IsSeq(RootDots)
    BY <1>1 DEF IsLinks
  <2> QED
    BY <1>1, <2>1, FirstInodes, DiskAssumption
<1> HIDE DEF d, z, one, name
<1>4. IsLinks(d, 0)
  <2>1. z = 0
    BY DEF z
  <2> QED
    BY <1>2, <1>3, <2>1, LinkAdded
<1>5. l.name = "dev" /\ l.inode = 1
  BY DEF Link, name, one
<1> HIDE DEF l
<1>0. /\ Len(d) = Len(RootDots) + 1 /\ d[Len(RootDots) + 1] = l
      /\ \A k \in 1 .. Len(RootDots) : d[k] = RootDots[k]
  BY <1>2, <1>3, AppendSeq
<1>6. Len(d) = 3 /\ d[1] = Link(".", 0) /\ d[2] = Link("..", 0) /\ d[3] = l
  BY <1>0, <1>1
<1>7. d[1].name = "." /\ d[1].inode = 0 /\ d[2].name = ".." /\ d[2].inode = 0
  BY <1>6 DEF Link
<1>8. ASSUME NEW k \in 1 .. 3, d[k].inode \in 1 .. 4
      PROVE  d[k].name \in DevNames
  <2>1. k = 3
    BY <1>7, <1>8
  <2> QED
    BY <1>5, <1>6, <2>1 DEF DevNames
<1>9. FoundAt(d, "dev", 3)
  <2>1. \A k \in 1 .. 3 : d[k].name = "dev" => k = 3
    BY <1>7
  <2> QED
    BY <1>5, <1>6, <2>1 DEF FoundAt
<1>10. DirectoryLookup(d, "dev") = 1
  <2> DEFINE k == 3
  <2>1. FoundAt(d, name, k) /\ Len(d) \in Nat
    BY <1>6, <1>9 DEF name
  <2> HIDE DEF k
  <2>2. DirectoryLookup(d, name) = d[k].inode
    BY <2>1, LookupAt
  <2> QED
    BY <1>5, <1>6, <2>2 DEF name, k
<1>11. DirHas(d, 0)
  BY <1>6, <1>8, <1>10 DEF DirHas
<1> QED
  BY <1>4, <1>11 DEF d

LEMMA DevLinksFacts ==
  ASSUME NEW d, Len(d) = 5, \A j \in 1 .. 5 : d[j] = DevLink(j)
  PROVE  DirHas(d, 1)
<1>1. ASSUME NEW k \in 1 .. 5, d[k].inode \in 1 .. 4
      PROVE  d[k].name \in DevNames \cup {".", ".."}
  <2>1. d[k] = DevLink(k)
    BY <1>1
  <2>2. DevLink(k).name \in DevNames \cup {".", ".."}
    BY DEF DevLink, Link, DevName, DevNames
  <2> QED
    BY <2>1, <2>2
<1>2. ASSUME NEW i \in 2 .. 4
      PROVE  DirectoryLookup(d, DevName(i)) = i
  <2>1. i + 1 \in 1 .. 5 /\ (i + 1) - 1 = i
    OBVIOUS
  <2>2. DevLink(i + 1).name = DevName(i) /\ DevLink(i + 1).inode = i
    BY <2>1 DEF DevLink, Link
  <2>3. ASSUME NEW j \in 1 .. 5, DevLink(j).name = DevName(i)
        PROVE  i + 1 <= j
    <3>1. CASE j \in {1, 2}
      BY <2>3, <3>1 DEF DevLink, Link, DevName
    <3>2. CASE j \in 3 .. 5
      BY <2>3, <3>2 DEF DevLink, Link, DevName
    <3> QED
      BY <3>1, <3>2
  <2> DEFINE k == i + 1
  <2>4. FoundAt(d, DevName(i), k)
    BY <2>1, <2>2, <2>3 DEF FoundAt
  <2>5. d[k].inode = i
    BY <2>1, <2>2
  <2> HIDE DEF k
  <2> QED
    BY <2>4, <2>5, LookupAt
<1> QED
  BY <1>1, <1>2 DEF DirHas

(* The directories of a disk made anew.                                    *)
AsMade(n) ==
  /\ n.root = RootLinks /\ ReadDir(n, InodeAt(n, 0)) = RootLinks
  /\ Len(ReadDir(n, InodeAt(n, 1))) = 5
  /\ \A j \in 1 .. 5 : ReadDir(n, InodeAt(n, 1))[j] = DevLink(j)
  /\ \A i \in InodeId : IsDir(InodeAt(n, i)) => i \in 0 .. 1

(* A disk made anew: the devices are there, and no file.                   *)
Fresh(n) ==
  /\ Sound(n) /\ Room(n) >= 2 * DirectoryBlocks /\ n.open = <<>>
  /\ HasDevices(n) /\ AsMade(n) /\ \A i \in InodeId : ~IsFile(n, i)

LEMMA DevicesFresh ==
  ASSUME FilesAsMeant, NEW m, Room(m) >= 7 * DirectoryBlocks, m.open = <<>>, Lists(m.held),
         NEW c, DevsMade(m, c, 5, 5 * DirectoryBlocks)
  PROVE  Fresh([c.m EXCEPT !.root = RootLinks])
<1> DEFINE n == [c.m EXCEPT !.root = RootLinks]
           r == 5 * DirectoryBlocks
<1>1. /\ Ready(c.m) /\ c.m.open = <<>> /\ c.m.held = m.held /\ Room(c.m) = Room(m) - r
      /\ c.m.sb.inodes = 0 .. 4 /\ IsDir(InodeAt(c.m, 1)) /\ ReadDir(c.m, InodeAt(c.m, 1)) = c.dir
      /\ Len(c.dir) = 5 /\ \A j \in 1 .. 5 : c.dir[j] = DevLink(j)
      /\ ReadDir(c.m, InodeAt(c.m, 0)) = RootLinks
      /\ \A j \in 2 .. 4 : InodeAt(c.m, j).type = Device
  BY DEF DevsMade
<1>2. Room(m) \in Nat /\ DirectoryBlocks \in Nat
  BY FreeFacts, DiskAssumption
<1> HIDE DEF r
<1>3. SameDisk(c.m, n) /\ n.root = RootLinks /\ n.open = <<>> /\ n.held = m.held
  <2>1. DOMAIN c.m = Fields /\ Shape(c.m)
    BY <1>1 DEF Ready, Good, Whole, Formed, Shape
  <2> QED
    BY <1>1, <2>1 DEF SameDisk, Shape, Fields
<1> HIDE DEF n
<1>4. /\ \A i : InodeAt(n, i) = InodeAt(c.m, i)
      /\ \A i : ReadDir(n, InodeAt(n, i)) = ReadDir(c.m, InodeAt(c.m, i))
      /\ Room(n) = Room(c.m)
  BY <1>3, SameDiskFacts
<1>5. Ready(n)
  BY <1>1, <1>3, RootLinksFacts, SameDiskAfter
<1>6. Sound(n)
  <2>1. Table(<<>>)
    BY EmptyIsSeq, OpenFilesAssumption DEF Table
  <2> QED
    BY <1>3, <1>5, <2>1 DEF Sound
<1>7. Room(n) >= 2 * DirectoryBlocks
  BY <1>1, <1>2, <1>4 DEF r
<1>8. ASSUME NEW i \in InodeId
      PROVE  InodeAt(n, i).type # Unallocated => i \in 0 .. 4
  BY <1>1, <1>4 DEF Ready, Good, Whole
<1>9. IsDir(InodeAt(n, 0)) /\ IsDir(InodeAt(n, 1))
  BY <1>1, <1>4, <1>5 DEF Ready, Rooted
<1>10. ASSUME NEW i \in InodeId, IsFile(n, i)
       PROVE  FALSE
  <2>1. i \in 0 .. 4
    BY <1>8, <1>10 DEF IsFile, File, Unallocated
  <2>2. CASE i \in 0 .. 1
    BY <1>9, <1>10, <2>2, FileIsNoDir DEF IsFile
  <2>3. CASE i \in 2 .. 4
    BY <1>1, <1>4, <1>10, <2>3 DEF IsFile, File, Device
  <2> QED
    BY <2>1, <2>2, <2>3
<1>11. ASSUME NEW i \in InodeId, IsDir(InodeAt(n, i))
       PROVE  DirHas(ReadDir(n, InodeAt(n, i)), i)
  <2>1. i \in 0 .. 4
    BY <1>8, <1>11 DEF IsDir, Directory, Unallocated
  <2>2. CASE i = 0
    BY <1>1, <1>4, <2>2, RootLinksFacts
  <2>3. CASE i = 1
    BY <1>1, <1>4, <2>3, DevLinksFacts
  <2>4. CASE i \in 2 .. 4
    BY <1>1, <1>4, <1>11, <2>4 DEF IsDir, Directory, Device
  <2> QED
    BY <2>1, <2>2, <2>3, <2>4
<1>12. HasDevices(n)
  BY <1>1, <1>3, <1>4, <1>9, <1>11, RootLinksFacts DEF HasDevices
<1>13. ASSUME NEW i \in InodeId, IsDir(InodeAt(n, i))
       PROVE  i \in 0 .. 1
  <2>1. i \in 0 .. 4
    BY <1>8, <1>13 DEF IsDir, Directory, Unallocated
  <2>2. i \notin 2 .. 4
    BY <1>1, <1>4, <1>13 DEF IsDir, Directory, Device
  <2> QED
    BY <2>1, <2>2
<1>14. AsMade(n)
  BY <1>1, <1>3, <1>4, <1>13 DEF AsMade
<1>15. Fresh(n)
  BY <1>3, <1>6, <1>7, <1>10, <1>12, <1>14 DEF Fresh
<1> QED
  BY <1>15 DEF n

LEMMA NewDiskMade ==
  ASSUME FilesAsMeant, NEW m, Shape(m), Lists(m.held), "sb" \notin DOMAIN m.disk[0]
  PROVE  \E n : Fresh(n) /\ SysMount(m) = WriteSuperblock(OpenIoDevices(n))
<1> DEFINE z == [m EXCEPT !.sb = NoSuperblock, !.root = <<>>, !.open = <<>>]
           i == InitDisk(z)
           n == CreateIoDevices(i)
<1>1. SysMount(m) = WriteSuperblock(OpenIoDevices(n))
  BY DEF SysMount
<1>2. Shape(z) /\ z.open = <<>> /\ z.held = m.held
  BY DEF Shape, Fields
<1> HIDE DEF z
<1>3. PICK y : /\ y.open = z.open /\ y.held = z.held /\ Room(y) = DiskBlocks - DataStart
               /\ RootMade(y, i)
  BY <1>2, DiskInitialised
<1> HIDE DEF i
<1>4. DiskBlocks \in Nat /\ DataStart \in Nat /\ DirectoryBlocks \in Nat
  BY InodeNumFacts, DiskAssumption DEF DataStart, InodeStart
<1>5. /\ Ready(i) /\ i.root = RootDots /\ ReadDir(i, InodeAt(i, 0)) = RootDots
      /\ i.open = <<>> /\ i.held = m.held /\ i.sb.inodes = 0 .. 0
      /\ Room(i) >= 7 * DirectoryBlocks
  BY <1>2, <1>3, <1>4 DEF RootMade, FilesAsMeant
<1>6. Room(i) \in Nat /\ Room(i) >= 5 * DirectoryBlocks
  BY <1>4, <1>5, FreeFacts
<1>7. PICK c : DevsMade(i, c, 5, 5 * DirectoryBlocks) /\ n = [c.m EXCEPT !.root = RootLinks]
  BY <1>5, <1>6, IoDevicesMade
<1> HIDE DEF n
<1>8. Fresh([c.m EXCEPT !.root = RootLinks])
  BY <1>5, <1>7, DevicesFresh
<1> QED
  BY <1>1, <1>7, <1>8

-----------------------------------------------------------------------------
(* The disk is in order between any two calls                              *)

(* Whether it is mounted or not: the superblock in memory is the one on    *)
(* the disk.                                                               *)
InOrder == Bare(Now) /\ Sound(Now) /\ Current(Now) /\ mounted \in BOOLEAN

(* What a machine of which nothing is seen any more looks like.            *)
LEMMA Forgotten ==
  ASSUME FilesAsMeant, NEW m, Sound(m), NEW n, DOMAIN n = Fields, n.seen = <<>>,
         n.disk = m.disk, n.sb = m.sb, n.root = m.root, n.open = m.open, n.held = m.held
  PROVE  Sound(n) /\ (Current(m) => Current(n)) /\ SameDisk(m, n)
<1>1. Images(<<>>)
  BY EmptyIsSeq DEF Images
<1>2. Shape(m) /\ IsLinks(m.root, 0)
  BY DEF Sound, Ready, Good, Whole, Formed, Rooted
<1>3. SameDisk(m, n)
  BY <1>1, <1>2 DEF SameDisk, Shape
<1>4. Ready(n)
  BY <1>2, <1>3, SameDiskAfter DEF Sound
<1> QED
  BY <1>3, <1>4 DEF Sound, Current

LEMMA BecomesSound ==
  ASSUME FilesAsMeant, NEW n, Sound(n), Current(n), Becomes(n)
  PROVE  Sound(Now)' /\ Current(Now)' /\ SameDisk(n, Now')
<1> DEFINE next == [disk |-> disk', sb |-> sb', root |-> root', open |-> open', held |-> held',
                    seen |-> <<>>]
<1>1. DOMAIN next = Fields /\ next.seen = <<>>
  BY DEF Fields
<1>2. /\ next.disk = n.disk /\ next.sb = n.sb /\ next.root = n.root /\ next.open = n.open
      /\ next.held = n.held
  BY DEF Becomes
<1>3. Now' = next
  BY DEF Now
<1> HIDE DEF next
<1>4. Sound(next) /\ Current(next) /\ SameDisk(n, next)
  BY <1>1, <1>2, Forgotten
<1> QED
  BY <1>3, <1>4

-----------------------------------------------------------------------------
(* No call takes a device away whose names the programs leave alone        *)

LEMMA DirHasAppend ==
  ASSUME NEW d, NEW i, IsSeq(d), DirHas(d, i), NEW name, NEW id, id \notin 1 .. 4
  PROVE  DirHas(Append(d, Link(name, id)), i)
<1> DEFINE l == Link(name, id)
           e == Append(d, l)
<1>1. l.inode = id
  BY DEF Link
<1> HIDE DEF l
<1>2. Len(d) \in Nat
  BY LenOf
<1>3. /\ Len(e) = Len(d) + 1 /\ e[Len(d) + 1] = l
      /\ \A k \in 1 .. Len(d) : e[k] = d[k]
  BY AppendSeq
<1>4. \A n, j : DirectoryLookup(d, n) = j /\ j # -1 => DirectoryLookup(e, n) = j
  BY LookupAppend
<1> HIDE DEF e
<1>5. ASSUME NEW k \in 1 .. Len(e), e[k].inode \in 1 .. 4
      PROVE  e[k].name \in DevNames \cup {".", ".."}
  <2>1. k # Len(d) + 1
    BY <1>1, <1>3, <1>5
  <2>2. k \in 1 .. Len(d) /\ e[k] = d[k]
    BY <1>2, <1>3, <2>1
  <2> QED
    BY <1>5, <2>2 DEF DirHas
<1>6. i = 0 => DirectoryLookup(e, "dev") = 1
  BY <1>4 DEF DirHas
<1>7. i = 1 => \A j \in 2 .. 4 : DirectoryLookup(e, DevName(j)) = j
  BY <1>4 DEF DirHas
<1>8. DirHas(e, i)
  BY <1>5, <1>6, <1>7 DEF DirHas
<1> QED
  BY <1>8 DEF e, l

LEMMA DirHasDelete ==
  ASSUME NEW d, NEW i, IsSeq(d), DirHas(d, i), NEW name, name \notin DevNames
  PROVE  DirHas(DeleteFileLink(d, name), i)
<1> DEFINE e == DeleteFileLink(d, name)
<1>1. Len(d) \in Nat
  BY LenOf
<1>2. \A n, j : DirectoryLookup(d, n) = j /\ j # -1 /\ n # name => DirectoryLookup(e, n) = j
  BY LookupDelete
<1>3. Len(e) \in Nat /\ \A k \in 1 .. Len(e) : \E j \in 1 .. Len(d) : e[k] = d[j]
  <2>1. CASE LinksTo(d, name) = {}
    BY <1>1, <2>1 DEF DeleteFileLink
  <2>2. CASE LinksTo(d, name) # {}
    <3> DEFINE x == Min(LinksTo(d, name))
               t == RemoveAt(d, x)
    <3>1. x \in 1 .. Len(d)
      BY <1>1, <2>2, LinksToFacts
    <3>2. e = t
      BY <2>2 DEF DeleteFileLink
    <3> HIDE DEF x, e
    <3>3. Removed(d, t, x)
      BY <3>1, RemoveSeq
    <3> HIDE DEF t
    <3>4. Len(e) = Len(d) - 1
      BY <3>2, <3>3 DEF Removed
    <3>5. ASSUME NEW k \in 1 .. Len(e)
          PROVE  \E j \in 1 .. Len(d) : e[k] = d[j]
      <4>1. e[k] = d[k] \/ e[k] = d[k + 1]
        BY <3>2, <3>3 DEF Removed
      <4>2. k \in 1 .. Len(d) /\ k + 1 \in 1 .. Len(d)
        BY <1>1, <3>4
      <4> QED
        BY <4>1, <4>2
    <3> QED
      BY <1>1, <3>1, <3>4, <3>5
  <2> QED
    BY <2>1, <2>2
<1> HIDE DEF e
<1>4. "dev" # name /\ \A j \in 2 .. 4 : DevName(j) # name
  BY DEF DevNames, DevName
<1>5. \A k \in 1 .. Len(e) : e[k].inode \in 1 .. 4 => e[k].name \in DevNames \cup {".", ".."}
  BY <1>3 DEF DirHas
<1>6. i = 0 => DirectoryLookup(e, "dev") = 1
  BY <1>2, <1>4 DEF DirHas
<1>7. i = 1 => \A j \in 2 .. 4 : DirectoryLookup(e, DevName(j)) = j
  BY <1>2, <1>4 DEF DirHas
<1>8. DirHas(e, i)
  BY <1>5, <1>6, <1>7 DEF DirHas
<1> QED
  BY <1>8 DEF e

LEMMA DirHasDots ==
  ASSUME NEW i, i \notin 0 .. 1, NEW j
  PROVE  DirHas(<<Link(".", i), Link("..", j)>>, i)
<1> DEFINE d == <<Link(".", i), Link("..", j)>>
<1>1. Len(d) = 2 /\ d[1].name = "." /\ d[2].name = ".."
  BY DEF Link
<1> HIDE DEF d
<1>2. \A k \in 1 .. Len(d) : d[k].name \in {".", ".."}
  BY <1>1
<1>3. DirHas(d, i)
  BY <1>2 DEF DirHas
<1> QED
  BY <1>3 DEF d

LEMMA DeviceInodes ==
  ASSUME FilesAsMeant, NEW m, Ready(m), HasDevices(m), NEW i \in 0 .. 4
  PROVE  /\ i \in InodeId /\ i \in m.sb.inodes /\ InodeAt(m, i).type # Unallocated
         /\ ~IsFile(m, i)
         /\ IsDir(InodeAt(m, i)) => i \in 0 .. 1
<1>1. i \in InodeId
  BY FirstInodes
<1>2. CASE i \in 0 .. 1
  <2>1. IsDir(InodeAt(m, i))
    BY <1>2 DEF HasDevices, Ready, Rooted
  <2> QED
    BY <1>1, <1>2, <2>1 DEF IsDir, IsFile, Directory, Unallocated, File, Ready, Good, Whole
<1>3. CASE i \in 2 .. 4
  <2>1. InodeAt(m, i).type = Device
    BY <1>3 DEF HasDevices
  <2> QED
    BY <1>1, <2>1 DEF IsDir, IsFile, Directory, Unallocated, File, Device, Ready, Good, Whole
<1> QED
  BY <1>2, <1>3

LEMMA KnownHas ==
  ASSUME NEW m, HasDevices(m), NEW d, KnownDir(m, d), NEW i, IsLinks(d, i)
  PROVE  DirHas(d, i) /\ IsSeq(d)
<1>1. IsSeq(d)
  BY DEF IsLinks
<1>2. d # <<>>
  BY EmptyIsSeq DEF IsLinks
<1>3. PICK j \in InodeId : /\ IsDir(InodeAt(m, j)) /\ IsLinks(d, j)
                           /\ d = ReadDir(m, InodeAt(m, j)) \/ (j = 0 /\ d = m.root)
  BY <1>2 DEF KnownDir
<1>4. i = j
  BY <1>3, OwnLinks
<1> QED
  BY <1>1, <1>3, <1>4 DEF HasDevices

(* A call that changes directory i and inode j only.                       *)
LEMMA DevicesKept ==
  ASSUME FilesAsMeant, NEW m, Ready(m), HasDevices(m), NEW n, NEW i, NEW j, j \notin 0 .. 4,
         Frame(m, n, {i, j}), i = j \/ (IsDir(InodeAt(m, i)) /\ IsDir(InodeAt(n, i))),
         IsDir(InodeAt(n, i)) => DirHas(ReadDir(n, InodeAt(n, i)), i),
         IsDir(InodeAt(n, j)) => DirHas(ReadDir(n, InodeAt(n, j)), j),
         DirHas(n.root, 0)
  PROVE  HasDevices(n)
<1>1. IsDir(InodeAt(n, 1))
  <2>1. CASE i = 1
    BY <2>1
  <2>2. CASE i # 1
    <3>1. 1 \in InodeId /\ IsDir(InodeAt(m, 1))
      BY FirstInodes DEF HasDevices
    <3> QED
      BY <2>2, <3>1 DEF Frame, SameAt
  <2> QED
    BY <2>1, <2>2
<1>2. ASSUME NEW k \in 2 .. 4
      PROVE  InodeAt(n, k).type = Device
  <2>1. k \in InodeId /\ k # j /\ InodeAt(m, k).type = Device
    BY FirstInodes DEF HasDevices
  <2>2. k # i
    BY <2>1 DEF IsDir, Directory, Device
  <2> QED
    BY <2>1, <2>2 DEF Frame, SameAt
<1>3. ASSUME NEW k \in InodeId, IsDir(InodeAt(n, k))
      PROVE  DirHas(ReadDir(n, InodeAt(n, k)), k)
  <2>1. CASE k \in {i, j}
    BY <1>3, <2>1
  <2>2. CASE k \notin {i, j}
    <3>1. SameAt(m, n, k)
      BY <2>2 DEF Frame
    <3>2. IsDir(InodeAt(m, k))
      BY <1>3, <3>1 DEF SameAt
    <3>3. HasLinks(m, k) /\ InodeAt(m, k).allocated \in 0 .. MaxInodeBlocks
      BY <3>2 DEF Ready, Good, Readable, Whole, IsInode
    <3>4. ReadDir(n, InodeAt(n, k)) = ReadDir(m, InodeAt(m, k))
      BY <3>1, <3>3, SameLinks, DiskAssumption
    <3> QED
      BY <3>2, <3>4 DEF HasDevices
  <2> QED
    BY <2>1, <2>2
<1> QED
  BY <1>1, <1>2, <1>3 DEF HasDevices

LEMMA SameDevices ==
  ASSUME NEW m, HasDevices(m), NEW n, SameDisk(m, n), DirHas(n.root, 0)
  PROVE  HasDevices(n)
<1>1. \A i : InodeAt(n, i) = InodeAt(m, i) /\ ReadDir(n, InodeAt(n, i)) = ReadDir(m, InodeAt(m, i))
  BY SameDiskFacts
<1> QED
  BY <1>1 DEF HasDevices

LEMMA RootDevices ==
  ASSUME FilesAsMeant, NEW m, Ready(m), HasDevices(m)
  PROVE  HasDevices(ReadRootDir(m))
<1>1. RootIsRead(m, ReadRootDir(m))
  BY RootRead DEF Ready, Rooted
<1>2. DirHas(ReadDir(m, InodeAt(m, 0)), 0)
  BY FirstInodes DEF Ready, Rooted, HasDevices
<1> QED
  BY <1>1, <1>2, SameDevices DEF RootIsRead

LEMMA OpenInodeDevices ==
  ASSUME NEW m, Ready(m), HasDevices(m), NEW id, NEW flags
  PROVE  HasDevices(OpenInode(m, id, flags).m)
<1> DEFINE o == AddFd(m.open, id, flags).open
           n == [m EXCEPT !.open = o]
<1>1. OpenInode(m, id, flags).m = n
  BY DEF OpenInode
<1> HIDE DEF o
<1>2. OpenChanged(m, n, o)
  BY OpenChange DEF Ready, Good, Whole, Formed
<1> HIDE DEF n
<1>3. DirHas(n.root, 0) /\ SameDisk(m, n)
  BY <1>2 DEF OpenChanged, HasDevices
<1> QED
  BY <1>1, <1>3, SameDevices

LEMMA LinkedDevices ==
  ASSUME FilesAsMeant, NEW m, Ready(m), HasDevices(m), NEW d, KnownDir(m, d), NEW name,
         NEW a, Linked(m, a, d, name, File)
  PROVE  HasDevices(a.m)
<1>1. a.id \notin 0 .. 4
  <2>1. a.id \notin m.sb.inodes
    BY DEF Linked
  <2> QED
    BY <2>1, DeviceInodes
<1>2. PICK i \in InodeId :
        /\ Frame(m, a.m, {i, a.id}) /\ ReadDir(a.m, InodeAt(a.m, i)) = a.dir
        /\ \/ i = a.id
           \/ IsDir(InodeAt(m, i)) /\ IsDir(InodeAt(a.m, i)) /\ IsLinks(d, i)
  BY DEF Linked
<1>3. ~IsDir(InodeAt(a.m, a.id)) /\ Same(m, a.m) /\ a.dir = Append(d, Link(name, a.id))
  BY FileIsNoDir DEF Linked
<1>4. i # a.id => DirHas(a.dir, i)
  <2>1. i # a.id => DirHas(d, i) /\ IsSeq(d)
    BY <1>2, KnownHas
  <2>2. a.id \notin 1 .. 4
    BY <1>1
  <2> QED
    BY <1>3, <2>1, <2>2, DirHasAppend
<1>5. DirHas(a.m.root, 0)
  BY <1>3 DEF Same, HasDevices
<1> QED
  BY <1>1, <1>2, <1>3, <1>4, <1>5, DevicesKept

LEMMA OpenFileDevices ==
  ASSUME FilesAsMeant, NEW m, Sound(m), HasDevices(m), Room(m) >= DirectoryBlocks,
         NEW path, Plain(path), NEW name, NEW flags \in 0 .. 4
  PROVE  HasDevices(OpenFile(m, path, name, flags, Blank).m)
<1> DEFINE d == ParentDir(m, path, Blank)
           id == PathToInodeId(m, d, <<name>>, Blank)
           c == CreateFile(m, d, name, File, Blank)
           n == OpenFile(m, path, name, flags, Blank).m
<1>1. n \in {m, OpenInode(m, id, flags).m, OpenInode(c.m, c.id, flags).m}
  BY DEF OpenFile, OpenIn, OpenCreated
<1>2. KnownDir(m, d)
  BY Layout, ParentFacts DEF Sound
<1> HIDE DEF d, id, n
<1>3. (c.m = m /\ c.id = -1) \/ Linked(m, c, d, name, File)
  BY <1>2, FileMade DEF Sound, InodeType
<1> HIDE DEF c
<1>4. HasDevices(OpenInode(m, id, flags).m)
  BY OpenInodeDevices DEF Sound
<1>5. Ready(c.m) /\ HasDevices(c.m)
  <2>1. CASE c.m = m
    BY <2>1 DEF Sound
  <2>2. CASE Linked(m, c, d, name, File)
    BY <1>2, <2>2, LinkedDevices, FileMadeAfter DEF After, Sound
  <2> QED
    BY <1>3, <2>1, <2>2
<1>6. HasDevices(OpenInode(c.m, c.id, flags).m)
  BY <1>5, OpenInodeDevices
<1> QED
  BY <1>1, <1>4, <1>6 DEF n

LEMMA SysOpenDevices ==
  ASSUME FilesAsMeant, NEW m, Sound(m), HasDevices(m), Room(m) >= DirectoryBlocks, NEW p \in Procs,
         NEW path, Plain(path), NEW name, NEW flags \in 0 .. 4
  PROVE  HasDevices(SysOpen(m, p, path, name, flags, Blank))
<1> DEFINE o == OpenFile(m, path, name, flags, Blank)
           r == ReadRootDir(o.m)
           h == [r.held EXCEPT ![p] = AddProcessFd(@, o.fd)]
           n == [r EXCEPT !.held = h]
<1>1. SysOpen(m, p, path, name, flags, Blank) \in {o.m, n}
  BY DEF SysOpen, HoldOpened
<1>2. HasDevices(o.m) /\ Sound(o.m)
  BY OpenFileDevices, OpenFileAfter DEF After
<1> HIDE DEF o
<1>3. HasDevices(r) /\ Sound(r)
  BY <1>2, RootDevices, RootReadAfter DEF After, Sound
<1> HIDE DEF r, h
<1>4. HeldChanged(r, n, h)
  BY <1>3, HeldChange DEF Sound, Ready, Good, Whole, Formed
<1> HIDE DEF n
<1>5. HasDevices(n)
  BY <1>3, <1>4, SameDevices DEF HeldChanged, HasDevices
<1> QED
  BY <1>1, <1>2, <1>5

LEMMA SysCloseDevices ==
  ASSUME FilesAsMeant, NEW m, Sound(m), HasDevices(m), NEW p, NEW fd
  PROVE  HasDevices(SysClose(m, p, fd))
<1> DEFINE t == CloseFile(m.open, fd)
           l == [m EXCEPT !.open = t]
           h == [m.held EXCEPT ![p] = RemoveProcessFd(@, fd)]
           n == [l EXCEPT !.held = h]
<1>0. Shape(m)
  BY DEF Sound, Ready, Good, Whole, Formed
<1>1. SysClose(m, p, fd) = m \/ SysClose(m, p, fd) = n
  BY <1>0 DEF SysClose, Shape, Fields
<1> HIDE DEF t, h
<1>2. OpenChanged(m, l, t)
  BY <1>0, OpenChange
<1> HIDE DEF l
<1>3. HeldChanged(l, n, h)
  BY <1>2, HeldChange DEF OpenChanged, SameDisk
<1> HIDE DEF n
<1>4. SameDisk(m, n) /\ DirHas(n.root, 0)
  BY <1>2, <1>3 DEF OpenChanged, HeldChanged, SameDisk, HasDevices
<1>5. HasDevices(n)
  BY <1>4, SameDevices
<1> QED
  BY <1>1, <1>5 DEF n

LEMMA SysWriteDevices ==
  ASSUME FilesAsMeant, NEW m, Sound(m), HasDevices(m), Room(m) >= MaxInodeBlocks,
         NEW p, NEW fd, NEW contents, Len(contents) \in Nat
  PROVE  HasDevices(SysWrite(m, p, fd, contents))
<1> DEFINE n == SysWrite(m, p, fd, contents)
<1>1. CASE n = m
  BY <1>1
<1>2. CASE n # m
  <2>1. PICK i \in InodeId : /\ Len(contents) <= MaxInodeBlocks
                             /\ InodeAt(m, i).type = File /\ Rewrote(m, n, i, contents)
    BY <1>2, SysWriteWrites
  <2> HIDE DEF n
  <2>2. i \notin 0 .. 4
    BY <2>1, DeviceInodes DEF Sound, IsFile
  <2>3. Frame(m, n, {i, i})
    <3>1. Touched(m, n, i)
      BY <2>1, RewroteTouched, DiskAssumption DEF Sound, Ready
    <3> QED
      BY <3>1 DEF Touched, Frame
  <2>4. ~IsDir(InodeAt(n, i)) /\ DirHas(n.root, 0)
    BY <2>1, FileIsNoDir DEF Rewrote, Same, HasDevices
  <2>5. HasDevices(n)
    BY <2>2, <2>3, <2>4, DevicesKept DEF Sound
  <2> QED
    BY <2>5 DEF n
<1> QED
  BY <1>1, <1>2

LEMMA SysMkdirDevices ==
  ASSUME FilesAsMeant, NEW m, Sound(m), HasDevices(m), Room(m) >= 2 * DirectoryBlocks,
         NEW path, Plain(path), NEW name
  PROVE  HasDevices(SysMkdir(m, path, name, Blank))
<1> DEFINE n == SysMkdir(m, path, name, Blank)
           d == ParentDir(m, path, Blank)
           c == CreateDirectory(m, d, name, Blank)
           dots == <<Link(".", c.id), Link("..", d[1].inode)>>
<1>1. \/ n = m
      \/ ~NoParent(m, path, Blank) /\ c.id # -1 /\ n = ReadRootDir(c.m)
  BY DEF SysMkdir
<1> HIDE DEF n
<1>2. CASE n = m
  BY <1>2 DEF n
<1>3. CASE ~NoParent(m, path, Blank) /\ c.id # -1 /\ n = ReadRootDir(c.m)
  <2>1. KnownDir(m, d) /\ d # <<>>
    BY <1>3, ParentIsDir DEF Sound
  <2> HIDE DEF d
  <2>2. DirMade(m, c, d, name)
    BY <1>3, <2>1, DirectoryMade DEF Sound
  <2>3. c.dir = dots
    <3> DEFINE f == CreateFile(m, d, name, Directory, Blank)
    <3>1. c = AddDots(d, f)
      BY DEF CreateDirectory
    <3> HIDE DEF f
    <3>2. c.id = f.id /\ f.id # -1
      BY <1>3, <3>1 DEF AddDots
    <3>3. c.dir = <<Link(".", f.id), Link("..", d[1].inode)>>
      BY <3>1, <3>2 DEF AddDots
    <3> QED
      BY <3>2, <3>3
  <2> HIDE DEF c
  <2>4. c.id \notin 0 .. 4
    <3>1. c.id \notin m.sb.inodes
      BY <2>2 DEF DirMade
    <3> QED
      BY <3>1, DeviceInodes DEF Sound
  <2>5. DirHas(c.dir, c.id)
    BY <2>3, <2>4, DirHasDots
  <2>6. PICK i \in InodeId :
          /\ Frame(m, c.m, {i, c.id}) /\ i # c.id
          /\ ReadDir(c.m, InodeAt(c.m, i)) = Append(d, Link(name, c.id))
          /\ IsDir(InodeAt(m, i)) /\ IsDir(InodeAt(c.m, i)) /\ IsLinks(d, i)
    BY <2>2 DEF DirMade
  <2>7. DirHas(ReadDir(c.m, InodeAt(c.m, i)), i)
    BY <2>1, <2>4, <2>6, KnownHas, DirHasAppend
  <2>8. /\ ReadDir(c.m, InodeAt(c.m, c.id)) = c.dir /\ DirHas(c.m.root, 0)
        /\ Ready(c.m)
    BY <2>2 DEF DirMade, Same, HasDevices
  <2>9. HasDevices(c.m)
    BY <2>4, <2>5, <2>6, <2>7, <2>8, DevicesKept DEF Sound
  <2>10. HasDevices(n)
    BY <1>3, <2>8, <2>9, RootDevices
  <2> QED
    BY <2>10 DEF n
<1> QED
  BY <1>1, <1>2, <1>3

LEMMA UnlinkedDevices ==
  ASSUME FilesAsMeant, NEW m, Sound(m), HasDevices(m), NEW i \in InodeId, IsDir(InodeAt(m, i)),
         NEW d, DirHas(d, i), NEW j \in InodeId, j \notin 0 .. 4, NEW n, DirUnlinked(m, n, i, d, j)
  PROVE  HasDevices(n)
<1>1. /\ Frame(m, n, {i, j}) /\ Same(m, n) /\ ~IsDir(InodeAt(n, j))
      /\ i # j => IsDir(InodeAt(n, i)) /\ ReadDir(n, InodeAt(n, i)) = d
  BY DEF DirUnlinked
<1>2. DirHas(n.root, 0)
  BY <1>1 DEF Same, HasDevices
<1> QED
  BY <1>1, <1>2, DevicesKept DEF Sound

(* A link that has not a device's name does not lead to one.               *)
LEMMA NoDevice ==
  ASSUME NEW d, NEW i, DirHas(d, i), Len(d) \in Nat, NEW name, name \notin DevNames \cup {".", ".."},
         NEW id, DirectoryLookup(d, name) = id, id # -1
  PROVE  id \notin 1 .. 4
<1>1. PICK k : FoundAt(d, name, k) /\ d[k].inode = id
  BY LookupHas
<1> QED
  BY <1>1 DEF FoundAt, DirHas

LEMMA SysRmDevices ==
  ASSUME FilesAsMeant, NEW m, Sound(m), HasDevices(m), Room(m) >= DirectoryBlocks,
         NEW path, Plain(path), NEW name, name \notin DevNames \cup {".", ".."}
  PROVE  HasDevices(SysRm(m, path, name, Blank))
<1> DEFINE d == ParentDir(m, path, Blank)
           id == PathToInodeId(m, d, <<name>>, Blank)
           l == DeleteFileLink(d, name)
           o == DeleteInode(WriteDir(m, l), InodeAt(m, id))
           n == SysRm(m, path, name, Blank)
<1>1. n = m \/ (id # -1 /\ n = ReadRootDir(o))
  BY DEF SysRm
<1> HIDE DEF n
<1>2. KnownDir(m, d)
  BY Layout, ParentFacts DEF Sound
<1>3. id = DirectoryLookup(d, name)
  BY NameFound
<1> HIDE DEF d, id
<1>4. ASSUME id # -1
      PROVE  HasDevices(ReadRootDir(o))
  <2>1. id \in InodeId \ {0}
    BY <1>2, <1>3, <1>4, KnownLookup
  <2>2. d # <<>>
    BY <1>3, <1>4, EmptyIsSeq DEF DirectoryLookup, LinksTo
  <2>3. PICK i \in InodeId : IsDir(InodeAt(m, i)) /\ IsLinks(d, i)
    BY <1>2, <2>2 DEF KnownDir
  <2>4. IsLinks(l, i)
    BY <2>3, LinkDeleted
  <2>5. DirHas(d, i) /\ IsSeq(d) /\ Len(d) \in Nat
    BY <1>2, <2>3, KnownHas, LenOf
  <2>6. DirHas(l, i)
    BY <2>5, DirHasDelete
  <2>7. id \notin 0 .. 4
    <3>1. id \notin 1 .. 4
      BY <1>3, <1>4, <2>5, NoDevice
    <3> QED
      BY <2>1, <3>1
  <2> HIDE DEF l
  <2>8. DirUnlinked(m, o, i, l, id)
    BY <2>1, <2>3, <2>4, Unlinked
  <2> HIDE DEF o
  <2>9. HasDevices(o) /\ Ready(o)
    BY <2>1, <2>3, <2>6, <2>7, <2>8, UnlinkedDevices DEF DirUnlinked, After, Sound
  <2> QED
    BY <2>9, RootDevices
<1> QED
  BY <1>1, <1>4 DEF n

LEMMA DevIsFull ==
  ASSUME NEW d, IsLinks(d, 1), DirHas(d, 1)
  PROVE  Len(d) > 2
<1> DEFINE one == 1
<1>1. Len(d) \in Nat /\ d[one].name = "."
  BY LenOf DEF IsLinks, Link
<1>2. DirectoryLookup(d, DevName(2)) = 2 /\ DirectoryLookup(d, DevName(3)) = 3
  BY DEF DirHas
<1> HIDE DEF one
<1>3. PICK k : FoundAt(d, DevName(2), k) /\ d[k].inode = 2
  BY <1>1, <1>2, LookupHas
<1>4. PICK l : FoundAt(d, DevName(3), l) /\ d[l].inode = 3
  BY <1>1, <1>2, LookupHas
<1>5. DevName(2) = "stdin" /\ DevName(3) = "stdout"
  BY DEF DevName
<1>6. /\ k \in 1 .. Len(d) /\ d[k].name = "stdin"
      /\ l \in 1 .. Len(d) /\ d[l].name = "stdout"
  BY <1>3, <1>4, <1>5 DEF FoundAt
<1>7. k # one /\ l # one /\ k # l
  BY <1>1, <1>6
<1> QED
  BY <1>1, <1>6, <1>7 DEF one

(* An rmdir of a name that is not there would take the parent itself: /dev *)
(* has too many links for that.                                            *)
LEMMA SysRmdirDevices ==
  ASSUME FilesAsMeant, NEW m, Sound(m), HasDevices(m), Room(m) >= DirectoryBlocks,
         NEW path, Plain(path), NEW name, name \notin DevNames \cup {".", ".."}
  PROVE  HasDevices(SysRmdir(m, path, name, Blank))
<1> DEFINE p == ParentInode(m, path, Blank)
           d == ParentDir(m, path, Blank)
           id == PathToInodeId(m, d, <<name>>, Blank)
           inode == InodeOr(m, id, p)
           l == DeleteFileLink(d, name)
           n == SysRmdir(m, path, name, Blank)
           o == DeleteInode(WriteDir(m, l), inode)
<1>1. n = m \/ (IsDir(inode) /\ ~(Len(ReadDir(m, inode)) > 2) /\ n = o)
  BY DEF SysRmdir
<1> HIDE DEF n
<1>2. KnownDir(m, d) /\ KnownInode(m, p)
  BY Layout, ParentFacts DEF Sound
<1>3. id = DirectoryLookup(d, name)
  BY NameFound
<1>4. path = <<>> => p = Blank.inode
  BY DEF ParentInode, InodeOr
<1>5. path # <<>> => d = IF IsDir(p) THEN ReadDir(m, p) ELSE <<>>
  BY BlankIsNoDir DEF ParentDir, DirOr
<1> HIDE DEF p, d, id
<1>6. ASSUME IsDir(inode), ~(Len(ReadDir(m, inode)) > 2)
      PROVE  HasDevices(o)
  <2>1. id \in (InodeId \ {0}) \cup {-1}
    BY <1>2, <1>3, KnownLookup
  <2>2. PICK i \in InodeId, j \in InodeId \ {0} :
          /\ inode = InodeAt(m, j)
          /\ IsDir(InodeAt(m, i)) /\ IsLinks(d, i) /\ DirHas(d, i)
          /\ j # 1
    <3>1. CASE id # -1
      <4>1. d # <<>>
        BY <1>3, <3>1, EmptyIsSeq DEF DirectoryLookup, LinksTo
      <4>2. PICK i \in InodeId : IsDir(InodeAt(m, i)) /\ IsLinks(d, i)
        BY <1>2, <4>1 DEF KnownDir
      <4>3. DirHas(d, i) /\ Len(d) \in Nat
        BY <1>2, <4>2, KnownHas, LenOf
      <4>4. id \notin 1 .. 4
        BY <1>3, <3>1, <4>3, NoDevice
      <4>5. inode = InodeAt(m, id) /\ id # 1
        BY <3>1, <4>4 DEF InodeOr
      <4> HIDE DEF inode
      <4> QED
        BY <2>1, <3>1, <4>2, <4>3, <4>5
    <3>2. CASE id = -1
      <4>1. inode = p
        BY <3>2 DEF InodeOr
      <4> HIDE DEF inode
      <4>2. path # <<>> /\ d = ReadDir(m, p)
        BY <1>4, <1>5, <1>6, <4>1, BlankIsNoDir
      <4>3. PICK j \in InodeId \ {0} : p = InodeAt(m, j)
        BY <1>2, <1>6, <4>1, BlankIsNoDir DEF KnownInode
      <4>4. HasLinks(m, j)
        BY <1>6, <4>1, <4>3 DEF Sound, Ready, Good, Readable
      <4>5. IsLinks(d, j) /\ DirHas(d, j)
        BY <1>6, <4>1, <4>2, <4>3, <4>4 DEF HasLinks, HasDevices
      <4>6. j # 1
        BY <1>6, <4>1, <4>2, <4>5, DevIsFull
      <4> QED
        BY <1>6, <4>1, <4>3, <4>5, <4>6
    <3> QED
      BY <3>1, <3>2
  <2>3. j \notin 0 .. 4
    <3>1. j \in 0 .. 4 => j \in 0 .. 1
      BY <1>6, <2>2, DeviceInodes DEF Sound
    <3> QED
      BY <2>2, <3>1
  <2>4. IsLinks(l, i) /\ DirHas(l, i)
    BY <2>2, LinkDeleted, DirHasDelete DEF IsLinks
  <2> HIDE DEF l, inode
  <2>5. DirUnlinked(m, o, i, l, j)
    BY <2>2, <2>4, Unlinked
  <2> HIDE DEF o
  <2> QED
    BY <2>2, <2>3, <2>4, <2>5, UnlinkedDevices
<1> QED
  BY <1>1, <1>6 DEF n

LEMMA SuperblockDevices ==
  ASSUME FilesAsMeant, NEW m, Sound(m), HasDevices(m)
  PROVE  HasDevices(WriteSuperblock(m))
<1> DEFINE n == WriteSuperblock(m)
<1>1. /\ \A i \in InodeId : SameAt(m, n, i)
      /\ Same(m, n)
  BY SuperblockAfter
<1> HIDE DEF n
<1>2. \A i \in InodeId : InodeAt(n, i) = InodeAt(m, i)
  BY <1>1 DEF SameAt
<1>3. \A i \in 1 .. 4 : i \in InodeId
  BY FirstInodes
<1>4. ASSUME NEW i \in InodeId, IsDir(InodeAt(n, i))
      PROVE  DirHas(ReadDir(n, InodeAt(n, i)), i)
  <2>1. IsDir(InodeAt(m, i))
    BY <1>2, <1>4
  <2>2. HasLinks(m, i) /\ InodeAt(m, i).allocated \in 0 .. MaxInodeBlocks
    BY <2>1 DEF Sound, Ready, Good, Readable, Whole, IsInode
  <2>3. ReadDir(n, InodeAt(n, i)) = ReadDir(m, InodeAt(m, i))
    BY <1>1, <2>2, SameLinks, DiskAssumption
  <2> QED
    BY <2>1, <2>3 DEF HasDevices
<1>5. HasDevices(n)
  BY <1>1, <1>2, <1>3, <1>4 DEF HasDevices, Same
<1> QED
  BY <1>5 DEF n

LEMMA SysUnmountDevices ==
  ASSUME FilesAsMeant, NEW m, Sound(m), HasDevices(m)
  PROVE  HasDevices(SysUnmount(m))
<1> DEFINE t == CloseAll(m.open)
           l == [m EXCEPT !.open = t]
<1>1. SysUnmount(m) = WriteSuperblock(l)
  BY DEF SysUnmount
<1>2. Table(t) /\ (DevicesFirst(m.open) => DevicesFirst(t))
  BY CloseAllFacts DEF Sound, Table
<1> HIDE DEF t
<1>3. Shape(m) /\ IsLinks(m.root, 0) /\ Lists(m.held)
  BY DEF Sound, Ready, Good, Whole, Formed, Rooted
<1>4. OpenChanged(m, l, t)
  BY <1>3, OpenChange
<1> HIDE DEF l
<1>5. Sound(l)
  BY <1>2, <1>3, <1>4, TablesAfter DEF OpenChanged, After
<1>6. HasDevices(l)
  BY <1>4, SameDevices DEF OpenChanged, HasDevices
<1> QED
  BY <1>1, <1>5, <1>6, SuperblockDevices

-----------------------------------------------------------------------------
(* mount opens the devices first and creates nothing                       *)

DevicesTo(o, n) == IsSeq(o) /\ Len(o) = n /\ \A fd \in 0 .. n - 1 : o[fd + 1] = DeviceFd(fd)

LEMMA DeviceAdded ==
  ASSUME MaxOpenFiles >= 3, NEW n \in 0 .. 2, NEW o, DevicesTo(o, n)
  PROVE  DevicesTo(AddFd(o, n + 2, DeviceFd(n).flags).open, n + 1)
<1> DEFINE fd == Fd(Len(o), DeviceFd(n).flags, n + 2)
           t == Append(o, fd)
<1>0. IsSeq(o) /\ Len(o) = n /\ MaxOpenFiles \in Nat
  BY OpenFilesAssumption DEF DevicesTo
<1>1. ASSUME NEW k \in 1 .. Len(o)
      PROVE  o[k].inode # n + 2
  <2>1. k - 1 \in 0 .. n - 1 /\ (k - 1) + 1 = k /\ (k - 1) + 2 # n + 2
    BY <1>0
  <2>2. o[(k - 1) + 1] = DeviceFd(k - 1)
    BY <2>1 DEF DevicesTo
  <2>3. o[k].inode = (k - 1) + 2
    BY <2>1, <2>2 DEF DeviceFd, Fd
  <2> QED
    BY <2>1, <2>3
<1>2. AddFd(o, n + 2, DeviceFd(n).flags).open = t
  <2>1. ~(Len(o) >= MaxOpenFiles)
    BY <1>0
  <2>2. {k \in 1 .. Len(o) : o[k].inode = n + 2} = {}
    BY <1>1
  <2> QED
    BY <2>1, <2>2 DEF AddFd
<1>3. fd = DeviceFd(n)
  BY <1>0 DEF DeviceFd, Fd
<1> HIDE DEF fd
<1>4. /\ IsSeq(t) /\ Len(t) = Len(o) + 1 /\ t[Len(o) + 1] = fd
      /\ \A k \in 1 .. Len(o) : t[k] = o[k]
  BY <1>0, AppendSeq
<1> HIDE DEF t
<1>5. ASSUME NEW f \in 0 .. (n + 1) - 1
      PROVE  t[f + 1] = DeviceFd(f)
  <2>1. CASE f = n
    BY <1>0, <1>3, <1>4, <2>1
  <2>2. CASE f # n
    <3>1. f \in 0 .. n - 1 /\ f + 1 \in 1 .. Len(o)
      BY <1>0, <2>2
    <3> QED
      BY <1>4, <3>1 DEF DevicesTo
  <2> QED
    BY <2>1, <2>2
<1>6. DevicesTo(t, n + 1)
  BY <1>0, <1>4, <1>5 DEF DevicesTo
<1> QED
  BY <1>2, <1>6

LEMMA DeviceFound ==
  ASSUME FilesAsMeant, NEW m, HasDevices(m), NEW k \in 2 .. 4, NEW flags
  PROVE  OpenFile(m, <<"dev">>, DevName(k), flags, Blank) = OpenInode(m, k, flags)
<1> DEFINE dev == "dev"
           path == <<dev>>
           one == 1
           inode == InodeAt(m, one)
           d == ReadDir(m, inode)
           name == DevName(k)
<1>1. DirectoryLookup(m.root, dev) = one
  BY DEF HasDevices, DirHas
<1>2. IsDir(inode) /\ DirectoryLookup(d, name) = k /\ one # -1
  BY FirstInodes DEF HasDevices, DirHas
<1>3. path # <<>>
  OBVIOUS
<1> HIDE DEF one, name
<1>4. ParentInode(m, path, Blank) = inode
  <2>1. PathToInodeId(m, m.root, path, Blank) = one
    BY <1>1, NameFound
  <2> HIDE DEF path
  <2> QED
    BY <1>2, <1>3, <2>1 DEF ParentInode, InodeOr
<1> HIDE DEF path
<1>5. ParentDir(m, path, Blank) = d
  <2> HIDE DEF inode
  <2> QED
    BY <1>2, <1>3, <1>4 DEF ParentDir, DirOr
<1> HIDE DEF d
<1>6. PathToInodeId(m, d, <<name>>, Blank) = k /\ k # -1
  BY <1>2, NameFound
<1>7. OpenFile(m, path, name, flags, Blank) = OpenInode(m, k, flags)
  BY <1>5, <1>6 DEF OpenFile, OpenIn
<1> QED
  BY <1>7 DEF path, dev, name

(* One device is opened and those before it are what they were.            *)
Opened(m, n, k) ==
  Sound(n) /\ HasDevices(n) /\ SameDisk(m, n) /\ DevicesTo(n.open, k)

LEMMA NextOpened ==
  ASSUME FilesAsMeant, MaxOpenFiles >= 3, NEW m, NEW k \in 0 .. 2, NEW n, Opened(m, n, k)
  PROVE  Opened(m, OpenDevice(n, DevName(k + 2), DeviceFd(k).flags), k + 1)
<1> DEFINE flags == DeviceFd(k).flags
           o == OpenInode(n, k + 2, flags).m
<1>1. Sound(n) /\ HasDevices(n) /\ SameDisk(m, n) /\ DevicesTo(n.open, k)
  BY DEF Opened
<1>2. k + 2 \in 2 .. 4 /\ k + 2 \in InodeId \cup {-1}
  BY FirstInodes
<1>3. OpenDevice(n, DevName(k + 2), flags) = o
  BY <1>1, <1>2, DeviceFound DEF OpenDevice
<1>4. DevicesTo(o.open, k + 1)
  <2>1. Shape(n)
    BY <1>1 DEF Sound, Ready, Good, Whole, Formed
  <2>2. o.open = AddFd(n.open, k + 2, flags).open
    BY <2>1 DEF OpenInode, Shape, Fields
  <2> QED
    BY <1>1, <2>2, DeviceAdded
<1>5. flags \in 0 .. 4
  BY DEF DeviceFd, Fd, READ_GLOBAL, WRITE_GLOBAL
<1> HIDE DEF flags
<1>6. After(n, o, 0) /\ SameDisk(n, o)
  BY <1>1, <1>2, <1>5, OpenInodeAfter
<1>7. HasDevices(o)
  BY <1>1, OpenInodeDevices DEF Sound
<1> HIDE DEF o
<1>8. Opened(m, o, k + 1)
  BY <1>1, <1>4, <1>6, <1>7 DEF Opened, After, SameDisk
<1> QED
  BY <1>3, <1>8 DEF flags

LEMMA IoDevicesOpened ==
  ASSUME FilesAsMeant, MaxOpenFiles >= 3, NEW m, Sound(m), HasDevices(m), m.open = <<>>
  PROVE  Opened(m, OpenIoDevices(m), 3)
<1> DEFINE one == OpenDevice(m, "stdin", READ_GLOBAL)
           two == OpenDevice(one, "stdout", WRITE_GLOBAL)
           three == OpenDevice(two, "stderr", WRITE_GLOBAL)
<1>1. OpenIoDevices(m) = three
  BY DEF OpenIoDevices
<1>2. /\ DevName(0 + 2) = "stdin" /\ DevName(1 + 2) = "stdout" /\ DevName(2 + 2) = "stderr"
      /\ DeviceFd(0).flags = READ_GLOBAL
      /\ DeviceFd(1).flags = WRITE_GLOBAL /\ DeviceFd(2).flags = WRITE_GLOBAL
  BY DEF DevName, DeviceFd, Fd
<1>3. Opened(m, m, 0)
  BY EmptyIsSeq DEF Opened, DevicesTo, SameDisk, Sound, Ready, Good, Whole, Formed
<1>4. Opened(m, one, 0 + 1)
  BY <1>2, <1>3, NextOpened
<1> HIDE DEF one
<1>5. Opened(m, two, 1 + 1)
  BY <1>2, <1>4, NextOpened
<1> HIDE DEF two
<1>6. Opened(m, three, 2 + 1)
  BY <1>2, <1>5, NextOpened
<1> HIDE DEF three
<1> QED
  BY <1>1, <1>6

(* What mount comes to when the devices are there.                         *)
Remounted(m, n) == HasDevices(n) /\ DevicesFirst(n.open) /\ \A i \in InodeId : SameAt(m, n, i)

LEMMA MountDevices ==
  ASSUME FilesAsMeant, MaxOpenFiles >= 3, NEW m, Sound(m), HasDevices(m), m.open = <<>>
  PROVE  Remounted(m, WriteSuperblock(OpenIoDevices(m)))
<1> DEFINE o == OpenIoDevices(m)
           n == WriteSuperblock(o)
<1>1. Opened(m, o, 3)
  BY IoDevicesOpened
<1> HIDE DEF o
<1>2. Sound(o) /\ HasDevices(o) /\ SameDisk(m, o) /\ DevicesTo(o.open, 3)
  BY <1>1 DEF Opened
<1>3. /\ \A i \in InodeId : SameAt(o, n, i)
      /\ Same(o, n) /\ HasDevices(n)
  BY <1>2, SuperblockAfter, SuperblockDevices
<1> HIDE DEF n
<1>4. ASSUME NEW i \in InodeId
      PROVE  SameAt(m, n, i)
  <2>1. InodeAt(o, i) = InodeAt(m, i) /\ o.disk = m.disk
    BY <1>2, SameDiskFacts DEF SameDisk
  <2> QED
    BY <1>3, <2>1 DEF SameAt, Used, BlockOf
<1>5. DevicesFirst(o.open)
  BY <1>2 DEF DevicesTo, DevicesFirst
<1>6. Remounted(m, n)
  BY <1>3, <1>4, <1>5 DEF Remounted, Same
<1> QED
  BY <1>6 DEF n, o

LEMMA SysMountDevices ==
  ASSUME FilesAsMeant, MaxOpenFiles >= 3, NEW m, Ready(m), Lists(m.held), HasDevices(m),
         m.disk[0] = [sb |-> m.sb]
  PROVE  Remounted(m, SysMount(m))
<1> DEFINE o == SysMount(m)
<1>1. PICK n : Reread(m, n) /\ o = WriteSuperblock(OpenIoDevices(n))
  BY DiskReread
<1> HIDE DEF o
<1>2. Sound(n) /\ SameDisk(m, n) /\ n.open = <<>> /\ n.root = ReadDir(m, InodeAt(m, 0))
  BY <1>1 DEF Reread
<1>3. DirHas(n.root, 0)
  BY <1>2, FirstInodes DEF HasDevices, Ready, Rooted
<1>4. HasDevices(n)
  BY <1>2, <1>3, SameDevices
<1>5. Remounted(n, o)
  BY <1>1, <1>2, <1>4, MountDevices
<1>6. ASSUME NEW i \in InodeId
      PROVE  SameAt(m, o, i)
  <2>1. SameAt(n, o, i)
    BY <1>5 DEF Remounted
  <2>2. InodeAt(n, i) = InodeAt(m, i) /\ n.disk = m.disk
    BY <1>2, SameDiskFacts DEF SameDisk
  <2> QED
    BY <2>1, <2>2 DEF SameAt, Used, BlockOf
<1>7. Remounted(m, o)
  BY <1>5, <1>6 DEF Remounted
<1> QED
  BY <1>7 DEF o

LEMMA UnchangedFiles ==
  ASSUME FilesAsMeant, NEW m, Ready(m), NEW n, \A i \in InodeId : SameAt(m, n, i)
  PROVE  OneFile(m, n)
<1>1. 0 \in InodeId /\ InodeAt(m, 0).allocated \in Nat
  BY Layout, DiskAssumption DEF Ready, Good, Whole, IsInode
<1>2. ButFor(m, n, 0)
  BY <1>1 DEF ButFor, IsFile, SameAt
<1> QED
  BY <1>1, <1>2 DEF OneFile

-----------------------------------------------------------------------------
(* The directories are a tree                                              *)

Dir(m, i) == ReadDir(m, InodeAt(m, i))

Folder(m, i) == IsDir(InodeAt(m, i))

There(m, i) == InodeAt(m, i).type # Unallocated

(* What directory d has in it.                                             *)
Below(d) == {d[k].inode : k \in 3 .. Len(d)}

(* After the first link comes "..", and then each entry once.              *)
Hangs(d) ==
  /\ Len(d) >= 2 /\ d[2].name = ".."
  /\ \A k, l \in 3 .. Len(d) : d[k].inode = d[l].inode => k = l

(* The links d became e, and what was below d is below e but for S.        *)
Pruned(d, e, S) == Hangs(e) /\ e[2] = d[2] /\ Below(e) \subseteq Below(d) \ S

(* A folder is below one other at most, and its ".." is that one.          *)
OnDisk(m) ==
  /\ \A i \in InodeId : Folder(m, i) => Hangs(Dir(m, i))
  /\ \A i \in InodeId : Folder(m, i) => \A c \in Below(Dir(m, i)) : There(m, c)
  /\ \A i, j \in InodeId : Folder(m, i) /\ Folder(m, j) /\ i # j =>
       \A c \in Below(Dir(m, i)) : c \notin Below(Dir(m, j))
  /\ \A i \in InodeId : Folder(m, i) =>
       \A c \in Below(Dir(m, i)) : Folder(m, c) => Dir(m, c)[2].inode = i
  /\ Dir(m, 0)[2].inode = 0

(* The root directory in memory may have less in it than the one on disk.  *)
InTree(d, e) == Hangs(d) /\ d[2] = e[2] /\ Below(d) \subseteq Below(e)

Tree(m) == OnDisk(m) /\ InTree(m.root, Dir(m, 0))

LEMMA HangsAppend ==
  ASSUME NEW d, IsSeq(d), Hangs(d), NEW l, l.inode \notin Below(d)
  PROVE  LET e == Append(d, l)
         IN  Hangs(e) /\ e[2] = d[2] /\ Below(e) = Below(d) \cup {l.inode}
<1> DEFINE e == Append(d, l)
<1>1. Len(d) \in Nat /\ Len(d) >= 2
  BY LenOf DEF Hangs
<1>2. /\ Len(e) = Len(d) + 1 /\ e[Len(d) + 1] = l
      /\ \A k \in 1 .. Len(d) : e[k] = d[k]
  BY AppendSeq
<1> HIDE DEF e
<1>3. e[2] = d[2] /\ \A k \in 3 .. Len(d) : e[k] = d[k]
  BY <1>1, <1>2
<1>4. 3 .. Len(e) = (3 .. Len(d)) \cup {Len(d) + 1}
  BY <1>1, <1>2
<1>5. Below(e) = Below(d) \cup {l.inode}
  BY <1>2, <1>3, <1>4 DEF Below
<1>6. \A k \in 3 .. Len(d) : d[k].inode # l.inode
  BY DEF Below
<1>7. ASSUME NEW j \in 3 .. Len(e), NEW k \in 3 .. Len(e), e[j].inode = e[k].inode
      PROVE  j = k
  <2>1. CASE j \in 3 .. Len(d) /\ k \in 3 .. Len(d)
    BY <1>3, <1>7, <2>1 DEF Hangs
  <2>2. CASE j = Len(d) + 1 /\ k \in 3 .. Len(d)
    BY <1>2, <1>3, <1>6, <1>7, <2>2
  <2>3. CASE j \in 3 .. Len(d) /\ k = Len(d) + 1
    BY <1>2, <1>3, <1>6, <1>7, <2>3
  <2> QED
    BY <1>4, <2>1, <2>2, <2>3
<1>8. Len(e) >= 2 /\ e[2].name = ".."
  BY <1>1, <1>2, <1>3 DEF Hangs
<1>9. Hangs(e)
  BY <1>7, <1>8 DEF Hangs
<1> QED
  BY <1>3, <1>5, <1>9 DEF e

LEMMA HangsDelete ==
  ASSUME NEW d, NEW i, IsLinks(d, i), Hangs(d), NEW name, name \notin {".", ".."},
         LinksTo(d, name) # {}
  PROVE  /\ Pruned(d, DeleteFileLink(d, name), {DirectoryLookup(d, name)})
         /\ DirectoryLookup(d, name) \in Below(d)
<1> DEFINE x == Min(LinksTo(d, name))
           e == RemoveAt(d, x)
<1>1. IsSeq(d) /\ Len(d) \in Nat /\ Len(d) >= 2 /\ d[1].name = "." /\ d[2].name = ".."
  BY LenOf DEF IsLinks, Link, Hangs
<1>2. DeleteFileLink(d, name) = e /\ DirectoryLookup(d, name) = d[x].inode
  BY DEF DeleteFileLink, DirectoryLookup
<1>3. x \in 1 .. Len(d) /\ d[x].name = name
  BY <1>1, LinksToFacts
<1> HIDE DEF x
<1>4. x # 1 /\ x # 2
  BY <1>1, <1>3
<1>5. x \in 3 .. Len(d)
  BY <1>1, <1>3, <1>4
<1>6. Removed(d, e, x)
  BY <1>1, <1>3, RemoveSeq
<1> HIDE DEF e
<1>7. Len(e) = Len(d) - 1 /\ \A k \in 1 .. Len(e) : e[k] = IF k < x THEN d[k] ELSE d[k + 1]
  BY <1>1, <1>3, <1>6 DEF Removed
<1> DEFINE old(k) == IF k < x THEN k ELSE k + 1
<1>8. ASSUME NEW k \in 3 .. Len(e)
      PROVE  old(k) \in 3 .. Len(d) /\ old(k) # x /\ e[k] = d[old(k)]
  BY <1>1, <1>5, <1>7
<1>9. \A j, k \in 3 .. Len(e) : old(j) = old(k) => j = k
  BY <1>1, <1>5, <1>7
<1> HIDE DEF old
<1>10. \A j, k \in 3 .. Len(e) : e[j].inode = e[k].inode => j = k
  BY <1>8, <1>9 DEF Hangs
<1>11. e[2] = d[2] /\ Len(e) >= 2
  BY <1>1, <1>5, <1>7
<1>12. Hangs(e)
  BY <1>1, <1>10, <1>11 DEF Hangs
<1>13. Below(e) \subseteq Below(d) \ {d[x].inode}
  <2>1. ASSUME NEW k \in 3 .. Len(e)
        PROVE  e[k].inode \in Below(d) /\ e[k].inode # d[x].inode
    <3>1. e[k].inode = d[old(k)].inode /\ old(k) \in 3 .. Len(d) /\ old(k) # x
      BY <1>8
    <3> QED
      BY <1>5, <3>1 DEF Hangs, Below
  <2> QED
    BY <2>1 DEF Below
<1>14. d[x].inode \in Below(d)
  BY <1>5 DEF Below
<1> QED
  BY <1>2, <1>11, <1>12, <1>13, <1>14 DEF Pruned

LEMMA HangsDots ==
  ASSUME NEW i, NEW j
  PROVE  LET d == <<Link(".", i), Link("..", j)>>
         IN  Hangs(d) /\ Below(d) = {} /\ d[2].inode = j
<1> DEFINE d == <<Link(".", i), Link("..", j)>>
<1>1. Len(d) = 2 /\ d[2].name = ".." /\ d[2].inode = j
  BY DEF Link
<1> HIDE DEF d
<1>2. 3 .. Len(d) = {}
  BY <1>1
<1>3. Hangs(d) /\ Below(d) = {}
  BY <1>1, <1>2 DEF Hangs, Below
<1> QED
  BY <1>1, <1>3 DEF d

LEMMA BelowIds ==
  ASSUME NEW m, Ready(m), NEW i \in InodeId, Folder(m, i)
  PROVE  HasLinks(m, i) /\ Below(Dir(m, i)) \subseteq InodeId
<1>1. HasLinks(m, i)
  BY DEF Ready, Good, Readable, Folder
<1>2. \A k \in 1 .. Len(Dir(m, i)) : Dir(m, i)[k].inode \in InodeId
  BY <1>1 DEF HasLinks, IsLinks, Dir
<1>3. Len(Dir(m, i)) \in Nat
  BY <1>1, LenOf DEF HasLinks, IsLinks, Dir
<1>4. 3 .. Len(Dir(m, i)) \subseteq 1 .. Len(Dir(m, i))
  BY <1>3
<1> QED
  BY <1>1, <1>2, <1>4 DEF Below

LEMMA SameFolder ==
  ASSUME FilesAsMeant, NEW m, Ready(m), NEW n, NEW k \in InodeId, SameAt(m, n, k)
  PROVE  /\ Folder(n, k) <=> Folder(m, k)
         /\ There(n, k) <=> There(m, k)
         /\ Folder(m, k) => Dir(n, k) = Dir(m, k)
<1>1. InodeAt(n, k) = InodeAt(m, k)
  BY DEF SameAt
<1>2. ASSUME Folder(m, k)
      PROVE  Dir(n, k) = Dir(m, k)
  <2>1. HasLinks(m, k) /\ InodeAt(m, k).allocated \in 0 .. MaxInodeBlocks
    BY <1>2, BelowIds DEF Ready, Good, Whole, IsInode
  <2> QED
    BY <2>1, SameLinks, DiskAssumption DEF Dir
<1> QED
  BY <1>1, <1>2 DEF Folder, There

(* Directory i has nothing below it but what it had and S.                 *)
HasNow(m, n, i, S) ==
  /\ Folder(m, i) /\ Folder(n, i)
  /\ Hangs(Dir(n, i)) /\ Dir(n, i)[2] = Dir(m, i)[2]
  /\ Below(Dir(n, i)) \subseteq Below(Dir(m, i)) \cup S

(* A call that makes inode j, and puts it below i.                         *)
LEMMA TreeGrown ==
  ASSUME FilesAsMeant, NEW m, Ready(m), OnDisk(m), NEW n, Ready(n),
         NEW i \in InodeId, NEW j \in InodeId, Frame(m, n, {i, j}), ~There(m, j), There(n, j),
         i = j \/ HasNow(m, n, i, {j}),
         Folder(n, j) => i # j /\ Hangs(Dir(n, j)) /\ Below(Dir(n, j)) = {} /\ Dir(n, j)[2].inode = i
  PROVE  OnDisk(n)
<1>1. ASSUME NEW k \in InodeId, k \notin {i, j}
      PROVE  /\ Folder(n, k) <=> Folder(m, k)
             /\ There(n, k) <=> There(m, k)
             /\ Folder(m, k) => Dir(n, k) = Dir(m, k)
  <2>1. SameAt(m, n, k)
    BY <1>1 DEF Frame
  <2> QED
    BY <2>1, SameFolder
<1>2. \A k \in InodeId : Folder(m, k) => There(m, k)
  BY DEF Folder, There, IsDir, Directory, Unallocated
<1>3. \A k \in InodeId : Folder(n, k) => There(n, k)
  BY DEF Folder, There, IsDir, Directory, Unallocated
<1>4. \A k \in InodeId : Folder(m, k) => Hangs(Dir(m, k)) /\ Below(Dir(m, k)) \subseteq InodeId
  BY BelowIds DEF OnDisk
<1>5. \A k \in InodeId : Folder(n, k) /\ k # j => HasNow(m, n, k, IF k = i THEN {j} ELSE {})
  <2>1. ASSUME NEW k \in InodeId, Folder(n, k), k # j, k # i
        PROVE  HasNow(m, n, k, {})
    BY <1>1, <1>4, <2>1 DEF HasNow
  <2> QED
    BY <2>1
<1>6. \A k \in InodeId : Folder(m, k) => j \notin Below(Dir(m, k))
  BY DEF OnDisk
<1>7. ASSUME NEW k \in InodeId, Folder(n, k), NEW c \in Below(Dir(n, k))
      PROVE  /\ k # j /\ Folder(m, k)
             /\ \/ c = j /\ k = i
                \/ c \in InodeId \ {j} /\ c \in Below(Dir(m, k))
  <2>1. k # j
    BY <1>7
  <2>2. HasNow(m, n, k, IF k = i THEN {j} ELSE {})
    BY <1>5, <1>7, <2>1
  <2> QED
    BY <1>4, <1>6, <1>7, <2>1, <2>2 DEF HasNow
<1>8. \A k \in InodeId : Folder(n, k) => Hangs(Dir(n, k))
  BY <1>5 DEF HasNow
<1>9. ASSUME NEW k \in InodeId, Folder(n, k), NEW c \in Below(Dir(n, k))
      PROVE  There(n, c)
  <2>1. CASE c = j
    BY <2>1
  <2>2. CASE c # j
    <3>1. c \in InodeId /\ There(m, c)
      BY <1>7, <1>9, <2>2 DEF OnDisk
    <3>2. CASE c = i
      BY <1>3, <2>2, <3>1, <3>2 DEF HasNow
    <3> QED
      BY <1>1, <2>2, <3>1, <3>2
  <2> QED
    BY <2>1, <2>2
<1>10. ASSUME NEW k \in InodeId, NEW l \in InodeId, Folder(n, k), Folder(n, l), k # l,
              NEW c \in Below(Dir(n, k)), c \in Below(Dir(n, l))
       PROVE  FALSE
  <2>1. c # j
    BY <1>7, <1>10
  <2>2. Folder(m, k) /\ Folder(m, l) /\ c \in Below(Dir(m, k)) /\ c \in Below(Dir(m, l))
    BY <1>7, <1>10, <2>1
  <2> QED
    BY <1>10, <2>2 DEF OnDisk
<1>11. ASSUME NEW k \in InodeId, Folder(n, k), NEW c \in Below(Dir(n, k)), Folder(n, c)
       PROVE  Dir(n, c)[2].inode = k
  <2>1. CASE c = j
    BY <1>7, <1>11, <2>1
  <2>2. CASE c # j
    <3>1. c \in InodeId /\ Folder(m, k) /\ c \in Below(Dir(m, k))
      BY <1>7, <1>11, <2>2
    <3>2. Folder(m, c) /\ Dir(n, c)[2] = Dir(m, c)[2]
      BY <1>5, <1>11, <2>2, <3>1 DEF HasNow
    <3> QED
      BY <3>1, <3>2 DEF OnDisk
  <2> QED
    BY <2>1, <2>2
<1>12. Dir(n, 0)[2].inode = 0
  <2>1. 0 \in InodeId /\ Folder(m, 0) /\ Folder(n, 0)
    BY Layout DEF Ready, Rooted, Folder
  <2>2. 0 # j
    BY <1>2, <2>1
  <2> QED
    BY <1>5, <2>1, <2>2 DEF HasNow, OnDisk
<1> QED
  BY <1>8, <1>9, <1>10, <1>11, <1>12 DEF OnDisk

(* A call that takes inode j from below i.                                 *)
LEMMA TreePruned ==
  ASSUME FilesAsMeant, NEW m, Ready(m), OnDisk(m), NEW n, Ready(n),
         NEW i \in InodeId, NEW j \in InodeId, Frame(m, n, {i, j}), ~Folder(n, j),
         Folder(m, i), j \in Below(Dir(m, i)),
         i # j => Folder(n, i) /\ Pruned(Dir(m, i), Dir(n, i), {j})
  PROVE  OnDisk(n)
<1>1. ASSUME NEW k \in InodeId, k \notin {i, j}
      PROVE  /\ Folder(n, k) <=> Folder(m, k)
             /\ There(n, k) <=> There(m, k)
             /\ Folder(m, k) => Dir(n, k) = Dir(m, k)
  <2>1. SameAt(m, n, k)
    BY <1>1 DEF Frame
  <2> QED
    BY <2>1, SameFolder
<1>2. \A k \in InodeId : Folder(n, k) => There(n, k)
  BY DEF Folder, There, IsDir, Directory, Unallocated
<1>3. \A k \in InodeId : Folder(m, k) => Hangs(Dir(m, k)) /\ Below(Dir(m, k)) \subseteq InodeId
  BY BelowIds DEF OnDisk
<1>4. \A k \in InodeId : Folder(n, k) => Folder(m, k) /\ Pruned(Dir(m, k), Dir(n, k), {j})
  <2>1. ASSUME NEW k \in InodeId, Folder(n, k)
        PROVE  Folder(m, k) /\ Pruned(Dir(m, k), Dir(n, k), {j})
    <3>1. k # j
      BY <2>1
    <3>2. CASE k = i
      BY <3>1, <3>2
    <3>3. CASE k # i
      <4>1. Folder(m, k) /\ Dir(n, k) = Dir(m, k)
        BY <1>1, <2>1, <3>1, <3>3
      <4>2. j \notin Below(Dir(m, k))
        BY <3>3, <4>1 DEF OnDisk
      <4> QED
        BY <1>3, <4>1, <4>2 DEF Pruned
    <3> QED
      BY <3>2, <3>3
  <2> QED
    BY <2>1
<1>5. \A k \in InodeId : Folder(n, k) => Hangs(Dir(n, k)) /\ Dir(n, k)[2] = Dir(m, k)[2]
  BY <1>4 DEF Pruned
<1>6. ASSUME NEW k \in InodeId, Folder(n, k), NEW c \in Below(Dir(n, k))
      PROVE  c \in InodeId \ {j} /\ Folder(m, k) /\ c \in Below(Dir(m, k))
  BY <1>3, <1>4, <1>6 DEF Pruned
<1>7. ASSUME NEW k \in InodeId, Folder(n, k), NEW c \in Below(Dir(n, k))
      PROVE  There(n, c)
  <2>1. c \in InodeId \ {j} /\ There(m, c)
    BY <1>6, <1>7 DEF OnDisk
  <2>2. CASE c = i
    BY <1>2, <2>1, <2>2
  <2> QED
    BY <1>1, <2>1, <2>2
<1>8. ASSUME NEW k \in InodeId, NEW l \in InodeId, Folder(n, k), Folder(n, l), k # l,
             NEW c \in Below(Dir(n, k)), c \in Below(Dir(n, l))
      PROVE  FALSE
  <2>1. Folder(m, k) /\ Folder(m, l) /\ c \in Below(Dir(m, k)) /\ c \in Below(Dir(m, l))
    BY <1>6, <1>8
  <2> QED
    BY <1>8, <2>1 DEF OnDisk
<1>9. ASSUME NEW k \in InodeId, Folder(n, k), NEW c \in Below(Dir(n, k)), Folder(n, c)
      PROVE  Dir(n, c)[2].inode = k
  <2>1. c \in InodeId /\ Folder(m, k) /\ c \in Below(Dir(m, k))
    BY <1>6, <1>9
  <2>2. Folder(m, c) /\ Dir(n, c)[2] = Dir(m, c)[2]
    BY <1>4, <1>5, <1>9, <2>1
  <2> QED
    BY <2>1, <2>2 DEF OnDisk
<1>10. Dir(n, 0)[2].inode = 0
  <2>1. 0 \in InodeId /\ Folder(n, 0)
    BY Layout DEF Ready, Rooted, Folder
  <2> QED
    BY <1>5, <2>1 DEF OnDisk
<1> QED
  BY <1>5, <1>7, <1>8, <1>9, <1>10 DEF OnDisk

LEMMA KnownTree ==
  ASSUME NEW m, Tree(m), NEW d, KnownDir(m, d), NEW i, IsLinks(d, i)
  PROVE  /\ i \in InodeId /\ Folder(m, i) /\ IsSeq(d) /\ InTree(d, Dir(m, i))
         /\ i = 0 => Below(m.root) \subseteq Below(d)
<1>1. IsSeq(d)
  BY DEF IsLinks
<1>2. d # <<>>
  BY EmptyIsSeq DEF IsLinks
<1>3. PICK j \in InodeId : /\ IsDir(InodeAt(m, j)) /\ IsLinks(d, j)
                           /\ d = ReadDir(m, InodeAt(m, j)) \/ (j = 0 /\ d = m.root)
  BY <1>2 DEF KnownDir
<1>4. i = j
  BY <1>3, OwnLinks
<1>5. Folder(m, i) /\ (d = Dir(m, i) \/ (i = 0 /\ d = m.root))
  BY <1>3, <1>4 DEF Folder, Dir
<1>6. InTree(m.root, Dir(m, 0)) /\ Hangs(Dir(m, i))
  BY <1>3, <1>4, <1>5 DEF Tree, OnDisk
<1>7. CASE d = Dir(m, i)
  BY <1>1, <1>3, <1>4, <1>5, <1>6, <1>7 DEF InTree
<1>8. CASE i = 0 /\ d = m.root
  BY <1>1, <1>3, <1>4, <1>5, <1>6, <1>8
<1> QED
  BY <1>5, <1>7, <1>8

LEMMA SameTree ==
  ASSUME NEW m, OnDisk(m), NEW n, SameDisk(m, n)
  PROVE  OnDisk(n) /\ Dir(n, 0) = Dir(m, 0)
<1>1. \A i : /\ Folder(n, i) <=> Folder(m, i)
             /\ There(n, i) <=> There(m, i)
             /\ Dir(n, i) = Dir(m, i)
  BY SameDiskFacts DEF Folder, There, Dir
<1> QED
  BY <1>1 DEF OnDisk

LEMMA SameRootTree ==
  ASSUME NEW m, Tree(m), NEW n, SameDisk(m, n), n.root = m.root
  PROVE  Tree(n)
BY SameTree DEF Tree

(* Whatever the root directory in memory was, it is the disk's again.      *)
LEMMA RootTree ==
  ASSUME FilesAsMeant, NEW m, Ready(m), OnDisk(m)
  PROVE  Tree(ReadRootDir(m))
<1> DEFINE n == ReadRootDir(m)
<1>1. RootIsRead(m, n)
  BY RootRead DEF Ready, Rooted
<1> HIDE DEF n
<1>2. SameDisk(m, n) /\ n.root = Dir(m, 0)
  BY <1>1 DEF RootIsRead, Dir
<1>3. OnDisk(n) /\ Dir(n, 0) = Dir(m, 0)
  BY <1>2, SameTree
<1>4. Hangs(Dir(m, 0))
  BY Layout DEF Ready, Rooted, Folder, OnDisk
<1>5. Tree(n)
  BY <1>2, <1>3, <1>4 DEF Tree, InTree
<1> QED
  BY <1>5 DEF n

LEMMA RootKept ==
  ASSUME FilesAsMeant, NEW m, Ready(m), Tree(m), NEW n, n.root = m.root,
         NEW i, NEW j, Frame(m, n, {i, j}), j # 0,
         i = 0 => Dir(n, 0)[2] = Dir(m, 0)[2] /\ Below(m.root) \subseteq Below(Dir(n, 0))
  PROVE  InTree(n.root, Dir(n, 0))
<1>1. InTree(m.root, Dir(m, 0))
  BY DEF Tree
<1>2. CASE i = 0
  BY <1>1, <1>2 DEF InTree
<1>3. CASE i # 0
  <2>1. 0 \in InodeId /\ Folder(m, 0)
    BY Layout DEF Ready, Rooted, Folder
  <2>2. SameAt(m, n, 0)
    BY <1>3, <2>1 DEF Frame
  <2>3. Dir(n, 0) = Dir(m, 0)
    BY <2>1, <2>2, SameFolder
  <2> QED
    BY <1>1, <2>3
<1> QED
  BY <1>2, <1>3

LEMMA NewIsNotThere ==
  ASSUME FilesAsMeant, NEW m, Ready(m), NEW j \in InodeId, j \notin m.sb.inodes
  PROVE  ~There(m, j) /\ j # 0
BY DEF Ready, Good, Whole, Rooted, There

(* A link to the new inode j is put in the directory with the links d.     *)
LEMMA TreeEntered ==
  ASSUME FilesAsMeant, NEW m, Ready(m), Tree(m), NEW n, Ready(n), n.root = m.root,
         NEW i, NEW j \in InodeId, i # j, Frame(m, n, {i, j}), j \notin m.sb.inodes, There(n, j),
         NEW d, KnownDir(m, d), IsLinks(d, i), NEW name, Folder(n, i),
         Dir(n, i) = Append(d, Link(name, j)),
         Folder(n, j) => Hangs(Dir(n, j)) /\ Below(Dir(n, j)) = {} /\ Dir(n, j)[2].inode = i
  PROVE  Tree(n)
<1> DEFINE l == Link(name, j)
<1>1. /\ i \in InodeId /\ Folder(m, i) /\ IsSeq(d) /\ InTree(d, Dir(m, i))
      /\ i = 0 => Below(m.root) \subseteq Below(d)
  BY KnownTree
<1>2. ~There(m, j) /\ j # 0
  BY NewIsNotThere
<1>3. l.inode = j
  BY DEF Link
<1> HIDE DEF l
<1>4. Hangs(d) /\ d[2] = Dir(m, i)[2] /\ Below(d) \subseteq Below(Dir(m, i))
  BY <1>1 DEF InTree
<1>5. j \notin Below(d)
  BY <1>1, <1>2, <1>4 DEF Tree, OnDisk
<1>6. Hangs(Dir(n, i)) /\ Dir(n, i)[2] = d[2] /\ Below(Dir(n, i)) = Below(d) \cup {j}
  <2>1. Dir(n, i) = Append(d, l)
    BY DEF l
  <2>2. l.inode \notin Below(d)
    BY <1>3, <1>5
  <2> DEFINE e == Append(d, l)
  <2>3. Hangs(e) /\ e[2] = d[2] /\ Below(e) = Below(d) \cup {l.inode}
    BY <1>1, <1>4, <2>2, HangsAppend
  <2> HIDE DEF e
  <2>4. Dir(n, i) = e
    BY <2>1 DEF e
  <2> QED
    BY <1>3, <2>3, <2>4
<1>7. HasNow(m, n, i, {j})
  BY <1>1, <1>4, <1>6 DEF HasNow
<1>8. OnDisk(n)
  BY <1>1, <1>2, <1>7, TreeGrown DEF Tree
<1>9. InTree(n.root, Dir(n, 0))
  <2>1. i = 0 => Dir(n, 0)[2] = Dir(m, 0)[2] /\ Below(m.root) \subseteq Below(Dir(n, 0))
    BY <1>1, <1>4, <1>6
  <2> QED
    BY <1>2, <2>1, RootKept
<1> QED
  BY <1>8, <1>9 DEF Tree

LEMMA LinkedTree ==
  ASSUME FilesAsMeant, NEW m, Ready(m), Tree(m), NEW d, KnownDir(m, d), NEW name,
         NEW a, Linked(m, a, d, name, File), Ready(a.m)
  PROVE  Tree(a.m)
<1>1. /\ a.id \in InodeId /\ a.id \notin m.sb.inodes /\ a.m.root = m.root
      /\ There(a.m, a.id) /\ ~Folder(a.m, a.id)
  BY FileIsNoDir DEF Linked, Same, There, Folder, File, Unallocated
<1>2. PICK i \in InodeId :
        /\ Frame(m, a.m, {i, a.id}) /\ Dir(a.m, i) = Append(d, Link(name, a.id))
        /\ \/ i = a.id
           \/ i # a.id /\ Folder(a.m, i) /\ IsLinks(d, i)
  BY DEF Linked, Dir, Folder
<1>3. CASE i = a.id
  <2>1. ~There(m, a.id) /\ a.id # 0
    BY <1>1, NewIsNotThere
  <2>2. OnDisk(a.m)
    BY <1>1, <1>2, <1>3, <2>1, TreeGrown DEF Tree
  <2>3. InTree(a.m.root, Dir(a.m, 0))
    BY <1>1, <1>2, <1>3, <2>1, RootKept
  <2> QED
    BY <2>2, <2>3 DEF Tree
<1>4. CASE i # a.id /\ Folder(a.m, i) /\ IsLinks(d, i)
  BY <1>1, <1>2, <1>4, TreeEntered
<1> QED
  BY <1>2, <1>3, <1>4

LEMMA OpenInodeTree ==
  ASSUME NEW m, Ready(m), Tree(m), NEW id, NEW flags
  PROVE  Tree(OpenInode(m, id, flags).m)
<1> DEFINE o == AddFd(m.open, id, flags).open
           n == [m EXCEPT !.open = o]
<1>1. OpenInode(m, id, flags).m = n
  BY DEF OpenInode
<1> HIDE DEF o
<1>2. OpenChanged(m, n, o)
  BY OpenChange DEF Ready, Good, Whole, Formed
<1> HIDE DEF n
<1>3. Tree(n)
  BY <1>2, SameRootTree DEF OpenChanged
<1> QED
  BY <1>1, <1>3

LEMMA OpenFileTree ==
  ASSUME FilesAsMeant, NEW m, Sound(m), Tree(m), Room(m) >= DirectoryBlocks,
         NEW path, Plain(path), NEW name, NEW flags \in 0 .. 4
  PROVE  Tree(OpenFile(m, path, name, flags, Blank).m)
<1> DEFINE d == ParentDir(m, path, Blank)
           id == PathToInodeId(m, d, <<name>>, Blank)
           c == CreateFile(m, d, name, File, Blank)
           n == OpenFile(m, path, name, flags, Blank).m
<1>1. n \in {m, OpenInode(m, id, flags).m, OpenInode(c.m, c.id, flags).m}
  BY DEF OpenFile, OpenIn, OpenCreated
<1>2. KnownDir(m, d)
  BY Layout, ParentFacts DEF Sound
<1> HIDE DEF d, id, n
<1>3. (c.m = m /\ c.id = -1) \/ Linked(m, c, d, name, File)
  BY <1>2, FileMade DEF Sound, InodeType
<1> HIDE DEF c
<1>4. Tree(OpenInode(m, id, flags).m)
  BY OpenInodeTree DEF Sound
<1>5. Ready(c.m) /\ Tree(c.m)
  <2>1. CASE c.m = m
    BY <2>1 DEF Sound
  <2>2. CASE Linked(m, c, d, name, File)
    BY <1>2, <2>2, LinkedTree, FileMadeAfter DEF After, Sound
  <2> QED
    BY <1>3, <2>1, <2>2
<1>6. Tree(OpenInode(c.m, c.id, flags).m)
  BY <1>5, OpenInodeTree
<1> QED
  BY <1>1, <1>4, <1>6 DEF n

LEMMA SysOpenTree ==
  ASSUME FilesAsMeant, NEW m, Sound(m), Tree(m), Room(m) >= DirectoryBlocks, NEW p \in Procs,
         NEW path, Plain(path), NEW name, NEW flags \in 0 .. 4
  PROVE  Tree(SysOpen(m, p, path, name, flags, Blank))
<1> DEFINE o == OpenFile(m, path, name, flags, Blank)
           r == ReadRootDir(o.m)
           h == [r.held EXCEPT ![p] = AddProcessFd(@, o.fd)]
           n == [r EXCEPT !.held = h]
<1>1. SysOpen(m, p, path, name, flags, Blank) \in {o.m, n}
  BY DEF SysOpen, HoldOpened
<1>2. Tree(o.m) /\ Sound(o.m)
  BY OpenFileTree, OpenFileAfter DEF After
<1> HIDE DEF o
<1>3. Tree(r) /\ Sound(r)
  BY <1>2, RootTree, RootReadAfter DEF After, Sound, Tree
<1> HIDE DEF r, h
<1>4. HeldChanged(r, n, h)
  BY <1>3, HeldChange DEF Sound, Ready, Good, Whole, Formed
<1> HIDE DEF n
<1>5. Tree(n)
  BY <1>3, <1>4, SameRootTree DEF HeldChanged
<1> QED
  BY <1>1, <1>2, <1>5

LEMMA SysCloseTree ==
  ASSUME NEW m, Sound(m), Tree(m), NEW p, NEW fd
  PROVE  Tree(SysClose(m, p, fd))
<1> DEFINE t == CloseFile(m.open, fd)
           l == [m EXCEPT !.open = t]
           h == [m.held EXCEPT ![p] = RemoveProcessFd(@, fd)]
           n == [l EXCEPT !.held = h]
<1>0. Shape(m)
  BY DEF Sound, Ready, Good, Whole, Formed
<1>1. SysClose(m, p, fd) = m \/ SysClose(m, p, fd) = n
  BY <1>0 DEF SysClose, Shape, Fields
<1> HIDE DEF t, h
<1>2. OpenChanged(m, l, t)
  BY <1>0, OpenChange
<1> HIDE DEF l
<1>3. HeldChanged(l, n, h)
  BY <1>2, HeldChange DEF OpenChanged, SameDisk
<1> HIDE DEF n
<1>4. SameDisk(m, n) /\ n.root = m.root
  BY <1>2, <1>3 DEF OpenChanged, HeldChanged, SameDisk
<1>5. Tree(n)
  BY <1>4, SameRootTree
<1> QED
  BY <1>1, <1>5 DEF n

(* A call that changes no folder, and makes and removes nothing.           *)
LEMMA SameFolders ==
  ASSUME FilesAsMeant, NEW m, Ready(m), Tree(m), NEW n, n.root = m.root,
         \A i \in InodeId : /\ Folder(n, i) <=> Folder(m, i)
                            /\ There(n, i) <=> There(m, i)
                            /\ Folder(m, i) => Dir(n, i) = Dir(m, i)
  PROVE  Tree(n)
<1>1. 0 \in InodeId /\ Folder(m, 0)
  BY Layout DEF Ready, Rooted, Folder
<1>2. \A i \in InodeId : Folder(m, i) => Below(Dir(m, i)) \subseteq InodeId
  BY BelowIds
<1>3. OnDisk(m) /\ InTree(m.root, Dir(m, 0))
  BY DEF Tree
<1>4. OnDisk(n)
  BY <1>1, <1>2, <1>3 DEF OnDisk
<1> QED
  BY <1>1, <1>3, <1>4 DEF Tree

LEMMA SysWriteTree ==
  ASSUME FilesAsMeant, NEW m, Sound(m), Tree(m), Room(m) >= MaxInodeBlocks,
         NEW p, NEW fd, NEW contents, Len(contents) \in Nat
  PROVE  Tree(SysWrite(m, p, fd, contents))
<1> DEFINE n == SysWrite(m, p, fd, contents)
<1>1. CASE n = m
  BY <1>1
<1>2. CASE n # m
  <2>1. PICK i \in InodeId : /\ Len(contents) <= MaxInodeBlocks
                             /\ InodeAt(m, i).type = File /\ Rewrote(m, n, i, contents)
    BY <1>2, SysWriteWrites
  <2> HIDE DEF n
  <2>2. Frame(m, n, {i})
    <3>1. Touched(m, n, i)
      BY <2>1, RewroteTouched, DiskAssumption DEF Sound, Ready
    <3> QED
      BY <3>1 DEF Touched, Frame
  <2>3. InodeAt(n, i).type = File /\ n.root = m.root
    BY <2>1 DEF Rewrote, Same
  <2>4. ASSUME NEW k \in InodeId
        PROVE  /\ Folder(n, k) <=> Folder(m, k)
               /\ There(n, k) <=> There(m, k)
               /\ Folder(m, k) => Dir(n, k) = Dir(m, k)
    <3>1. CASE k = i
      BY <2>1, <2>3, <3>1, FileIsNoDir DEF Folder, There, File, Unallocated
    <3>2. CASE k # i
      <4>1. SameAt(m, n, k)
        BY <2>2, <3>2 DEF Frame
      <4> QED
        BY <4>1, SameFolder DEF Sound
    <3> QED
      BY <3>1, <3>2
  <2>5. Tree(n)
    BY <2>3, <2>4, SameFolders DEF Sound
  <2> QED
    BY <2>5 DEF n
<1> QED
  BY <1>1, <1>2

LEMMA SysMkdirTree ==
  ASSUME FilesAsMeant, NEW m, Sound(m), Tree(m), Room(m) >= 2 * DirectoryBlocks,
         NEW path, Plain(path), NEW name
  PROVE  Tree(SysMkdir(m, path, name, Blank))
<1> DEFINE n == SysMkdir(m, path, name, Blank)
           d == ParentDir(m, path, Blank)
           c == CreateDirectory(m, d, name, Blank)
           dots == <<Link(".", c.id), Link("..", d[1].inode)>>
<1>1. \/ n = m
      \/ ~NoParent(m, path, Blank) /\ c.id # -1 /\ n = ReadRootDir(c.m)
  BY DEF SysMkdir
<1> HIDE DEF n
<1>2. CASE n = m
  BY <1>2 DEF n
<1>3. CASE ~NoParent(m, path, Blank) /\ c.id # -1 /\ n = ReadRootDir(c.m)
  <2>1. KnownDir(m, d) /\ d # <<>>
    BY <1>3, ParentIsDir DEF Sound
  <2> HIDE DEF d
  <2>2. DirMade(m, c, d, name)
    BY <1>3, <2>1, DirectoryMade DEF Sound
  <2>3. c.dir = dots
    <3> DEFINE f == CreateFile(m, d, name, Directory, Blank)
    <3>1. c = AddDots(d, f)
      BY DEF CreateDirectory
    <3> HIDE DEF f
    <3>2. c.id = f.id /\ f.id # -1
      BY <1>3, <3>1 DEF AddDots
    <3>3. c.dir = <<Link(".", f.id), Link("..", d[1].inode)>>
      BY <3>1, <3>2 DEF AddDots
    <3> QED
      BY <3>2, <3>3
  <2> HIDE DEF c
  <2>4. PICK i \in InodeId :
          /\ Frame(m, c.m, {i, c.id}) /\ i # c.id
          /\ Dir(c.m, i) = Append(d, Link(name, c.id))
          /\ Folder(c.m, i) /\ IsLinks(d, i)
    BY <2>2 DEF DirMade, Dir, Folder
  <2>5. d[1].inode = i
    BY <2>4 DEF IsLinks, Link
  <2>6. Hangs(c.dir) /\ Below(c.dir) = {} /\ c.dir[2].inode = i
    BY <2>3, <2>5, HangsDots
  <2>7. /\ c.id \in InodeId /\ c.id \notin m.sb.inodes /\ Ready(c.m) /\ c.m.root = m.root
        /\ There(c.m, c.id) /\ Dir(c.m, c.id) = c.dir
    BY <2>2 DEF DirMade, Same, There, IsDir, Directory, Unallocated, Dir
  <2>8. Tree(c.m)
    BY <2>1, <2>4, <2>6, <2>7, TreeEntered DEF Sound
  <2>9. Tree(n)
    BY <1>3, <2>7, <2>8, RootTree DEF Tree
  <2> QED
    BY <2>9 DEF n
<1> QED
  BY <1>1, <1>2, <1>3

(* The root directory is read again after an rm, so it does not matter     *)
(* that the one in memory had too little in it before.                     *)
LEMMA SysRmTree ==
  ASSUME FilesAsMeant, NEW m, Sound(m), Tree(m), Room(m) >= DirectoryBlocks,
         NEW path, Plain(path), NEW name, name \notin {".", ".."}
  PROVE  Tree(SysRm(m, path, name, Blank))
<1> DEFINE d == ParentDir(m, path, Blank)
           id == PathToInodeId(m, d, <<name>>, Blank)
           l == DeleteFileLink(d, name)
           o == DeleteInode(WriteDir(m, l), InodeAt(m, id))
           n == SysRm(m, path, name, Blank)
<1>1. n = m \/ (id # -1 /\ n = ReadRootDir(o))
  BY DEF SysRm
<1> HIDE DEF n
<1>2. KnownDir(m, d)
  BY Layout, ParentFacts DEF Sound
<1>3. id = DirectoryLookup(d, name)
  BY NameFound
<1> HIDE DEF d, id
<1>4. ASSUME id # -1
      PROVE  Tree(ReadRootDir(o))
  <2>1. id \in InodeId \ {0}
    BY <1>2, <1>3, <1>4, KnownLookup
  <2>2. LinksTo(d, name) # {}
    BY <1>3, <1>4 DEF DirectoryLookup
  <2>3. d # <<>>
    BY <2>2, EmptyIsSeq DEF LinksTo
  <2>4. PICK i \in InodeId : IsLinks(d, i)
    BY <1>2, <2>3 DEF KnownDir
  <2>5. Folder(m, i) /\ InTree(d, Dir(m, i))
    BY <1>2, <2>4, KnownTree
  <2>6. Hangs(d) /\ d[2] = Dir(m, i)[2] /\ Below(d) \subseteq Below(Dir(m, i))
    BY <2>5 DEF InTree
  <2>7. IsLinks(l, i) /\ Pruned(d, l, {id}) /\ id \in Below(d)
    BY <1>3, <2>2, <2>4, <2>6, LinkDeleted, HangsDelete
  <2>8. Pruned(Dir(m, i), l, {id}) /\ id \in Below(Dir(m, i))
    BY <2>6, <2>7 DEF Pruned
  <2> HIDE DEF l
  <2>9. DirUnlinked(m, o, i, l, id)
    BY <2>1, <2>5, <2>7, Unlinked DEF Folder
  <2> HIDE DEF o
  <2>10. /\ Frame(m, o, {i, id}) /\ ~Folder(o, id) /\ Ready(o)
         /\ i # id => Folder(o, i) /\ Dir(o, i) = l
    BY <2>9 DEF DirUnlinked, After, Sound, Folder, Dir
  <2>11. OnDisk(o)
    BY <2>1, <2>5, <2>8, <2>10, TreePruned DEF Sound, Tree
  <2> QED
    BY <2>10, <2>11, RootTree
<1> QED
  BY <1>1, <1>4 DEF n

LEMMA SuperblockTree ==
  ASSUME FilesAsMeant, NEW m, Sound(m), Tree(m)
  PROVE  Tree(WriteSuperblock(m))
<1> DEFINE n == WriteSuperblock(m)
<1>1. (\A i \in InodeId : SameAt(m, n, i)) /\ n.root = m.root
  BY SuperblockAfter DEF Same
<1> HIDE DEF n
<1>2. Tree(n)
  BY <1>1, SameFolder, SameFolders DEF Sound
<1> QED
  BY <1>2 DEF n

LEMMA SysUnmountTree ==
  ASSUME FilesAsMeant, NEW m, Sound(m), Tree(m)
  PROVE  Tree(SysUnmount(m))
<1> DEFINE t == CloseAll(m.open)
           l == [m EXCEPT !.open = t]
<1>1. SysUnmount(m) = WriteSuperblock(l)
  BY DEF SysUnmount
<1>2. Table(t) /\ (DevicesFirst(m.open) => DevicesFirst(t))
  BY CloseAllFacts DEF Sound, Table
<1> HIDE DEF t
<1>3. Shape(m) /\ IsLinks(m.root, 0) /\ Lists(m.held)
  BY DEF Sound, Ready, Good, Whole, Formed, Rooted
<1>4. OpenChanged(m, l, t)
  BY <1>3, OpenChange
<1> HIDE DEF l
<1>5. Sound(l)
  BY <1>2, <1>3, <1>4, TablesAfter DEF OpenChanged, After
<1>6. Tree(l)
  BY <1>4, SameRootTree DEF OpenChanged
<1> QED
  BY <1>1, <1>5, <1>6, SuperblockTree

LEMMA IoDevicesTree ==
  ASSUME FilesAsMeant, NEW m, Sound(m), Tree(m), Room(m) >= 2 * DirectoryBlocks
  PROVE  Tree(OpenIoDevices(m))
<1> DEFINE one == OpenDevice(m, "stdin", READ_GLOBAL)
           two == OpenDevice(one, "stdout", WRITE_GLOBAL)
           three == OpenDevice(two, "stderr", WRITE_GLOBAL)
<1>1. OpenIoDevices(m) = three
  BY DEF OpenIoDevices
<1>2. /\ READ_GLOBAL \in 0 .. 4 /\ WRITE_GLOBAL \in 0 .. 4
      /\ READ_GLOBAL \notin {WRITE, READ_WRITE, WRITE_GLOBAL}
  BY DEF READ_GLOBAL, WRITE_GLOBAL, WRITE, READ_WRITE
<1>3. DirectoryBlocks \in Nat /\ Room(m) \in Nat /\ Room(m) >= DirectoryBlocks
  BY FreeFacts, DiskAssumption
<1>4. After(m, one, 0) /\ Tree(one)
  BY <1>2, <1>3, DevIsPlain, OpenOldAfter, OpenFileTree DEF OpenDevice
<1> HIDE DEF one
<1>5. Room(one) \in Nat /\ Room(two) \in Nat
  BY FreeFacts
<1>6. Sound(one) /\ Room(one) >= 2 * DirectoryBlocks /\ Room(one) >= DirectoryBlocks
  BY <1>3, <1>4, <1>5 DEF After
<1>7. After(one, two, DirectoryBlocks) /\ Tree(two)
  BY <1>2, <1>4, <1>6, DevIsPlain, OpenFileAfter, OpenFileTree DEF OpenDevice
<1> HIDE DEF two
<1>8. Sound(two) /\ Room(two) >= DirectoryBlocks
  BY <1>3, <1>5, <1>6, <1>7 DEF After
<1>9. Tree(three)
  BY <1>2, <1>7, <1>8, DevIsPlain, OpenFileTree DEF OpenDevice
<1> QED
  BY <1>1, <1>9

(* A mount finds the disk as it was left, and reads the root directory.    *)
LEMMA SysMountTree ==
  ASSUME FilesAsMeant, NEW m, Ready(m), OnDisk(m), Lists(m.held), m.disk[0] = [sb |-> m.sb],
         Room(m) >= 2 * DirectoryBlocks
  PROVE  Tree(SysMount(m))
<1>1. PICK n : Reread(m, n) /\ SysMount(m) = WriteSuperblock(OpenIoDevices(n))
  BY DiskReread
<1>2. Sound(n) /\ Room(n) >= 2 * DirectoryBlocks /\ SameDisk(m, n) /\ n.root = Dir(m, 0)
  BY <1>1, SameDiskFacts DEF Reread, Dir
<1>3. Hangs(Dir(m, 0))
  BY Layout DEF Ready, Rooted, Folder, OnDisk
<1>4. Tree(n)
  BY <1>2, <1>3, SameTree DEF Tree, InTree
<1>5. Sound(OpenIoDevices(n)) /\ Tree(OpenIoDevices(n))
  BY <1>2, <1>4, IoDevicesSound, IoDevicesTree
<1> QED
  BY <1>1, <1>5, SuperblockTree

LEMMA RootLinksHang ==
  ASSUME FilesAsMeant
  PROVE  Hangs(RootLinks) /\ Below(RootLinks) = {1} /\ RootLinks[2].inode = 0
<1> DEFINE one == 1
           zero == 0
           l == Link("dev", one)
<1>1. IsSeq(RootDots)
  BY RootDotsFacts DEF IsLinks
<1>2. Hangs(RootDots) /\ Below(RootDots) = {} /\ RootDots[2].inode = 0
  <2>1. RootDots = <<Link(".", zero), Link("..", zero)>>
    BY DEF RootDots
  <2> HIDE DEF zero
  <2>2. Hangs(RootDots) /\ Below(RootDots) = {} /\ RootDots[2].inode = zero
    BY <2>1, HangsDots
  <2> QED
    BY <2>2 DEF zero
<1>3. l.inode = one /\ RootLinks = Append(RootDots, l)
  BY DEF Link, RootLinks
<1> HIDE DEF one, l
<1> DEFINE e == Append(RootDots, l)
<1>4. Hangs(e) /\ e[2] = RootDots[2] /\ Below(e) = Below(RootDots) \cup {l.inode}
  BY <1>1, <1>2, HangsAppend
<1> HIDE DEF e
<1>5. Hangs(RootLinks) /\ Below(RootLinks) = {one} /\ RootLinks[2].inode = 0
  BY <1>2, <1>3, <1>4 DEF e
<1> QED
  BY <1>5 DEF one

LEMMA DevLinksHang ==
  ASSUME NEW d, Len(d) = 5, \A j \in 1 .. 5 : d[j] = DevLink(j)
  PROVE  Hangs(d) /\ Below(d) = 2 .. 4 /\ d[2].inode = 0
<1>1. ASSUME NEW k \in 3 .. 5
      PROVE  d[k].inode = k - 1
  BY <1>1 DEF DevLink, Link
<1>2. d[2].name = ".." /\ d[2].inode = 0
  BY DEF DevLink, Link
<1>3. Below(d) = {k - 1 : k \in 3 .. 5}
  BY <1>1 DEF Below
<1>4. {k - 1 : k \in 3 .. 5} = 2 .. 4
  OBVIOUS
<1>5. Hangs(d)
  BY <1>1, <1>2 DEF Hangs
<1> QED
  BY <1>2, <1>3, <1>4, <1>5

LEMMA FreshTree ==
  ASSUME FilesAsMeant, NEW n, Fresh(n)
  PROVE  Tree(n)
<1>1. /\ n.root = RootLinks /\ Dir(n, 0) = RootLinks
      /\ \A i \in InodeId : Folder(n, i) => i \in 0 .. 1
      /\ \A i \in 2 .. 4 : There(n, i)
  BY DEF Fresh, AsMade, HasDevices, Dir, Folder, There, Device, Unallocated
<1>2. Hangs(Dir(n, 1)) /\ Below(Dir(n, 1)) = 2 .. 4 /\ Dir(n, 1)[2].inode = 0
  <2>1. Len(Dir(n, 1)) = 5 /\ \A j \in 1 .. 5 : Dir(n, 1)[j] = DevLink(j)
    BY DEF Fresh, AsMade, Dir
  <2> QED
    BY <2>1, DevLinksHang
<1>3. Hangs(RootLinks) /\ Below(RootLinks) = {1} /\ RootLinks[2].inode = 0
  BY RootLinksHang
<1>4. There(n, 1)
  BY DEF Fresh, HasDevices, IsDir, There, Directory, Unallocated
<1>5. \A c \in 2 .. 4 : ~Folder(n, c)
  <2>1. \A c \in 2 .. 4 : c \in InodeId /\ c \notin 0 .. 1
    BY FirstInodes
  <2> QED
    BY <1>1, <2>1
<1>6. ASSUME NEW i \in InodeId, Folder(n, i)
      PROVE  (i = 0 /\ Below(Dir(n, i)) = {1}) \/ (i = 1 /\ Below(Dir(n, i)) = 2 .. 4)
  <2>1. i = 0 \/ i = 1
    BY <1>1, <1>6
  <2> QED
    BY <1>1, <1>2, <1>3, <2>1
<1>7. \A i \in InodeId : Folder(n, i) => Hangs(Dir(n, i))
  BY <1>1, <1>2, <1>3, <1>6
<1>8. \A i \in InodeId : Folder(n, i) => \A c \in Below(Dir(n, i)) : There(n, c)
  BY <1>1, <1>4, <1>6
<1>9. ASSUME NEW i \in InodeId, NEW j \in InodeId, Folder(n, i), Folder(n, j), i # j,
             NEW c \in Below(Dir(n, i))
      PROVE  c \notin Below(Dir(n, j))
  <2>1. 1 \notin 2 .. 4
    OBVIOUS
  <2>2. CASE i = 0
    BY <1>6, <1>9, <2>1, <2>2
  <2>3. CASE i # 0
    BY <1>6, <1>9, <2>1, <2>3
  <2> QED
    BY <2>2, <2>3
<1>10. ASSUME NEW i \in InodeId, Folder(n, i), NEW c \in Below(Dir(n, i)), Folder(n, c)
       PROVE  Dir(n, c)[2].inode = i
  <2>1. i = 0 /\ c = 1
    BY <1>5, <1>6, <1>10
  <2> QED
    BY <1>2, <2>1
<1>11. Dir(n, 0)[2].inode = 0
  BY <1>1, <1>3
<1>12. OnDisk(n)
  BY <1>7, <1>8, <1>9, <1>10, <1>11 DEF OnDisk
<1> QED
  BY <1>1, <1>3, <1>12 DEF Tree, InTree

-----------------------------------------------------------------------------
(* The steps of the calls                                                  *)

(* The programs leave /dev and the devices alone, and the table of open    *)
(* files has room for them.                                                *)
DevicesLeftAlone == Names \cap DevNames = {} /\ MaxOpenFiles >= 3

HasIo(m) == HasDevices(m) /\ DevicesFirst(m.open)

(* The programs never call rmdir, which leaves links to an inode it gives  *)
(* back: the parent's, when the name is missing, and the one in root_dir,  *)
(* which it does not read again.                                           *)
NoRmdir == "rmdir" \notin Calls

(* A call may lead to n.                                                   *)
StepsTo(n) ==
  /\ Bare(n) /\ Sound(n) /\ Current(n)
  /\ DevicesLeftAlone /\ HasIo(Now) => HasIo(n) /\ OneFile(Now, n)
  /\ NoRmdir /\ Tree(Now) => Tree(n)

LEMMA CallSteps ==
  ASSUME InOrder, NEW n, Kept(Now, n), NEW r, After(Now, n, r),
         DevicesLeftAlone /\ HasDevices(Now) => HasDevices(n),
         NoRmdir /\ Tree(Now) => Tree(n)
  PROVE  StepsTo(n)
BY DEF InOrder, Kept, After, StepsTo, HasIo

LEMMA RoomForCall ==
  ASSUME FilesAsMeant, Roomy(sb.blocks)
  PROVE  /\ Room(Now) >= MaxInodeBlocks /\ Room(Now) >= 2 * DirectoryBlocks
         /\ Room(Now) >= DirectoryBlocks
<1> DEFINE two == 2 * DirectoryBlocks
<1>1. Room(Now) >= Reserve
  BY NowFields DEF Roomy, Room, Free
<1>2. /\ MaxInodeBlocks \in Nat /\ DirectoryBlocks \in Nat
      /\ two \in Nat /\ two >= DirectoryBlocks
  BY DiskAssumption
<1>3. Room(Now) \in Nat /\ Reserve \in Nat
  BY FreeFacts, CallsAssumption
<1>4. Reserve >= MaxInodeBlocks /\ Reserve >= two
  BY DEF FilesAsMeant
<1> HIDE DEF two
<1>5. /\ Room(Now) >= MaxInodeBlocks /\ Room(Now) >= two /\ Room(Now) >= DirectoryBlocks
  BY <1>1, <1>2, <1>3, <1>4
<1> QED
  BY <1>5 DEF two

LEMMA CallRoom ==
  ASSUME FilesAsMeant, NEW name, Call(name)
  PROVE  /\ Room(Now) >= MaxInodeBlocks /\ Room(Now) >= 2 * DirectoryBlocks
         /\ Room(Now) >= DirectoryBlocks
BY RoomForCall DEF Call

LEMMA StackIsBlank ==
  ASSUME FilesAsMeant, NEW stack \in Stacks(Now)
  PROVE  stack = Blank
BY DEF FilesAsMeant, Stacks

(* What a program may ask for.                                             *)
LEMMA CallFacts ==
  ASSUME FilesAsMeant
  PROVE  /\ Modes \subseteq 0 .. 4
         /\ \A name \in Names : name \notin {".", ".."}
         /\ DevicesLeftAlone => \A name \in Names : name \notin DevNames \cup {".", ".."}
         /\ \A contents \in Contents : Len(contents) \in Nat
<1>1. Modes \subseteq 0 .. 4
  BY CallsAssumption DEF READ, WRITE, READ_WRITE, READ_GLOBAL, WRITE_GLOBAL
<1>2. \A contents \in Contents : Len(contents) \in Nat
  BY CallsAssumption, LenProperties
<1>3. \A name \in Names : name \notin {".", ".."}
  BY CallsAssumption
<1>4. DevicesLeftAlone => \A name \in Names : name \notin DevNames
  BY DEF DevicesLeftAlone
<1> QED
  BY <1>1, <1>2, <1>3, <1>4

LEMMA OpenSteps ==
  ASSUME FilesAsMeant, InOrder, Call("open"), NEW p \in Procs, NEW path \in Paths, NEW name \in Names,
         NEW flags \in Modes, NEW stack \in Stacks(Now)
  PROVE  StepsTo(SysOpen(Now, p, path, name, flags, stack))
<1> DEFINE n == SysOpen(Now, p, path, name, flags, stack)
<1>1. Plain(path) /\ flags \in 0 .. 4 /\ stack = Blank
  BY PathsArePlain, CallFacts, StackIsBlank
<1>2. Room(Now) >= DirectoryBlocks
  BY CallRoom
<1>3. Bare(Now) /\ Sound(Now)
  BY DEF InOrder
<1>4. Kept(Now, n)
  BY <1>3, SysOpenKept
<1>5. After(Now, n, DirectoryBlocks)
  BY <1>1, <1>2, <1>3, SysOpenAfter
<1>6. HasDevices(Now) => HasDevices(n)
  BY <1>1, <1>2, <1>3, SysOpenDevices
<1>7. Tree(Now) => Tree(n)
  BY <1>1, <1>2, <1>3, SysOpenTree
<1> HIDE DEF n
<1>8. StepsTo(n)
  BY <1>4, <1>5, <1>6, <1>7, CallSteps
<1> QED
  BY <1>8 DEF n

LEMMA CloseSteps ==
  ASSUME FilesAsMeant, InOrder, NEW p \in Procs, NEW fd
  PROVE  StepsTo(SysClose(Now, p, fd))
<1> DEFINE n == SysClose(Now, p, fd)
<1>1. Bare(Now) /\ Sound(Now)
  BY DEF InOrder
<1>2. Kept(Now, n)
  BY <1>1, SysCloseKept
<1>3. After(Now, n, 0)
  BY <1>1, SysCloseAfter
<1>4. HasDevices(Now) => HasDevices(n)
  BY <1>1, SysCloseDevices
<1>5. Tree(Now) => Tree(n)
  BY <1>1, SysCloseTree
<1> HIDE DEF n
<1>6. StepsTo(n)
  BY <1>2, <1>3, <1>4, <1>5, CallSteps
<1> QED
  BY <1>6 DEF n

LEMMA WriteSteps ==
  ASSUME FilesAsMeant, InOrder, Call("write"), NEW p, NEW fd, NEW contents \in Contents
  PROVE  StepsTo(SysWrite(Now, p, fd, contents))
<1> DEFINE n == SysWrite(Now, p, fd, contents)
<1>1. Len(contents) \in Nat /\ Room(Now) >= MaxInodeBlocks
  BY CallFacts, CallRoom
<1>2. Bare(Now) /\ Sound(Now)
  BY DEF InOrder
<1>3. Kept(Now, n)
  BY <1>1, <1>2, SysWriteKept
<1>4. After(Now, n, MaxInodeBlocks)
  BY <1>1, <1>2, SysWriteAfter
<1>5. HasDevices(Now) => HasDevices(n)
  BY <1>1, <1>2, SysWriteDevices
<1>6. Tree(Now) => Tree(n)
  BY <1>1, <1>2, SysWriteTree
<1> HIDE DEF n
<1>7. StepsTo(n)
  BY <1>3, <1>4, <1>5, <1>6, CallSteps
<1> QED
  BY <1>7 DEF n

LEMMA MkdirSteps ==
  ASSUME FilesAsMeant, InOrder, Call("mkdir"), NEW path \in Paths, NEW name, NEW stack \in Stacks(Now)
  PROVE  StepsTo(SysMkdir(Now, path, name, stack))
<1> DEFINE n == SysMkdir(Now, path, name, stack)
           r == 2 * DirectoryBlocks
<1>1. Plain(path) /\ stack = Blank /\ Room(Now) >= r
  BY PathsArePlain, StackIsBlank, CallRoom
<1>2. Bare(Now) /\ Sound(Now) /\ Ready(Now)
  BY DEF InOrder, Sound
<1>3. Kept(Now, n)
  BY <1>2, SysMkdirKept
<1>4. After(Now, n, r)
  <2>1. Leads(Now, n, r) /\ OneFile(Now, n) /\ Stayed(Now, n)
    BY <1>1, <1>2, SysMkdirLeads
  <2> QED
    BY <1>2, <2>1, StayedAfter
<1>5. HasDevices(Now) => HasDevices(n)
  BY <1>1, <1>2, SysMkdirDevices
<1>6. Tree(Now) => Tree(n)
  BY <1>1, <1>2, SysMkdirTree
<1> HIDE DEF n, r
<1>7. StepsTo(n)
  BY <1>3, <1>4, <1>5, <1>6, CallSteps
<1> QED
  BY <1>7 DEF n

LEMMA RmdirSteps ==
  ASSUME FilesAsMeant, InOrder, Call("rmdir"), NEW path \in Paths, NEW name \in Names,
         NEW stack \in Stacks(Now)
  PROVE  StepsTo(SysRmdir(Now, path, name, stack))
<1> DEFINE n == SysRmdir(Now, path, name, stack)
<1>1. Plain(path) /\ stack = Blank /\ Room(Now) >= DirectoryBlocks
  BY PathsArePlain, StackIsBlank, CallRoom
<1>2. Bare(Now) /\ Sound(Now)
  BY DEF InOrder
<1>3. Kept(Now, n)
  BY <1>2, SysRmdirKept
<1>4. After(Now, n, DirectoryBlocks)
  BY <1>1, <1>2, CallFacts, SysRmdirAfter
<1>5. DevicesLeftAlone /\ HasDevices(Now) => HasDevices(n)
  BY <1>1, <1>2, CallFacts, SysRmdirDevices
<1>6. ~NoRmdir
  BY DEF NoRmdir, Call
<1> HIDE DEF n
<1>7. StepsTo(n)
  BY <1>3, <1>4, <1>5, <1>6, CallSteps
<1> QED
  BY <1>7 DEF n

LEMMA RmSteps ==
  ASSUME FilesAsMeant, InOrder, Call("rm"), NEW path \in Paths, NEW name \in Names,
         NEW stack \in Stacks(Now)
  PROVE  StepsTo(SysRm(Now, path, name, stack))
<1> DEFINE n == SysRm(Now, path, name, stack)
<1>1. Plain(path) /\ stack = Blank /\ Room(Now) >= DirectoryBlocks
  BY PathsArePlain, StackIsBlank, CallRoom
<1>2. Bare(Now) /\ Sound(Now)
  BY DEF InOrder
<1>3. Kept(Now, n)
  BY <1>2, SysRmKept
<1>4. After(Now, n, DirectoryBlocks)
  BY <1>1, <1>2, CallFacts, SysRmAfter
<1>5. DevicesLeftAlone /\ HasDevices(Now) => HasDevices(n)
  BY <1>1, <1>2, CallFacts, SysRmDevices
<1>6. Tree(Now) => Tree(n)
  BY <1>1, <1>2, CallFacts, SysRmTree
<1> HIDE DEF n
<1>7. StepsTo(n)
  BY <1>3, <1>4, <1>5, <1>6, CallSteps
<1> QED
  BY <1>7 DEF n

LEMMA UnmountSteps ==
  ASSUME FilesAsMeant, InOrder
  PROVE  StepsTo(SysUnmount(Now))
<1> DEFINE n == SysUnmount(Now)
<1>1. Bare(Now) /\ Sound(Now)
  BY DEF InOrder
<1>2. Kept(Now, n)
  BY <1>1, SysUnmountKept DEF Kept
<1>3. After(Now, n, 0)
  BY <1>1, SysUnmountAfter
<1>4. HasDevices(Now) => HasDevices(n)
  BY <1>1, SysUnmountDevices
<1>5. Tree(Now) => Tree(n)
  BY <1>1, SysUnmountTree
<1> HIDE DEF n
<1>6. StepsTo(n)
  BY <1>2, <1>3, <1>4, <1>5, CallSteps
<1> QED
  BY <1>6 DEF n

(* mount, of the machine as it is or, after a restart, with new processes. *)
LEMMA MountSteps ==
  ASSUME FilesAsMeant, InOrder, Room(Now) >= 2 * DirectoryBlocks, NEW h, Lists(h)
  PROVE  StepsTo(SysMount([Now EXCEPT !.held = h]))
<1> DEFINE m == [Now EXCEPT !.held = h]
           n == SysMount(m)
<1>1. Sound(Now) /\ Shape(Now) /\ Current(Now) /\ IsLinks(Now.root, 0)
  BY DEF InOrder, Sound, Ready, Good, Whole, Formed, Rooted
<1>2. HeldChanged(Now, m, h)
  BY <1>1, HeldChange
<1> HIDE DEF m
<1>3. SameDisk(Now, m) /\ m.root = Now.root /\ m.held = h
  BY <1>2 DEF HeldChanged
<1>4. Ready(m) /\ Shape(m)
  BY <1>1, <1>3, SameDiskAfter DEF Sound, SameDisk
<1>5. m.disk[0] = [sb |-> m.sb] /\ Room(m) >= 2 * DirectoryBlocks
  BY <1>1, <1>3, SameDiskFacts DEF SameDisk, Current
<1>6. Sound(n)
  BY <1>3, <1>4, <1>5, SysMountSound
<1>7. Bare(n) /\ Current(n)
  BY <1>4, SysMountKept
<1>8. ASSUME DevicesLeftAlone, HasIo(Now)
      PROVE  HasIo(n) /\ OneFile(Now, n)
  <2>1. HasDevices(m)
    BY <1>3, <1>8, SameDevices DEF HasIo, HasDevices
  <2>2. Remounted(m, n)
    BY <1>3, <1>4, <1>5, <1>8, <2>1, SysMountDevices DEF DevicesLeftAlone
  <2> HIDE DEF n
  <2>3. \A i \in InodeId : SameAt(Now, n, i)
    <3>1. \A i : InodeAt(m, i) = InodeAt(Now, i)
      BY <1>3, SameDiskFacts
    <3> QED
      BY <1>3, <2>2, <3>1 DEF Remounted, SameAt, SameDisk, Used, BlockOf
  <2> QED
    BY <1>1, <2>2, <2>3, UnchangedFiles DEF Remounted, HasIo, Sound
<1>9. ASSUME Tree(Now)
      PROVE  Tree(n)
  <2>1. OnDisk(m)
    BY <1>3, <1>9, SameTree DEF Tree
  <2> QED
    BY <1>3, <1>4, <1>5, <2>1, SysMountTree
<1> HIDE DEF n
<1>10. StepsTo(n)
  BY <1>6, <1>7, <1>8, <1>9 DEF StepsTo
<1> QED
  BY <1>10 DEF n, m

LEMMA ExitSteps ==
  ASSUME FilesAsMeant, InOrder, NEW p \in Procs
  PROVE  StepsTo([Now EXCEPT !.held = [Now.held EXCEPT ![p] = <<>>]])
<1> DEFINE h == [Now.held EXCEPT ![p] = <<>>]
           n == [Now EXCEPT !.held = h]
<1>1. Bare(Now) /\ Sound(Now) /\ Shape(Now) /\ IsLinks(Now.root, 0) /\ Lists(Now.held)
  BY DEF InOrder, Sound, Ready, Good, Whole, Formed, Rooted
<1>2. Lists(h)
  BY <1>1, NoListIsLong, OneList
<1> HIDE DEF h
<1>3. HeldChanged(Now, n, h)
  BY <1>1, HeldChange
<1> HIDE DEF n
<1>4. SameDisk(Now, n) /\ n.root = Now.root /\ n.open = Now.open /\ n.held = h
  BY <1>3 DEF HeldChanged
<1>5. After(Now, n, 0)
  BY <1>1, <1>2, <1>4, TablesAfter DEF Sound
<1>6. Kept(Now, n)
  BY <1>1, <1>4 DEF Kept, Bare, SameDisk, Current
<1>7. HasDevices(Now) => HasDevices(n)
  BY <1>4, SameDevices DEF HasDevices
<1>8. Tree(Now) => Tree(n)
  BY <1>4, SameRootTree
<1>9. StepsTo(n)
  BY <1>5, <1>6, <1>7, <1>8, CallSteps
<1> QED
  BY <1>9 DEF n, h

(* Every call leaves the disk in order and, if the programs leave them     *)
(* alone, the devices where they are; and it changes one file at most.     *)
(* Without rmdir the directories stay a tree.                              *)
IoKept == DevicesLeftAlone /\ HasIo(Now) => HasIo(Now)' /\ OneFile(Now, Now')

TreeKept == NoRmdir /\ Tree(Now) => Tree(Now)'

LEMMA BecomesInOrder ==
  ASSUME FilesAsMeant, NEW n, StepsTo(n), Becomes(n), mounted' \in BOOLEAN
  PROVE  InOrder' /\ IoKept /\ TreeKept
<1>1. Bare(n) /\ Sound(n) /\ Current(n)
  BY DEF StepsTo
<1>2. Bare(Now)'
  BY <1>1, BecomesSafe
<1>3. Sound(Now)' /\ Current(Now)' /\ SameDisk(n, Now')
  BY <1>1, BecomesSound
<1>4. InOrder'
  BY <1>2, <1>3 DEF InOrder
<1>5. ASSUME DevicesLeftAlone, HasIo(Now)
      PROVE  HasIo(Now)' /\ OneFile(Now, Now')
  <2>1. HasDevices(n) /\ DevicesFirst(n.open) /\ OneFile(Now, n)
    BY <1>5 DEF StepsTo, HasIo
  <2>2. Now'.root = n.root /\ Now'.open = n.open
    BY DEF Becomes, Now
  <2>3. DirHas(Now'.root, 0)
    BY <2>1, <2>2 DEF HasDevices
  <2>4. HasDevices(Now')
    BY <1>3, <2>1, <2>3, SameDevices
  <2>5. OneFile(Now, Now')
    BY <1>3, <2>1, ButForThen DEF OneFile
  <2> QED
    BY <2>1, <2>2, <2>4, <2>5 DEF HasIo
<1>6. ASSUME NoRmdir, Tree(Now)
      PROVE  Tree(Now')
  <2>1. Tree(n) /\ Now'.root = n.root
    BY <1>6 DEF StepsTo, Becomes, Now
  <2> QED
    BY <1>3, <2>1, SameRootTree
<1> QED
  BY <1>4, <1>5, <1>6 DEF IoKept, TreeKept

LEMMA EndsInOrder ==
  ASSUME FilesAsMeant, InOrder, NEW n, StepsTo(n), Ends(n)
  PROVE  InOrder' /\ IoKept /\ TreeKept
<1>1. Becomes(n) /\ mounted' \in BOOLEAN
  BY DEF FilesAsMeant, Ends, InOrder
<1> QED
  BY <1>1, BecomesInOrder

LEMMA NextInOrder ==
  ASSUME FilesAsMeant, InOrder, [Next]_vars
  PROVE  InOrder' /\ IoKept /\ TreeKept
<1>1. CASE Open
  BY <1>1, OpenSteps, EndsInOrder DEF Open
<1>2. CASE Close
  BY <1>2, CloseSteps, EndsInOrder DEF Close
<1>3. CASE Write
  BY <1>3, WriteSteps, EndsInOrder DEF Write
<1>4. CASE Mkdir
  BY <1>4, MkdirSteps, EndsInOrder DEF Mkdir
<1>5. CASE Rmdir
  BY <1>5, RmdirSteps, EndsInOrder DEF Rmdir
<1>6. CASE Rm
  BY <1>6, RmSteps, EndsInOrder DEF Rm
<1>7. CASE Mount
  <2>1. Room(Now) >= 2 * DirectoryBlocks /\ Ends(SysMount(Now))
    BY <1>7, CallRoom DEF Mount
  <2>2. Lists(Now.held)
    BY DEF InOrder, Sound
  <2>3. [Now EXCEPT !.held = Now.held] = Now
    BY DEF Now
  <2>4. StepsTo(SysMount(Now))
    BY <2>1, <2>2, <2>3, MountSteps
  <2> QED
    BY <2>1, <2>4, EndsInOrder
<1>8. CASE Unmount
  <2>1. Becomes(SysUnmount(Now)) /\ mounted' \in BOOLEAN
    BY <1>8 DEF Unmount
  <2> QED
    BY <2>1, UnmountSteps, BecomesInOrder
<1>9. CASE Exit
  <2>1. PICK p \in Procs : /\ held' = [held EXCEPT ![p] = <<>>]
                           /\ UNCHANGED <<disk, sb, root, open, mounted>>
    BY <1>9 DEF Exit
  <2> DEFINE h == [Now.held EXCEPT ![p] = <<>>]
             n == [Now EXCEPT !.held = h]
  <2>2. StepsTo(n)
    BY ExitSteps
  <2>3. h = held'
    BY <2>1, NowFields
  <2> HIDE DEF h
  <2>4. /\ n.disk = disk /\ n.sb = sb /\ n.root = root /\ n.open = open
        /\ n.held = h
    BY NowFields DEF Fields
  <2>5. Becomes(n) /\ mounted' \in BOOLEAN
    BY <2>1, <2>3, <2>4 DEF Becomes, InOrder
  <2> HIDE DEF n
  <2> QED
    BY <2>2, <2>5, BecomesInOrder
<1>10. CASE Restart
  <2> DEFINE h == [p \in Procs |-> <<>>]
             n == SysMount([Now EXCEPT !.held = h])
  <2>1. Becomes(n) /\ mounted' \in BOOLEAN
    BY <1>10 DEF Restart
  <2>2. Roomy(sb.blocks)
    <3>1. disk[0] = [sb |-> sb]
      BY NowCurrent DEF InOrder
    <3>2. "sb" \in DOMAIN disk[0] /\ disk[0].sb = sb
      BY <3>1
    <3> QED
      BY <1>10, <3>2 DEF Restart
  <2>3. Lists(h)
    BY NoListIsLong DEF Lists
  <2> HIDE DEF h
  <2>4. StepsTo(n)
    BY <2>2, <2>3, RoomForCall, MountSteps
  <2> HIDE DEF n
  <2> QED
    BY <2>1, <2>4, BecomesInOrder
<1>11. CASE UNCHANGED vars
  <2>1. Now' = Now /\ mounted' = mounted
    BY <1>11 DEF vars, Now
  <2>2. OneFile(Now, Now)
    BY UnchangedAfter DEF InOrder, After
  <2> QED
    BY <2>1, <2>2 DEF InOrder, IoKept, TreeKept
<1> QED
  BY <1>1, <1>2, <1>3, <1>4, <1>5, <1>6, <1>7, <1>8, <1>9, <1>10, <1>11 DEF Next

LEMMA NewDiskInOrder ==
  ASSUME FilesAsMeant
  PROVE  /\ Sound(NewDisk) /\ Current(NewDisk) /\ Tree(NewDisk)
         /\ MaxOpenFiles >= 3 => HasIo(NewDisk) /\ \A i \in InodeId : ~IsFile(NewDisk, i)
<1> DEFINE none == [p \in Procs |-> <<>>]
           m == [disk |-> [a \in Addr |-> [zeros |-> TRUE]], sb |-> NoSuperblock,
                 root |-> <<>>, open |-> <<>>, held |-> none, seen |-> <<>>]
<1>1. NewDisk = SysMount(m)
  BY DEF NewDisk
<1>2. Lists(none)
  BY NoListIsLong DEF Lists
<1> HIDE DEF none
<1>3. Shape(m) /\ m.held = none
  <2>1. Images(<<>>)
    BY EmptyIsSeq DEF Images
  <2> QED
    BY <2>1 DEF Shape, Fields
<1>4. "sb" \notin DOMAIN m.disk[0]
  BY ZeroIsAddr
<1> HIDE DEF m
<1>5. PICK n : Fresh(n) /\ SysMount(m) = WriteSuperblock(OpenIoDevices(n))
  BY <1>2, <1>3, <1>4, NewDiskMade
<1>6. Sound(OpenIoDevices(n))
  BY <1>5, IoDevicesSound DEF Fresh
<1>7. Sound(SysMount(m)) /\ Tree(SysMount(m))
  <2>1. Tree(OpenIoDevices(n))
    BY <1>5, FreshTree, IoDevicesTree DEF Fresh
  <2> QED
    BY <1>5, <1>6, <2>1, SuperblockAfter, SuperblockTree DEF After
<1>8. ASSUME MaxOpenFiles >= 3
      PROVE  HasIo(NewDisk) /\ \A i \in InodeId : ~IsFile(NewDisk, i)
  <2>1. Remounted(n, NewDisk)
    BY <1>1, <1>5, <1>8, MountDevices DEF Fresh
  <2> QED
    BY <1>5, <2>1 DEF Remounted, HasIo, Fresh, SameAt, IsFile
<1> QED
  BY <1>1, <1>7, <1>8, NewDiskSafe

LEMMA InitInOrder ==
  ASSUME FilesAsMeant, Init
  PROVE  /\ InOrder /\ Tree(Now)
         /\ DevicesLeftAlone => HasIo(Now) /\ \A i \in InodeId : ~IsFile(Now, i)
<1>1. /\ Now.disk = NewDisk.disk /\ Now.sb = NewDisk.sb /\ Now.root = NewDisk.root
      /\ Now.open = NewDisk.open /\ Now.held = NewDisk.held /\ mounted \in BOOLEAN
  BY NowFields DEF Init
<1>2. Sound(Now) /\ Current(Now) /\ SameDisk(NewDisk, Now)
  BY <1>1, NewDiskInOrder, Forgotten, NowFields
<1>3. Bare(Now)
  BY InitSafe DEF Safe
<1>4. ASSUME DevicesLeftAlone
      PROVE  HasIo(Now) /\ \A i \in InodeId : ~IsFile(Now, i)
  <2>1. HasIo(NewDisk) /\ \A i \in InodeId : ~IsFile(NewDisk, i)
    BY <1>4, NewDiskInOrder DEF DevicesLeftAlone
  <2>2. HasDevices(Now)
    BY <1>1, <1>2, <2>1, SameDevices DEF HasIo, HasDevices
  <2>3. \A i : InodeAt(Now, i) = InodeAt(NewDisk, i)
    BY <1>2, SameDiskFacts
  <2> QED
    BY <1>1, <2>1, <2>2, <2>3 DEF HasIo, IsFile
<1>5. Tree(Now)
  BY <1>1, <1>2, NewDiskInOrder, SameRootTree
<1> QED
  BY <1>1, <1>2, <1>3, <1>4, <1>5 DEF InOrder

LEMMA AlwaysInOrder ==
  ASSUME FilesAsMeant
  PROVE  Spec => []InOrder
<1>1. Init => InOrder
  BY InitInOrder
<1>2. InOrder /\ [Next]_vars => InOrder'
  BY NextInOrder
<1> QED
  BY <1>1, <1>2, PTL DEF Spec

(* The devices are there, besides, when the programs leave them alone.     *)
LEMMA AlwaysIo ==
  ASSUME FilesAsMeant, DevicesLeftAlone
  PROVE  Spec => [](InOrder /\ HasIo(Now))
<1>1. Init => InOrder /\ HasIo(Now)
  BY InitInOrder
<1>2. InOrder /\ HasIo(Now) /\ [Next]_vars => (InOrder /\ HasIo(Now))'
  BY NextInOrder DEF IoKept
<1> QED
  BY <1>1, <1>2, PTL DEF Spec

LEMMA AlwaysTree ==
  ASSUME FilesAsMeant, NoRmdir
  PROVE  Spec => [](InOrder /\ Tree(Now))
<1>1. Init => InOrder /\ Tree(Now)
  BY InitInOrder
<1>2. InOrder /\ Tree(Now) /\ [Next]_vars => (InOrder /\ Tree(Now))'
  BY NextInOrder DEF TreeKept
<1> QED
  BY <1>1, <1>2, PTL DEF Spec

-----------------------------------------------------------------------------
(* What the calls promise                                                  *)

(* Tables and lists stay within their sizes and name inodes of the disk.   *)
THEOREM FileTypes ==
  ASSUME FilesAsMeant
  PROVE  Spec => []TypeOK
<1>1. ASSUME InOrder
      PROVE  TypeOK
  <2>1. Whole(Now) /\ IsLinks(root, 0) /\ Table(open) /\ Lists(held)
    BY <1>1, NowFields DEF InOrder, Sound, Ready, Good, Rooted
  <2>2. DOMAIN disk = Addr /\ sb.inodes \subseteq InodeId /\ sb.blocks \subseteq Addr
    BY <2>1, NowFields DEF Whole, Formed, Shape
  <2>3. \A i \in InodeId : /\ InodeAt(Now, i).id = i
                           /\ InodeAt(Now, i).allocated \in 0 .. MaxInodeBlocks
    BY <2>1 DEF Whole, IsInode
  <2>4. Len(root) < MaxFiles /\ Len(open) <= MaxOpenFiles
    BY <2>1 DEF IsLinks, Table
  <2>5. Range(open) \subseteq [id : FdId, flags : 0 .. 4, inode : InodeId \cup {-1}]
    <3>1. DOMAIN open = 1 .. Len(open)
      BY <2>1, LenOf DEF Table
    <3>2. \A k \in DOMAIN open : open[k] \in OpenFd
      BY <2>1, <3>1 DEF Table
    <3> QED
      BY <3>2 DEF Range, OpenFd
  <2>6. \A p \in Procs : Len(held[p]) <= MaxOpenFiles
    BY <2>1 DEF Lists, List
  <2>7. mounted \in BOOLEAN
    BY <1>1 DEF InOrder
  <2> QED
    BY <2>2, <2>3, <2>4, <2>5, <2>6, <2>7 DEF TypeOK
<1> QED
  BY <1>1, AlwaysInOrder, PTL

(* No two files or directories ever share a block, and none has a block    *)
(* that the next one could be given: whatever the calls create, overwrite  *)
(* and remove, in any order and over any number of restarts.               *)
THEOREM BlocksAreInOrder ==
  ASSUME FilesAsMeant
  PROVE  Spec => []BlocksInOrder
<1>1. ASSUME InOrder
      PROVE  BlocksInOrder
  <2> DEFINE used == UNION {BlocksOf(i) : i \in InUse}
  <2>1. Owned(Now) /\ Now.sb = sb
    BY <1>1, NowFields DEF InOrder, Sound, Ready, Good
  <2>2. ASSUME NEW b \in used
        PROVE  /\ b[1] \in InodeId /\ b[2] \in Used(Now, b[1]) /\ b = <<b[1], b[2]>>
               /\ BlockAt(b) = BlockOf(Now, b[1], b[2])
    BY DEF BlocksOf, InUse, Used, BlockAt, BlockOf
  <2> HIDE DEF used
  <2>3. ASSUME NEW b \in used
        PROVE  BlockAt(b) \in DataAddr /\ GetBit(sb.blocks, BlockAt(b))
    <3>1. BlockAt(b) \in DataAddr /\ BlockAt(b) \in sb.blocks
      BY <2>1, <2>2 DEF Owned
    <3> QED
      BY <3>1 DEF GetBit
  <2>4. ASSUME NEW b \in used, NEW c \in used, BlockAt(b) = BlockAt(c)
        PROVE  b = c
    <3>1. b[1] = c[1] /\ b[2] = c[2]
      BY <2>1, <2>2, <2>4 DEF Owned
    <3> QED
      BY <2>2, <3>1
  <2> QED
    BY <2>3, <2>4 DEF BlocksInOrder, used
<1> QED
  BY <1>1, AlwaysInOrder, PTL

LEMMA DirsAreFolders ==
  ASSUME FilesAsMeant, Ready(Now), NEW i \in DirsOfTree
  PROVE  i \in InodeId /\ Folder(Now, i)
<1> DEFINE N == InodeNum - 1
           Folders == {k \in InodeId : Folder(Now, k)}
<1>1. InodeNum \in Nat \ {0} /\ N \in Nat
  BY InodeNumFacts
<1>2. PICK w : /\ w[0] = {0} /\ \A k \in 1 .. N : w[k] = Deeper(Now, w[k - 1])
               /\ DirsOfTree = w[N]
  BY <1>1, TreeRuns
<1>3. 0 \in Folders
  BY Layout DEF Ready, Rooted, Folder
<1>4. ASSUME NEW dirs, dirs \subseteq Folders
      PROVE  Deeper(Now, dirs) \subseteq Folders
  <2>1. ASSUME NEW d \in dirs, NEW l \in Range(ReadDir(Now, InodeAt(Now, d)))
        PROVE  l.inode \in InodeId
    <3>1. IsLinks(ReadDir(Now, InodeAt(Now, d)), d)
      BY <1>4, BelowIds DEF HasLinks
    <3> DEFINE s == ReadDir(Now, InodeAt(Now, d))
    <3>2. DOMAIN s = 1 .. Len(s)
      BY <3>1, LenOf DEF IsLinks
    <3>3. PICK k \in 1 .. Len(s) : l = s[k]
      BY <3>2 DEF Range
    <3> QED
      BY <3>1, <3>3 DEF IsLinks
  <2> QED
    BY <1>4, <2>1 DEF Deeper, Folder
<1> DEFINE S == {k \in 0 .. N : w[k] \subseteq Folders}
<1>5. 0 \in S
  BY <1>1, <1>2, <1>3
<1>6. ASSUME NEW k \in 0 .. N - 1, k \in S
      PROVE  k + 1 \in S
  <2>1. k + 1 \in 1 .. N /\ (k + 1) - 1 = k
    BY <1>1
  <2>2. w[k + 1] = Deeper(Now, w[k])
    BY <1>2, <2>1
  <2> QED
    BY <1>4, <1>6, <2>1, <2>2
<1> HIDE DEF S
<1>7. N \in S
  BY <1>1, <1>5, <1>6, UpTo
<1> QED
  BY <1>2, <1>7 DEF S

(* From the root every directory can be read and begins with a link to     *)
(* itself, and whatever is listed in one is in use and listed nowhere      *)
(* else: a mount finds a tree, after any calls but rmdir and any restarts. *)
THEOREM TreeStaysInOrder ==
  ASSUME FilesAsMeant, NoRmdir
  PROVE  Spec => []TreeInOrder
<1>1. ASSUME InOrder, Tree(Now)
      PROVE  TreeInOrder
  <2> DEFINE links == UNION {{<<i, k>> : k \in 3 .. Len(ReadDir(Now, InodeAt(Now, i)))} : i \in DirsOfTree}
             to(l) == ReadDir(Now, InodeAt(Now, l[1]))[l[2]].inode
  <2>1. Ready(Now) /\ OnDisk(Now)
    BY <1>1 DEF InOrder, Sound, Tree
  <2>2. \A i \in DirsOfTree : i \in InodeId /\ Folder(Now, i)
    BY <2>1, DirsAreFolders
  <2>3. ASSUME NEW i \in DirsOfTree
        PROVE  /\ HoldsDirectory(Now, InodeAt(Now, i))
               /\ ReadDir(Now, InodeAt(Now, i))[1] = Link(".", i)
    BY <2>1, <2>2, BelowIds DEF HasLinks, IsLinks
  <2>4. ASSUME NEW l \in links
        PROVE  /\ l = <<l[1], l[2]>> /\ l[1] \in InodeId /\ Folder(Now, l[1])
               /\ l[2] \in 3 .. Len(Dir(Now, l[1])) /\ to(l) = Dir(Now, l[1])[l[2]].inode
    BY <2>2 DEF Dir
  <2> HIDE DEF links, to
  <2>5. ASSUME NEW l \in links
        PROVE  to(l) \in Below(Dir(Now, l[1]))
    BY <2>4 DEF Below
  <2>6. ASSUME NEW l \in links
        PROVE  to(l) \in InUse
    <3>1. to(l) \in InodeId /\ There(Now, to(l))
      BY <2>1, <2>4, <2>5, BelowIds DEF OnDisk
    <3> QED
      BY <3>1 DEF InUse, There
  <2>7. ASSUME NEW l \in links, NEW k \in links, to(k) = to(l)
        PROVE  k = l
    <3>1. k[1] = l[1]
      BY <2>1, <2>4, <2>5, <2>7 DEF OnDisk
    <3>2. k[2] = l[2]
      BY <2>1, <2>4, <2>7, <3>1 DEF OnDisk, Hangs
    <3> QED
      BY <2>4, <3>1, <3>2
  <2> QED
    BY <2>3, <2>6, <2>7 DEF TreeInOrder, links, to
<1> QED
  BY <1>1, AlwaysTree, PTL

LEMMA SeqIsItsBlocks ==
  ASSUME NEW s, IsSeq(s)
  PROVE  s = [k \in 1 .. Len(s) |-> s[k]]
<1>1. DOMAIN s = 1 .. Len(s)
  BY LenOf
<1>2. s = [k \in DOMAIN s |-> s[k]]
  BY DEF IsSeq
<1> QED
  BY <1>1, <1>2

(* What a read returns after the write of contents to inode i.             *)
LEMMA WrittenIsRead ==
  ASSUME NEW m, NEW p, NEW fd, NEW contents, IsSeq(contents), Len(contents) <= MaxInodeBlocks,
         NEW i \in InodeId, i = FdIdToFd(m.open, fd).inode, InodeAt(m, i).type = File,
         \A k \in 1 .. Len(contents) : m.disk[InodeAt(m, i).blocks[k]] = contents[k],
         ProcessHasFilePermission(m.open, m.held[p], fd, READ)
  PROVE  SysRead(m, p, fd, Len(contents)) = contents
<1> DEFINE n == Len(contents)
           one == -1
<1>1. n \in Nat /\ MaxInodeBlocks \in Nat
  BY LenOf, DiskAssumption
<1>2. i # one
  BY InodeNumFacts DEF InodeId
<1>3. SysRead(m, p, fd, n) = [k \in 1 .. n |-> m.disk[InodeAt(m, i).blocks[k]]]
  <2> HIDE DEF n, one
  <2>1. ~(n > MaxInodeBlocks)
    BY <1>1 DEF n
  <2> QED
    BY <1>2, <2>1 DEF SysRead, one
<1>4. [k \in 1 .. n |-> m.disk[InodeAt(m, i).blocks[k]]] = [k \in 1 .. n |-> contents[k]]
  OBVIOUS
<1> QED
  BY <1>3, <1>4, SeqIsItsBlocks

(* What was written is what is read.                                       *)
THEOREM WritesAreReadBack ==
  ASSUME FilesAsMeant
  PROVE  Spec => ReadsBack
<1>1. ASSUME InOrder, NEW p \in Procs, NEW fd \in FdId, NEW contents \in Contents,
             Call("write"), ProcessHasFilePermission(open, held[p], fd, READ),
             disk' # disk, Becomes(SysWrite(Now, p, fd, contents))
      PROVE  SysRead(Now, p, fd, Len(contents))' = contents
  <2> DEFINE n == SysWrite(Now, p, fd, contents)
             next == [disk |-> disk', sb |-> sb', root |-> root', open |-> open', held |-> held',
                      seen |-> <<>>]
  <2>1. n # Now
    BY <1>1, NowFields DEF Becomes
  <2>2. Sound(Now) /\ Room(Now) >= MaxInodeBlocks /\ Len(contents) \in Nat
    BY <1>1, CallRoom, CallFacts DEF InOrder
  <2>3. PICK i \in InodeId : /\ Len(contents) <= MaxInodeBlocks
                             /\ i = FdIdToFd(Now.open, fd).inode
                             /\ InodeAt(Now, i).type = File
                             /\ Rewrote(Now, n, i, contents)
    BY <2>1, <2>2, SysWriteWrites
  <2> HIDE DEF n
  <2>4. /\ n.open = open /\ n.held = held /\ InodeAt(n, i).type = File
        /\ \A k \in 1 .. Len(contents) : n.disk[InodeAt(n, i).blocks[k]] = contents[k]
    BY <2>3, NowFields DEF Rewrote, Same
  <2>5. next.disk = n.disk /\ next.open = open /\ next.held = held
    BY <1>1, <2>4 DEF Becomes, n
  <2>6. Now' = next
    BY DEF Now
  <2> HIDE DEF next
  <2>7. InodeAt(next, i) = InodeAt(n, i)
    BY <2>5 DEF InodeAt
  <2>8. IsSeq(contents)
    BY CallsAssumption, ASequence
  <2>9. SysRead(next, p, fd, Len(contents)) = contents
    BY <1>1, <2>3, <2>4, <2>5, <2>7, <2>8, NowFields, WrittenIsRead
  <2> QED
    BY <2>6, <2>9
<1>2. InOrder /\ [Next]_vars =>
        [\A p \in Procs, fd \in FdId, contents \in Contents :
           /\ Call("write")
           /\ ProcessHasFilePermission(open, held[p], fd, READ)
           /\ disk' # disk /\ Becomes(SysWrite(Now, p, fd, contents))
           => SysRead(Now, p, fd, Len(contents))' = contents]_vars
  BY <1>1
<1> QED
  BY <1>2, AlwaysInOrder, PTL DEF Spec, ReadsBack

(* The descriptors 0, 1 and 2 are the devices, as libc and the programs    *)
(* have it, as long as no program renames or removes them.                 *)
THEOREM DevicesAreThere ==
  ASSUME FilesAsMeant, DevicesLeftAlone
  PROVE  Spec => []DevicesStayPut
<1>1. ASSUME HasIo(Now), NEW fd \in 0 .. 2
      PROVE  /\ IsOpen(open, fd)
             /\ FdIdToFd(open, fd) = Fd(fd, IF fd = 0 THEN READ_GLOBAL ELSE WRITE_GLOBAL, fd + 2)
  <2>1. DevicesFirst(open)
    BY <1>1, NowFields DEF HasIo
  <2>2. /\ Len(open) \in Nat /\ Len(open) >= 3 /\ \A f \in 0 .. 2 : open[f + 1] = DeviceFd(f)
        /\ \A k \in 1 .. Len(open) : k > 3 => open[k].id \in Nat /\ open[k].id >= 3
    BY <2>1, LenOf DEF DevicesFirst
  <2>3. fd + 1 \in FdsOf(open, fd)
    BY <2>2 DEF FdsOf, DeviceFd, Fd
  <2>4. ASSUME NEW k \in FdsOf(open, fd)
        PROVE  k = fd + 1
    <3>1. k \in 1 .. Len(open) /\ open[k].id = fd
      BY DEF FdsOf
    <3>2. ~(k > 3)
      BY <2>2, <3>1
    <3>3. k - 1 \in 0 .. 2 /\ (k - 1) + 1 = k
      BY <2>2, <3>1, <3>2
    <3>4. open[(k - 1) + 1] = DeviceFd(k - 1)
      BY <2>2, <3>3
    <3>5. open[k].id = k - 1
      BY <3>3, <3>4 DEF DeviceFd, Fd
    <3> QED
      BY <3>1, <3>3, <3>5
  <2>5. FdsOf(open, fd) \subseteq Nat
    BY DEF FdsOf
  <2>6. Min(FdsOf(open, fd)) \in FdsOf(open, fd)
    BY <2>3, <2>5, MinOfSet
  <2>7. Min(FdsOf(open, fd)) = fd + 1
    BY <2>4, <2>6
  <2>8. FdIdToFd(open, fd) = DeviceFd(fd)
    BY <2>2, <2>7 DEF FdIdToFd
  <2> QED
    BY <2>3, <2>8 DEF IsOpen, DeviceFd
<1>2. InOrder /\ HasIo(Now) => DevicesStayPut
  BY <1>1 DEF DevicesStayPut
<1> QED
  BY <1>2, AlwaysIo, PTL

-----------------------------------------------------------------------------
(* What ls lists                                                           *)

(* A folder's ".." is one, too, when a path led to it.                     *)
LEMMA EntryIsThere ==
  ASSUME NEW m, Ready(m), OnDisk(m), NEW i \in InodeId, Folder(m, i),
         Dir(m, i)[2].inode \in InodeId, Folder(m, Dir(m, i)[2].inode),
         NEW name, LinksTo(Dir(m, i), name) # {}
  PROVE  DirectoryLookup(Dir(m, i), name) \in InodeId /\ There(m, DirectoryLookup(Dir(m, i), name))
<1> DEFINE d == Dir(m, i)
           k == Min(LinksTo(d, name))
<1>1. IsLinks(d, i) /\ Below(d) \subseteq InodeId /\ \A c \in Below(d) : There(m, c)
  BY BelowIds DEF HasLinks, Dir, OnDisk
<1>2. Len(d) \in Nat /\ d[1].inode = i
  BY <1>1, LenOf DEF IsLinks, Link
<1>3. d[2].inode \in InodeId /\ Folder(m, d[2].inode)
  OBVIOUS
<1>4. DirectoryLookup(d, name) = d[k].inode
  BY DEF DirectoryLookup
<1>5. k \in 1 .. Len(d)
  BY <1>2, LinksToFacts
<1>6. SUFFICES d[k].inode \in InodeId /\ There(m, d[k].inode)
  BY <1>4
<1> HIDE DEF d, k
<1>7. CASE k \in {1, 2}
  <2>1. \A c \in InodeId : Folder(m, c) => There(m, c)
    BY DEF Folder, There, IsDir, Directory, Unallocated
  <2>2. d[k].inode = i \/ d[k].inode = d[2].inode
    BY <1>2, <1>7
  <2> QED
    BY <1>3, <2>1, <2>2
<1>8. CASE k \in 3 .. Len(d)
  BY <1>1, <1>8 DEF Below
<1>9. k = 1 \/ k = 2 \/ k \in 3 .. Len(d)
  BY <1>2, <1>5
<1> QED
  BY <1>7, <1>8, <1>9

(* The directory a path leads to, and where a further name leads.          *)
LeadsTo(m, path, id) ==
  /\ id \in InodeId /\ Folder(m, id)
  /\ Dir(m, id)[2].inode \in InodeId /\ Folder(m, Dir(m, id)[2].inode)
  /\ \A name : PathToInodeId(m, m.root, Append(path, name), Blank) = DirectoryLookup(Dir(m, id), name)

LEMMA RootLeads ==
  ASSUME FilesAsMeant, NEW m, Ready(m), Tree(m), m.root = Dir(m, 0)
  PROVE  PathToInodeId(m, m.root, <<>>, Blank) = 0 /\ LeadsTo(m, <<>>, 0)
<1> DEFINE dot == "."
           zero == 0
           one == 1
           d == m.root
<1>1. zero \in InodeId /\ Folder(m, zero) /\ IsLinks(d, zero) /\ Dir(m, zero)[2].inode = zero
  BY Layout DEF Ready, Rooted, Folder, Tree, OnDisk
<1>2. d = Dir(m, zero)
  OBVIOUS
<1>3. d[one].name = dot /\ d[one].inode = zero /\ Len(d) \in Nat /\ one \in 1 .. Len(d)
  BY <1>1, LenOf DEF IsLinks, Link
<1> HIDE DEF zero, d
<1>4. DirectoryLookup(d, dot) = zero
  <2>1. FoundAt(d, dot, one)
    BY <1>3 DEF FoundAt
  <2> HIDE DEF one, dot
  <2> QED
    BY <1>3, <2>1, LookupAt
<1>5. PathToInodeId(m, d, <<>>, Blank) = PathToInodeId(m, d, <<dot>>, Blank)
  BY DEF PathToInodeId
<1>6. PathToInodeId(m, d, <<>>, Blank) = zero
  BY <1>4, <1>5, NameFound
<1>7. \A name : PathToInodeId(m, d, Append(<<>>, name), Blank) = DirectoryLookup(d, name)
  <2>1. \A name : Append(<<>>, name) = <<name>>
    OBVIOUS
  <2> QED
    BY <2>1, NameFound
<1>8. LeadsTo(m, <<>>, zero)
  BY <1>1, <1>2, <1>7 DEF LeadsTo, d
<1> QED
  BY <1>6, <1>8 DEF zero, d

LEMMA PathLeads ==
  ASSUME FilesAsMeant, NEW m, Ready(m), Tree(m), NEW path, Plain(path), path # <<>>,
         NEW id, id = PathToInodeId(m, m.root, path, Blank), Folder(m, id), id # -1
  PROVE  LeadsTo(m, path, id)
<1> DEFINE N == Len(path)
<1>1. N \in Nat /\ N # 0
  <2>1. path \in Seq(Range(path)) /\ N \in Nat
    BY LenOf DEF Plain, IsSeq
  <2>2. N = 0 => path = <<>>
    BY <2>1, LenProperties, EmptySeq
  <2> QED
    BY <2>1, <2>2
<1>2. PICK w : Walked(m, path, w)
  BY Layout, PathWalked
<1> DEFINE x == w[N - 1]
           last == path[N]
<1>3. /\ N \in 1 .. N /\ N - 1 \in 0 .. N /\ last \notin {".", ".."}
  BY <1>1 DEF Plain
<1>4. /\ w[N] = Enter(m, x, last) /\ Walking(m, x) /\ id = w[N].id
  BY <1>2, <1>3 DEF Walked
<1> HIDE DEF N, x, last
<1>5. ~x.stopped /\ id = DirectoryLookup(x.dir, last)
  <2>1. CASE x.stopped
    <3> DEFINE e == [x EXCEPT !.id = -1]
    <3>1. w[N] = e
      BY <1>4, <2>1 DEF Enter
    <3>2. e.id = -1
      BY <1>4 DEF Walking, WalkFields
    <3> QED
      BY <1>4, <3>1, <3>2
  <2>2. CASE ~x.stopped
    BY <1>4, <2>2 DEF Enter
  <2> QED
    BY <2>1, <2>2
<1>6. id \in InodeId \ {0} /\ LinksTo(x.dir, last) # {}
  BY <1>3, <1>4, <1>5, KnownLookup DEF Walking, DirectoryLookup
<1>7. x.dir # <<>>
  BY <1>6, EmptyIsSeq DEF LinksTo
<1>8. PICK j \in InodeId : IsLinks(x.dir, j)
  BY <1>4, <1>7 DEF Walking, KnownDir
<1>9. Folder(m, j) /\ InTree(x.dir, Dir(m, j))
  BY <1>4, <1>8, KnownTree DEF Walking
<1>10. id \in Below(Dir(m, j))
  BY <1>3, <1>5, <1>6, <1>8, <1>9, HangsDelete DEF InTree
<1>11. Dir(m, id)[2].inode = j
  BY <1>6, <1>9, <1>10 DEF Tree, OnDisk
<1>12. /\ w[N].id = id /\ ~w[N].stopped /\ w[N].dir = Dir(m, id)
  <2> DEFINE inode == InodeOr(m, id, x.inode)
             r == [id |-> id, inode |-> inode, stopped |-> ~IsDir(inode),
                   dir |-> DirOr(m, inode, x.dir)]
  <2>1. w[N] = r
    BY <1>4, <1>5 DEF Enter
  <2>2. inode = InodeAt(m, id)
    BY DEF InodeOr
  <2> HIDE DEF inode
  <2>3. IsDir(inode) /\ DirOr(m, inode, x.dir) = Dir(m, id)
    BY <2>2 DEF Folder, DirOr, Dir
  <2>4. r.id = id /\ r.dir = DirOr(m, inode, x.dir)
    OBVIOUS
  <2>5. r.stopped = ~IsDir(inode)
    BY Zenon
  <2> HIDE DEF r
  <2> QED
    BY <2>1, <2>3, <2>4, <2>5
<1>13. ASSUME NEW name
       PROVE  PathToInodeId(m, m.root, Append(path, name), Blank) = DirectoryLookup(Dir(m, id), name)
  <2> DEFINE q == Append(path, name)
  <2>1. /\ Len(q) = N + 1 /\ q[N + 1] = name
        /\ \A k \in 1 .. N : q[k] = path[k]
    BY AppendSeq DEF N, Plain
  <2> HIDE DEF q
  <2>2. Steps(q) = q
    BY <1>1, <2>1, EmptyIsSeq DEF Steps
  <2>3. PICK v : /\ v[0] = WalkStart(m.root, Blank)
                 /\ \A k \in 1 .. N + 1 : v[k] = Enter(m, v[k - 1], q[k])
                 /\ PathToInodeId(m, m.root, q, Blank) = v[N + 1].id
    <3> DEFINE S == Steps(q)
               n == Len(S)
    <3>1. n = N + 1 /\ n \in Nat
      BY <1>1, <2>1, <2>2
    <3>2. PICK v : /\ v[0] = WalkStart(m.root, Blank)
                   /\ \A k \in 1 .. n : v[k] = Enter(m, v[k - 1], S[k])
                   /\ PathToInodeId(m, m.root, q, Blank) = v[n].id
      BY <3>1, WalkRuns
    <3> HIDE DEF n, S
    <3>3. \A k \in 1 .. N + 1 : S[k] = q[k]
      BY <2>2 DEF S
    <3> QED
      BY <3>1, <3>2, <3>3
  <2> DEFINE S == {k \in 0 .. N : v[k] = w[k]}
  <2>4. 0 \in S
    BY <1>1, <1>2, <2>3 DEF Walked
  <2>5. ASSUME NEW k \in 0 .. N - 1, k \in S
        PROVE  k + 1 \in S
    <3>1. k + 1 \in 1 .. N /\ (k + 1) - 1 = k /\ k + 1 \in 1 .. N + 1
      BY <1>1
    <3>2. v[k + 1] = Enter(m, v[k], q[k + 1]) /\ w[k + 1] = Enter(m, w[k], path[k + 1])
      BY <1>2, <2>3, <3>1 DEF Walked, N
    <3>3. q[k + 1] = path[k + 1] /\ v[k] = w[k]
      BY <2>1, <2>5, <3>1
    <3> QED
      BY <3>1, <3>2, <3>3
  <2> HIDE DEF S
  <2>6. N \in S
    BY <1>1, <2>4, <2>5, UpTo
  <2>7. v[N + 1] = Enter(m, w[N], name)
    <3>1. N + 1 \in 1 .. N + 1 /\ (N + 1) - 1 = N
      BY <1>1
    <3>2. v[N] = w[N]
      BY <2>6 DEF S
    <3> QED
      BY <2>1, <2>3, <3>1, <3>2
  <2>8. Enter(m, w[N], name).id = DirectoryLookup(Dir(m, id), name)
    BY <1>12 DEF Enter
  <2> QED
    BY <2>3, <2>7, <2>8 DEF q
<1> QED
  BY <1>6, <1>8, <1>9, <1>11, <1>13 DEF LeadsTo

LEMMA ListedFound ==
  ASSUME FilesAsMeant, NEW m, Ready(m), Tree(m), m.root = Dir(m, 0), NEW path, Plain(path),
         NEW name \in SysLs(m, path)
  PROVE  SysStat(m, Append(path, name)) \notin {NotThere, Unallocated}
<1> DEFINE id == PathToInodeId(m, m.root, path, Blank)
           d == DirOr(m, InodeAt(m, id), <<>>)
           c == DirectoryLookup(Dir(m, id), name)
<1>1. id # -1 /\ \E l \in Range(d) : name = l.name
  BY DEF SysLs
<1>2. Folder(m, id) /\ d = Dir(m, id)
  <2>1. Range(<<>>) = {}
    BY DEF Range
  <2> QED
    BY <1>1, <2>1 DEF DirOr, Folder, Dir
<1> HIDE DEF d
<1>3. LeadsTo(m, path, id)
  BY <1>1, <1>2, RootLeads, PathLeads
<1> HIDE DEF id
<1>4. LinksTo(Dir(m, id), name) # {}
  <2>1. IsSeq(Dir(m, id))
    BY <1>3, BelowIds DEF LeadsTo, HasLinks, IsLinks, Dir
  <2>2. DOMAIN Dir(m, id) = 1 .. Len(Dir(m, id))
    BY <2>1, LenOf
  <2> QED
    BY <1>1, <1>2, <2>2 DEF Range, LinksTo
<1>5. c \in InodeId /\ There(m, c)
  BY <1>3, <1>4, EntryIsThere DEF LeadsTo, Tree
<1>6. PathToInodeId(m, m.root, Append(path, name), Blank) = c
  BY <1>3 DEF LeadsTo
<1> HIDE DEF c
<1>7. c # -1
  BY <1>5, InodeNumFacts DEF InodeId
<1>8. SysStat(m, Append(path, name)) = InodeAt(m, c).type
  BY <1>6, <1>7 DEF SysStat
<1>9. InodeAt(m, c).type \in InodeType
  BY <1>5 DEF Ready, Good, Whole, IsInode
<1> QED
  BY <1>5, <1>8, <1>9 DEF There, InodeType, NotThere, Unallocated, File, Directory, Device

(* Whatever ls lists is there for stat, "." and ".." included, as long as  *)
(* the root directory in memory, which an open can leave behind, is the    *)
(* disk's.                                                                 *)
THEOREM ListedFilesAreThere ==
  ASSUME FilesAsMeant, NoRmdir
  PROVE  Spec => []ListedIsThere
<1>1. ASSUME InOrder, Tree(Now)
      PROVE  ListedIsThere
  <2>1. Ready(Now) /\ Now.root = root
    BY <1>1, NowFields DEF InOrder, Sound
  <2> QED
    BY <1>1, <2>1, PathsArePlain, ListedFound DEF ListedIsThere, Dir
<1> QED
  BY <1>1, AlwaysTree, PTL

-----------------------------------------------------------------------------
(* The files on the disk are a FileStore                                   *)

FileOf(m, i) == [k \in 1 .. InodeAt(m, i).allocated |-> m.disk[InodeAt(m, i).blocks[k]]]

FilesOf(m) == [i \in {j \in InodeId : IsFile(m, j)} |-> FileOf(m, i)]

LEMMA FileLen ==
  ASSUME NEW m, NEW i, InodeAt(m, i).allocated \in Nat
  PROVE  Len(FileOf(m, i)) = InodeAt(m, i).allocated
<1> DEFINE n == InodeAt(m, i).allocated
           value(k) == m.disk[InodeAt(m, i).blocks[k]]
           S == {value(k) : k \in 1 .. n}
           s == [k \in 1 .. n |-> value(k)]
<1>1. s \in [1 .. n -> S] /\ s = FileOf(m, i)
  BY DEF FileOf
<1> HIDE DEF n, S, s
<1>2. s \in Seq(S) /\ DOMAIN s = 1 .. n
  BY <1>1, SeqDef DEF n
<1>3. Len(s) = n
  BY <1>2, LenProperties DEF n
<1> QED
  BY <1>1, <1>3 DEF n

LEMMA SameFile ==
  ASSUME NEW m, NEW n, NEW i, SameAt(m, n, i)
  PROVE  FileOf(n, i) = FileOf(m, i)
<1>1. InodeAt(n, i) = InodeAt(m, i)
  BY DEF SameAt
<1>2. \A k \in 1 .. InodeAt(m, i).allocated :
        n.disk[InodeAt(m, i).blocks[k]] = m.disk[InodeAt(m, i).blocks[k]]
  BY DEF SameAt, Used, BlockOf
<1> QED
  BY <1>1, <1>2 DEF FileOf

(* How the files f become the files g, in the words of FileStore.          *)
StoreStep(f, g, i) ==
  \/ g = f
  \/ /\ i \notin DOMAIN f /\ DOMAIN g = DOMAIN f \cup {i}
     /\ \A j \in DOMAIN f : g[j] = f[j]
  \/ /\ i \in DOMAIN f /\ DOMAIN g = DOMAIN f
     /\ \A j \in DOMAIN f \ {i} : g[j] = f[j]
     /\ Len(g[i]) >= Len(f[i])
  \/ i \in DOMAIN f /\ g = [j \in DOMAIN f \ {i} |-> f[j]]

LEMMA OneFileStep ==
  ASSUME NEW m, NEW n, NEW i \in InodeId, ButFor(m, n, i),
         InodeAt(m, i).allocated \in Nat, InodeAt(n, i).allocated \in Nat
  PROVE  StoreStep(FilesOf(m), FilesOf(n), i)
<1> DEFINE f == FilesOf(m)
           g == FilesOf(n)
<1>1. /\ DOMAIN f = {j \in InodeId : IsFile(m, j)} /\ DOMAIN g = {j \in InodeId : IsFile(n, j)}
      /\ \A j \in DOMAIN f : f[j] = FileOf(m, j)
      /\ \A j \in DOMAIN g : g[j] = FileOf(n, j)
      /\ f = [j \in DOMAIN f |-> f[j]] /\ g = [j \in DOMAIN g |-> g[j]]
  BY DEF FilesOf
<1> HIDE DEF f, g
<1>2. ASSUME NEW j \in InodeId, j # i
      PROVE  /\ j \in DOMAIN g <=> j \in DOMAIN f
             /\ j \in DOMAIN f => g[j] = f[j]
  BY <1>1, <1>2, SameFile DEF ButFor
<1>3. CASE IsFile(m, i) /\ IsFile(n, i)
  <2>1. DOMAIN g = DOMAIN f /\ i \in DOMAIN f
    BY <1>1, <1>2, <1>3
  <2>2. \A j \in DOMAIN f \ {i} : g[j] = f[j]
    BY <1>1, <1>2
  <2>3. Len(g[i]) >= Len(f[i])
    BY <1>1, <1>3, <2>1, FileLen DEF ButFor
  <2> QED
    BY <2>1, <2>2, <2>3 DEF StoreStep, f, g
<1>4. CASE IsFile(m, i) /\ ~IsFile(n, i)
  <2>1. i \in DOMAIN f /\ DOMAIN g = DOMAIN f \ {i}
    BY <1>1, <1>2, <1>4
  <2>2. \A j \in DOMAIN g : g[j] = f[j]
    BY <1>1, <1>2, <2>1
  <2>3. g = [j \in DOMAIN f \ {i} |-> f[j]]
    BY <1>1, <2>1, <2>2
  <2> QED
    BY <2>1, <2>3 DEF StoreStep, f, g
<1>5. CASE ~IsFile(m, i) /\ IsFile(n, i)
  <2>1. i \notin DOMAIN f /\ DOMAIN g = DOMAIN f \cup {i}
    BY <1>1, <1>2, <1>5
  <2>2. \A j \in DOMAIN f : g[j] = f[j]
    BY <1>1, <1>2, <2>1
  <2> QED
    BY <2>1, <2>2 DEF StoreStep, f, g
<1>6. CASE ~IsFile(m, i) /\ ~IsFile(n, i)
  <2>1. DOMAIN g = DOMAIN f
    BY <1>1, <1>2, <1>6
  <2>2. \A j \in DOMAIN f : g[j] = f[j]
    BY <1>1, <1>2, <1>6
  <2>3. g = f
    BY <1>1, <2>1, <2>2
  <2> QED
    BY <2>3 DEF StoreStep, f, g
<1> QED
  BY <1>3, <1>4, <1>5, <1>6

LEMMA FilesOfNow == FilesOnDisk = FilesOf(Now)
<1>1. {j \in InUse : InodeAt(Now, j).type = File} = {j \in InodeId : IsFile(Now, j)}
  BY DEF InUse, IsFile, File, Unallocated
<1>2. \A i : FileOf(Now, i)
               = [k \in 1 .. InodeAt(Now, i).allocated |-> disk[InodeAt(Now, i).blocks[k]]]
  BY NowFields DEF FileOf
<1> QED
  BY <1>1, <1>2 DEF FilesOnDisk, FilesOf

(* The same of the state after a step.                                     *)
LEMMA FilesOfNext == FilesOnDisk' = FilesOf(Now')
<1>1. {j \in InUse' : InodeAt(Now', j).type = File} = {j \in InodeId : IsFile(Now', j)}
  BY DEF InUse, IsFile, File, Unallocated
<1>2. \A i : FileOf(Now', i)
               = [k \in 1 .. InodeAt(Now', i).allocated |-> disk'[InodeAt(Now', i).blocks[k]]]
  <2>1. Now'.disk = disk'
    BY DEF Now
  <2> QED
    BY <2>1 DEF FileOf
<1>3. FilesOnDisk' = [i \in {j \in InUse' : InodeAt(Now', j).type = File} |-> FileOf(Now', i)]
  BY <1>2 DEF FilesOnDisk
<1> QED
  BY <1>1, <1>3 DEF FilesOf

LEMMA InodesAllocated ==
  ASSUME NEW m, Sound(m), NEW i \in InodeId
  PROVE  InodeAt(m, i).allocated \in Nat
BY DiskAssumption DEF Sound, Ready, Good, Whole, IsInode

(* The file system keeps files as FileStore does: a call makes, overwrites *)
(* or removes at most one file, every other stays block for block what it  *)
(* was, and neither mount nor restart changes any.                         *)
THEOREM FilesStayTheirOwn ==
  ASSUME FilesAsMeant, DevicesLeftAlone
  PROVE  Spec => FilesStay
<1>1. Init => Store!Init
  <2>1. ASSUME Init
        PROVE  FilesOnDisk = [i \in {} |-> <<>>]
    <3>1. {j \in InodeId : IsFile(Now, j)} = {}
      BY <2>1, InitInOrder
    <3>2. FilesOf(Now) = [i \in {} |-> <<>>]
      BY <3>1 DEF FilesOf
    <3> QED
      BY <3>2, FilesOfNow
  <2> QED
    BY <2>1 DEF Store!Init
<1>2. InOrder /\ HasIo(Now) /\ [Next]_vars => [Store!Next]_FilesOnDisk
  <2> SUFFICES ASSUME InOrder, HasIo(Now), [Next]_vars
               PROVE  Store!Next \/ FilesOnDisk' = FilesOnDisk
    OBVIOUS
  <2> DEFINE f == FilesOnDisk
             g == FilesOnDisk'
  <2>1. Sound(Now) /\ Sound(Now') /\ OneFile(Now, Now')
    BY NextInOrder DEF IoKept, InOrder
  <2>2. PICK i \in InodeId : ButFor(Now, Now', i)
    BY <2>1 DEF OneFile
  <2>3. InodeAt(Now, i).allocated \in Nat /\ InodeAt(Now', i).allocated \in Nat
    BY <2>1, InodesAllocated
  <2>4. StoreStep(FilesOf(Now), FilesOf(Now'), i)
    BY <2>2, <2>3, OneFileStep
  <2>5. StoreStep(f, g, i)
    BY <2>4, FilesOfNow, FilesOfNext
  <2>6. \/ g = f
        \/ Store!Create(i) \/ Store!Overwrite(i) \/ Store!Remove(i)
    BY <2>5 DEF StoreStep, Store!Create, Store!Overwrite, Store!Remove, Store!Others
  <2> QED
    BY <2>6 DEF Store!Next
<1> QED
  BY <1>1, <1>2, AlwaysIo, PTL DEF Spec, FilesStay, Store!Spec
=============================================================================
