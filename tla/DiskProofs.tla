------------------------------ MODULE DiskProofs ------------------------------
(***************************************************************************)
(* That the answers of the disk stay in step with the driver's requests,   *)
(* and that driver and disk implement BlockDevice, for every size of the   *)
(* disk, every block and every line.                                       *)
(***************************************************************************)
EXTENDS Disk, SequenceTheorems, TLAPS

-----------------------------------------------------------------------------
(* Sequences                                                               *)

(* x, y and z are the parts of s that have arrived, are on their way and   *)
(* have still to be sent.                                                  *)
Spread(s, x, y, z) ==
  \E i, j \in 0 .. Len(s) :
    /\ i <= j
    /\ x = SubSeq(s, 1, i)
    /\ y = SubSeq(s, i + 1, j)
    /\ z = SubSeq(s, j + 1, Len(s))

LEMMA PartOf ==
  ASSUME NEW s \in Seq(Symbol), NEW i \in 0 .. Len(s), NEW j \in i .. Len(s)
  PROVE  /\ SubSeq(s, i + 1, j) \in Seq(Symbol)
         /\ Len(SubSeq(s, i + 1, j)) = j - i
         /\ \A k \in 1 .. j - i : SubSeq(s, i + 1, j)[k] = s[i + k]
<1>1. Len(s) \in Nat
  BY LenProperties
<1>2. i \in Nat /\ j \in Nat /\ i + 1 \in Int /\ j \in Int
  BY <1>1
<1>3. \A k \in i + 1 .. j : s[k] \in Symbol
  BY <1>1, <1>2, ElementOfSeq
<1> QED
  BY <1>2, <1>3, SubSeqProperties

LEMMA EmptyPart ==
  ASSUME NEW s \in Seq(Symbol), NEW i \in 0 .. Len(s)
  PROVE  SubSeq(s, i + 1, i) = <<>>
<1>1. Len(s) \in Nat
  BY LenProperties
<1> QED
  BY <1>1, SubSeqEmpty

LEMMA PartFirst ==
  ASSUME NEW s \in Seq(Symbol), NEW i \in 0 .. Len(s), NEW j \in i .. Len(s),
         SubSeq(s, i + 1, j) # <<>>
  PROVE  /\ i < j
         /\ Head(SubSeq(s, i + 1, j)) = s[i + 1]
         /\ Tail(SubSeq(s, i + 1, j)) = SubSeq(s, (i + 1) + 1, j)
<1>1. Len(s) \in Nat
  BY LenProperties
<1>2. i # j
  BY EmptyPart
<1>3. i + 1 \in 1 .. Len(s) /\ j \in i + 1 .. Len(s)
  BY <1>1, <1>2
<1> QED
  BY <1>1, <1>2, <1>3, HeadTailOfSubSeq

LEMMA PartAndNext ==
  ASSUME NEW s \in Seq(Symbol), NEW i \in 0 .. Len(s), NEW j \in i .. Len(s), j < Len(s)
  PROVE  Append(SubSeq(s, i + 1, j), s[j + 1]) = SubSeq(s, i + 1, j + 1)
<1> DEFINE a == SubSeq(s, i + 1, j)
           b == SubSeq(s, i + 1, j + 1)
           e == s[j + 1]
           t == Append(a, e)
<1>1. Len(s) \in Nat
  BY LenProperties
<1>2. j \in 0 .. Len(s) /\ j + 1 \in i .. Len(s) /\ j + 1 \in 1 .. Len(s) /\ i \in Nat /\ j \in Nat
  BY <1>1
<1>3. a \in Seq(Symbol) /\ Len(a) = j - i /\ \A k \in 1 .. j - i : a[k] = s[i + k]
  BY PartOf
<1>4. b \in Seq(Symbol) /\ Len(b) = (j + 1) - i /\ \A k \in 1 .. (j + 1) - i : b[k] = s[i + k]
  BY <1>2, PartOf
<1>5. e \in Symbol
  BY <1>2, ElementOfSeq
<1> HIDE DEF a, b, e
<1>6. /\ t \in Seq(Symbol) /\ Len(t) = Len(a) + 1
      /\ \A k \in 1 .. Len(a) : t[k] = a[k]
      /\ t[Len(a) + 1] = e
  BY <1>3, <1>5, AppendProperties
<1> HIDE DEF t
<1>7. Len(t) = Len(b)
  BY <1>2, <1>3, <1>4, <1>6
<1>8. ASSUME NEW k \in 1 .. Len(t)
      PROVE  t[k] = b[k]
  <2>1. CASE k = Len(a) + 1
    <3>1. i + k = j + 1 /\ k \in 1 .. (j + 1) - i
      BY <1>2, <1>3, <2>1
    <3> QED
      BY <1>4, <1>6, <2>1, <3>1 DEF e
  <2>2. CASE k # Len(a) + 1
    <3>1. k \in 1 .. j - i /\ k \in 1 .. Len(a) /\ k \in 1 .. (j + 1) - i
      BY <1>2, <1>3, <1>6, <2>2
    <3> QED
      BY <1>3, <1>4, <1>6, <3>1
  <2> QED
    BY <2>1, <2>2
<1>9. t = b
  BY <1>4, <1>6, <1>7, <1>8, SeqEqual
<1> QED
  BY <1>9 DEF a, b, e, t

LEMMA SpreadStart ==
  ASSUME NEW s \in Seq(Symbol)
  PROVE  Spread(s, <<>>, <<>>, s)
<1>1. Len(s) \in Nat /\ 0 \in 0 .. Len(s) /\ 0 + 1 = 1
  BY LenProperties
<1>2. SubSeq(s, 1, 0) = <<>> /\ SubSeq(s, 1, Len(s)) = s
  BY <1>1, SubSeqEmpty, SubSeqFull
<1> QED
  BY <1>1, <1>2 DEF Spread

LEMMA SpreadIn ==
  ASSUME NEW s \in Seq(Symbol), NEW x, NEW y, NEW z, Spread(s, x, y, z), y # <<>>
  PROVE  Spread(s, Append(x, Head(y)), Tail(y), z)
<1>1. PICK i \in 0 .. Len(s), j \in 0 .. Len(s) :
        /\ i <= j
        /\ x = SubSeq(s, 1, i)
        /\ y = SubSeq(s, i + 1, j)
        /\ z = SubSeq(s, j + 1, Len(s))
  BY DEF Spread
<1>2. Len(s) \in Nat /\ i \in Nat /\ j \in i .. Len(s) /\ 0 \in 0 .. Len(s) /\ 0 + 1 = 1
      /\ i \in 0 .. Len(s)
  BY <1>1, LenProperties
<1>3. i < j /\ Head(y) = s[i + 1] /\ Tail(y) = SubSeq(s, (i + 1) + 1, j)
  BY <1>1, <1>2, PartFirst
<1>4. Append(x, s[i + 1]) = SubSeq(s, 1, i + 1)
  <2>1. Append(SubSeq(s, 0 + 1, i), s[i + 1]) = SubSeq(s, 0 + 1, i + 1)
    BY <1>1, <1>2, <1>3, PartAndNext
  <2> QED
    BY <1>1, <2>1
<1>5. i + 1 \in 0 .. Len(s) /\ i + 1 <= j
  BY <1>2, <1>3
<1> QED
  BY <1>1, <1>3, <1>4, <1>5 DEF Spread

LEMMA SpreadOut ==
  ASSUME NEW s \in Seq(Symbol), NEW x, NEW y, NEW z, Spread(s, x, y, z), z # <<>>
  PROVE  Spread(s, x, Append(y, Head(z)), Tail(z))
<1>1. PICK i \in 0 .. Len(s), j \in 0 .. Len(s) :
        /\ i <= j
        /\ x = SubSeq(s, 1, i)
        /\ y = SubSeq(s, i + 1, j)
        /\ z = SubSeq(s, j + 1, Len(s))
  BY DEF Spread
<1>2. Len(s) \in Nat /\ j \in i .. Len(s) /\ Len(s) \in j .. Len(s)
  BY <1>1, LenProperties
<1>3. j < Len(s) /\ Head(z) = s[j + 1] /\ Tail(z) = SubSeq(s, (j + 1) + 1, Len(s))
  BY <1>1, <1>2, PartFirst
<1>4. Append(y, s[j + 1]) = SubSeq(s, i + 1, j + 1)
  BY <1>1, <1>2, <1>3, PartAndNext
<1>5. j + 1 \in 0 .. Len(s) /\ i <= j + 1
  BY <1>1, <1>2, <1>3
<1> QED
  BY <1>1, <1>3, <1>4, <1>5 DEF Spread

(* What has arrived begins s; once it is as long as s it is all of it.     *)
LEMMA SpreadPrefix ==
  ASSUME NEW s \in Seq(Symbol), NEW x, NEW y, NEW z, Spread(s, x, y, z)
  PROVE  /\ x \in Seq(Symbol) /\ Len(x) <= Len(s)
         /\ \A k \in 1 .. Len(x) : x[k] = s[k]
         /\ Len(x) = Len(s) => x = s /\ y = <<>> /\ z = <<>>
<1>1. PICK i \in 0 .. Len(s), j \in 0 .. Len(s) :
        /\ i <= j
        /\ x = SubSeq(s, 1, i)
        /\ y = SubSeq(s, i + 1, j)
        /\ z = SubSeq(s, j + 1, Len(s))
  BY DEF Spread
<1>2. /\ Len(s) \in Nat /\ i \in Nat /\ j \in Nat /\ i <= j /\ j <= Len(s)
      /\ 0 \in 0 .. Len(s) /\ i \in 0 .. Len(s) /\ 0 + 1 = 1 /\ i - 0 = i
  BY <1>1, LenProperties
<1>3. x \in Seq(Symbol) /\ Len(x) = i /\ \A k \in 1 .. i : x[k] = s[k]
  <2> DEFINE a == SubSeq(s, 0 + 1, i)
  <2>1. a \in Seq(Symbol) /\ Len(a) = i - 0 /\ \A k \in 1 .. i - 0 : a[k] = s[0 + k]
    BY <1>2, PartOf
  <2>2. a = x
    BY <1>1, <1>2
  <2> HIDE DEF a
  <2> QED
    BY <1>2, <2>1, <2>2
<1>4. i = Len(s) => j = i
  <2> DEFINE n == Len(s)
  <2>1. i \in Nat /\ j \in Nat /\ n \in Nat /\ i <= j /\ j <= n
    BY <1>2
  <2> HIDE DEF n
  <2>2. i = n => j = i
    BY <2>1
  <2> QED
    BY <2>2 DEF n
<1>5. SubSeq(s, i + 1, i) = <<>>
  BY <1>2, EmptyPart
<1>6. SubSeq(s, 1, Len(s)) = s
  BY SubSeqFull
<1>7. i = Len(s) => x = s /\ y = <<>> /\ z = <<>>
  BY <1>1, <1>4, <1>5, <1>6
<1> QED
  BY <1>2, <1>3, <1>7

-----------------------------------------------------------------------------
(* What requests and answers look like                                     *)

LEMMA Joined ==
  ASSUME NEW s \in Seq(Symbol), NEW t \in Seq(Symbol)
  PROVE  /\ s \o t \in Seq(Symbol)
         /\ Len(s \o t) = Len(s) + Len(t)
         /\ \A k \in 1 .. Len(s) : (s \o t)[k] = s[k]
         /\ \A k \in 1 .. Len(t) : (s \o t)[Len(s) + k] = t[k]
<1> DEFINE c == s \o t
<1>1. Len(s) \in Nat /\ Len(t) \in Nat
  BY LenProperties
<1>2. /\ c \in Seq(Symbol)
      /\ Len(c) = Len(s) + Len(t)
      /\ \A k \in 1 .. Len(s) + Len(t) : c[k] = IF k <= Len(s) THEN s[k] ELSE t[k - Len(s)]
  BY ConcatProperties
<1> HIDE DEF c
<1>3. \A k \in 1 .. Len(s) : c[k] = s[k]
  BY <1>1, <1>2
<1>4. ASSUME NEW k \in 1 .. Len(t)
      PROVE  c[Len(s) + k] = t[k]
  <2>1. /\ Len(s) + k \in 1 .. Len(s) + Len(t) /\ ~(Len(s) + k <= Len(s))
        /\ (Len(s) + k) - Len(s) = k
    BY <1>1
  <2> QED
    BY <1>2, <2>1
<1> QED
  BY <1>2, <1>3, <1>4 DEF c

(* A sequence that is s from its place n + 1 on.                           *)
LEMMA PartIs ==
  ASSUME NEW r \in Seq(Symbol), NEW s \in Seq(Symbol), NEW n \in Nat,
         n + Len(s) <= Len(r),
         \A k \in 1 .. Len(s) : r[n + k] = s[k]
  PROVE  SubSeq(r, n + 1, n + Len(s)) = s
<1> DEFINE p == SubSeq(r, n + 1, n + Len(s))
<1>1. Len(s) \in Nat /\ Len(r) \in Nat
  BY LenProperties
<1>2. n \in 0 .. Len(r) /\ n + Len(s) \in n .. Len(r) /\ (n + Len(s)) - n = Len(s)
  BY <1>1
<1>3. p \in Seq(Symbol) /\ Len(p) = Len(s) /\ \A k \in 1 .. Len(s) : p[k] = r[n + k]
  BY <1>2, PartOf
<1> HIDE DEF p
<1>4. Len(p) = Len(s) /\ \A k \in 1 .. Len(p) : p[k] = s[k]
  BY <1>3
<1>5. p = s
  BY <1>3, <1>4, SeqEqual
<1> QED
  BY <1>5 DEF p

LEMMA ShortOnes ==
  ASSUME NEW a \in Symbol, NEW b \in Symbol
  PROVE  /\ <<a>> \in Seq(Symbol) /\ Len(<<a>>) = 1 /\ <<a>>[1] = a
         /\ <<a, b>> \in Seq(Symbol) /\ Len(<<a, b>>) = 2
         /\ <<a, b>>[1] = a /\ <<a, b>>[2] = b
OBVIOUS

LEMMA AddressBytes ==
  ASSUME NEW n \in Nat, n <= LongMax
  PROVE  /\ AddrBytes(n) \in Seq(Byte) /\ Len(AddrBytes(n)) = 4
         /\ Number(AddrBytes(n)) = n
<1>1. n < 2147483648
  BY SMT DEF LongMax
<1>2. /\ n % 256 \in Byte /\ (n \div 256) % 256 \in Byte
      /\ (n \div 65536) % 256 \in Byte /\ (n \div 16777216) % 256 \in Byte
  BY SMT DEF Byte
<1>3. AddrBytes(n) \in Seq(Byte) /\ Len(AddrBytes(n)) = 4
  BY <1>2, SMT DEF AddrBytes
<1>4. /\ AddrBytes(n)[1] = n % 256 /\ AddrBytes(n)[2] = (n \div 256) % 256
      /\ AddrBytes(n)[3] = (n \div 65536) % 256 /\ AddrBytes(n)[4] = (n \div 16777216) % 256
  BY SMT DEF AddrBytes
<1>5. (n \div 16777216) % 256 < 128
  BY <1>1, SMT
<1>6. n = (n % 256) + 256 * ((n \div 256) % 256) + 65536 * ((n \div 65536) % 256)
              + 16777216 * ((n \div 16777216) % 256)
  BY <1>1, SMT
<1> QED
  BY <1>3, <1>4, <1>5, <1>6, SMT DEF Number

LEMMA NaturalBounds ==
  /\ \A n \in 0 .. LongMax : n \in Nat /\ n <= LongMax
  /\ BlockNum \in Nat /\ BlockNum <= LongMax
  /\ BlockLen \in Nat /\ BlockLen <= LongMax /\ BlockLen # 0
<1>1. LongMax \in Nat
  BY SMT DEF LongMax
<1> QED
  BY <1>1, DiskAssumption

LEMMA BytesAreSymbols == Seq(Byte) \subseteq Seq(Symbol)
BY SeqMonotonic DEF Symbol

-----------------------------------------------------------------------------
(* Lines: what is sent ends with an end of line and has no other.          *)

NoNL(s) == \A k \in 1 .. Len(s) : s[k] # NL

IsLine(r) ==
  /\ r \in Seq(Symbol)
  /\ Len(r) # 0
  /\ \A k \in 1 .. Len(r) : r[k] = NL <=> k = Len(r)

LEMMA BytesHaveNoNL ==
  ASSUME NEW s \in Seq(Byte)
  PROVE  s \in Seq(Symbol) /\ Len(s) \in Nat /\ NoNL(s)
<1>1. Len(s) \in Nat /\ \A k \in 1 .. Len(s) : s[k] \in Byte
  BY LenProperties, ElementOfSeq
<1>2. NL \notin Byte
  BY SMT DEF NL, Byte
<1> QED
  BY <1>1, <1>2, BytesAreSymbols DEF NoNL

LEMMA JoinedHasNoNL ==
  ASSUME NEW s \in Seq(Symbol), NEW t \in Seq(Symbol), NoNL(s), NoNL(t)
  PROVE  NoNL(s \o t)
<1> DEFINE c == s \o t
<1>1. Len(s) \in Nat /\ Len(t) \in Nat
  BY LenProperties
<1>2. /\ Len(c) = Len(s) + Len(t)
      /\ \A k \in 1 .. Len(s) : c[k] = s[k]
      /\ \A k \in 1 .. Len(t) : c[Len(s) + k] = t[k]
  BY Joined
<1> HIDE DEF c
<1>3. ASSUME NEW k \in 1 .. Len(c)
      PROVE  c[k] # NL
  <2>1. CASE k <= Len(s)
    <3>1. k \in 1 .. Len(s)
      BY <1>1, <2>1
    <3> QED
      BY <1>2, <3>1 DEF NoNL
  <2>2. CASE ~(k <= Len(s))
    <3> DEFINE l == k - Len(s)
    <3>1. l \in 1 .. Len(t) /\ Len(s) + l = k
      BY <1>1, <1>2, <2>2
    <3> QED
      BY <1>2, <3>1 DEF NoNL
  <2> QED
    BY <2>1, <2>2
<1> QED
  BY <1>3 DEF c, NoNL

LEMMA EndedIsLine ==
  ASSUME NEW s \in Seq(Symbol), NoNL(s)
  PROVE  /\ IsLine(s \o <<NL>>) /\ Len(s \o <<NL>>) = Len(s) + 1
         /\ \A k \in 1 .. Len(s) : (s \o <<NL>>)[k] = s[k]
<1> DEFINE r == s \o <<NL>>
<1>1. Len(s) \in Nat
  BY LenProperties
<1>2. <<NL>> \in Seq(Symbol) /\ Len(<<NL>>) = 1 /\ <<NL>>[1] = NL
  BY ShortOnes DEF Symbol
<1>3. /\ r \in Seq(Symbol)
      /\ Len(r) = Len(s) + 1
      /\ \A k \in 1 .. Len(s) : r[k] = s[k]
      /\ r[Len(s) + 1] = NL
  <2>1. /\ r \in Seq(Symbol)
        /\ Len(r) = Len(s) + Len(<<NL>>)
        /\ \A k \in 1 .. Len(s) : r[k] = s[k]
        /\ \A k \in 1 .. Len(<<NL>>) : r[Len(s) + k] = <<NL>>[k]
    BY <1>2, Joined
  <2> QED
    BY <1>2, <2>1
<1> HIDE DEF r
<1>4. ASSUME NEW k \in 1 .. Len(r)
      PROVE  r[k] = NL <=> k = Len(r)
  <2>1. CASE k = Len(s) + 1
    BY <1>3, <2>1
  <2>2. CASE k # Len(s) + 1
    <3>1. k \in 1 .. Len(s) /\ k # Len(r)
      BY <1>1, <1>3, <2>2
    <3> QED
      BY <1>3, <3>1 DEF NoNL
  <2> QED
    BY <2>1, <2>2
<1> QED
  BY <1>1, <1>3, <1>4 DEF IsLine, r

LEMMA Pair ==
  ASSUME NEW a \in Symbol, NEW b \in Symbol, a # NL, b # NL
  PROVE  LET h == <<a, b>>
         IN  h \in Seq(Symbol) /\ Len(h) = 2 /\ h[1] = a /\ NoNL(h)
<1> DEFINE h == <<a, b>>
<1>1. h \in Seq(Symbol) /\ Len(h) = 2 /\ h[1] = a /\ h[2] = b
  BY ShortOnes
<1>2. \A k \in 1 .. 2 : k = 1 \/ k = 2
  OBVIOUS
<1> HIDE DEF h
<1>3. NoNL(h)
  BY <1>1, <1>2 DEF NoNL
<1> QED
  BY <1>1, <1>3 DEF h

(* Two symbols h, then s.                                                  *)
LEMMA Headed ==
  ASSUME NEW h \in Seq(Symbol), Len(h) = 2, NoNL(h), NEW s \in Seq(Symbol), NoNL(s)
  PROVE  /\ h \o s \in Seq(Symbol) /\ NoNL(h \o s)
         /\ Len(h \o s) = 2 + Len(s)
         /\ (h \o s)[1] = h[1]
         /\ \A k \in 1 .. Len(s) : (h \o s)[2 + k] = s[k]
<1> DEFINE c == h \o s
<1>1. /\ c \in Seq(Symbol)
      /\ Len(c) = Len(h) + Len(s)
      /\ \A k \in 1 .. Len(h) : c[k] = h[k]
      /\ \A k \in 1 .. Len(s) : c[Len(h) + k] = s[k]
  BY Joined
<1>2. NoNL(c)
  BY JoinedHasNoNL
<1> HIDE DEF c
<1>3. 1 \in 1 .. 2
  OBVIOUS
<1> QED
  BY <1>1, <1>2, <1>3 DEF c

-----------------------------------------------------------------------------
(* Calls, requests and answers                                             *)

LEMMA FunctionIsSeq ==
  ASSUME NEW S, NEW n \in Nat, NEW f \in [1 .. n -> S]
  PROVE  f \in Seq(S) /\ Len(f) = n
<1>1. f \in Seq(S)
  BY SeqDef
<1> QED
  BY <1>1, LenProperties

(* What c may be: one form for each function of disk.c.                    *)
LEMMA CallIs ==
  ASSUME NEW c \in Calls
  PROVE  \/ \E o \in {"num", "len"} : c = Called(o, 0, <<>>, 8)
         \/ \E a \in Addrs, n \in Lengths : c = Called("rd", a, <<>>, n)
         \/ \E a \in Addrs, n \in Lengths : \E x \in [1 .. n -> Bytes] : c = Called("wr", a, x, n)
<1>1. CASE \E S \in {{Called("wr", a, x, n) : a \in Addrs, x \in [1 .. n -> Bytes]} : n \in Lengths} :
             c \in S
  <2>1. PICK n \in Lengths : c \in {Called("wr", a, x, n) : a \in Addrs, x \in [1 .. n -> Bytes]}
    BY <1>1
  <2> QED
    BY <2>1
<1>2. CASE c \in {Called(o, 0, <<>>, 8) : o \in {"num", "len"}}
  BY <1>2
<1>3. CASE c \in {Called("rd", a, <<>>, n) : a \in Addrs, n \in Lengths}
  BY <1>3
<1> QED
  BY <1>1, <1>2, <1>3 DEF Calls

LEMMA CallShape ==
  ASSUME NEW c \in Calls
  PROVE  /\ c.op \in {"num", "len", "rd", "wr"}
         /\ c.op \in {"num", "len"} => c.len = 8
         /\ c.op \in {"rd", "wr"} => c.addr \in Nat /\ c.addr <= LongMax /\ c.len \in Lengths
         /\ c.op = "wr" => /\ c.data \in [1 .. c.len -> Bytes]
                           /\ c.data \in Seq(Byte) /\ Len(c.data) = c.len
<1>1. CASE \E o \in {"num", "len"} : c = Called(o, 0, <<>>, 8)
  BY <1>1 DEF Called
<1>2. CASE \E a \in Addrs, n \in Lengths : c = Called("rd", a, <<>>, n)
  <2>1. PICK a \in Addrs, n \in Lengths : c = Called("rd", a, <<>>, n)
    BY <1>2
  <2>2. a \in Nat /\ a <= LongMax
    BY DiskAssumption, NaturalBounds
  <2> QED
    BY <2>1, <2>2 DEF Called
<1>3. CASE \E a \in Addrs, n \in Lengths : \E x \in [1 .. n -> Bytes] : c = Called("wr", a, x, n)
  <2>1. PICK a \in Addrs, n \in Lengths : \E x \in [1 .. n -> Bytes] : c = Called("wr", a, x, n)
    BY <1>3
  <2>2. PICK x \in [1 .. n -> Bytes] : c = Called("wr", a, x, n)
    BY <2>1
  <2>3. a \in Nat /\ a <= LongMax /\ n \in Nat
    BY DiskAssumption, NaturalBounds
  <2>4. x \in [1 .. n -> Byte]
    BY DiskAssumption
  <2>5. x \in Seq(Byte) /\ Len(x) = n
    BY <2>3, <2>4, FunctionIsSeq
  <2>6. c.op = "wr" /\ c.addr = a /\ c.data = x /\ c.len = n
    BY <2>2 DEF Called
  <2> QED
    BY <2>3, <2>5, <2>6
<1> QED
  BY <1>1, <1>2, <1>3, CallIs

LEMMA AddressSymbols ==
  ASSUME NEW n \in Nat, n <= LongMax
  PROVE  /\ AddrBytes(n) \in Seq(Symbol) /\ Len(AddrBytes(n)) = 4
         /\ NoNL(AddrBytes(n))
BY AddressBytes, BytesHaveNoNL

LEMMA Codes ==
  /\ REQ_CONF \in Symbol /\ REQ_WR \in Symbol /\ REQ_RD \in Symbol
  /\ ACK_OKAY \in Symbol /\ ACK_FAIL \in Symbol /\ SP \in Symbol /\ NL \in Symbol
  /\ NL \notin {REQ_CONF, REQ_WR, REQ_RD, ACK_OKAY, ACK_FAIL, SP}
  /\ REQ_CONF # REQ_WR /\ REQ_CONF # REQ_RD /\ REQ_WR # REQ_RD
  /\ ACK_OKAY # ACK_FAIL
BY SMT DEF REQ_CONF, REQ_WR, REQ_RD, ACK_OKAY, ACK_FAIL, SP, NL, Symbol, Byte

LEMMA HeadedByAddress ==
  ASSUME NEW q \in {REQ_WR, REQ_RD}, NEW n \in Nat, n <= LongMax
  PROVE  LET h == <<q, SP>> \o AddrBytes(n)
         IN  /\ h \in Seq(Symbol) /\ Len(h) = 6 /\ NoNL(h)
             /\ h[1] = q
             /\ \A k \in 1 .. 4 : h[2 + k] = AddrBytes(n)[k]
<1> DEFINE b == AddrBytes(n)
           p == <<q, SP>>
           h == p \o b
<1>1. b \in Seq(Symbol) /\ Len(b) = 4 /\ NoNL(b)
  BY AddressSymbols
<1>2. p \in Seq(Symbol) /\ Len(p) = 2 /\ p[1] = q /\ NoNL(p)
  BY Codes, Pair
<1> HIDE DEF b, p
<1>3. /\ h \in Seq(Symbol) /\ NoNL(h)
      /\ Len(h) = 2 + Len(b)
      /\ h[1] = q
      /\ \A k \in 1 .. Len(b) : h[2 + k] = b[k]
  BY <1>1, <1>2, Headed
<1> HIDE DEF h
<1> QED
  BY <1>1, <1>3 DEF b, p, h

(* The address in a request that begins with h.                            *)
LEMMA AddressOf ==
  ASSUME NEW n \in Nat, n <= LongMax,
         NEW h \in Seq(Symbol), Len(h) = 6,
         \A k \in 1 .. 4 : h[2 + k] = AddrBytes(n)[k],
         NEW r \in Seq(Symbol), 6 <= Len(r),
         \A k \in 1 .. 6 : r[k] = h[k]
  PROVE  SubSeq(r, 3, 6) = AddrBytes(n)
<1> DEFINE b == AddrBytes(n)
<1>1. b \in Seq(Symbol) /\ Len(b) = 4
  BY AddressSymbols
<1> HIDE DEF b
<1>2. \A k \in 1 .. 4 : 2 + k \in 1 .. 6
  OBVIOUS
<1>3. \A k \in 1 .. 4 : r[2 + k] = b[k]
  BY <1>2 DEF b
<1>4. SubSeq(r, 2 + 1, 2 + Len(b)) = b
  <2>1. 2 \in Nat /\ 2 + Len(b) <= Len(r) /\ \A k \in 1 .. Len(b) : r[2 + k] = b[k]
    BY <1>1, <1>3
  <2> QED
    BY <1>1, <2>1, PartIs
<1>5. 2 + 1 = 3 /\ 2 + Len(b) = 6
  BY <1>1
<1> QED
  BY <1>4, <1>5 DEF b

LEMMA ReadRequest ==
  ASSUME NEW n \in Nat, n <= LongMax
  PROVE  LET r == <<REQ_RD, SP>> \o AddrBytes(n) \o <<NL>>
         IN  IsLine(r) /\ r[1] = REQ_RD /\ SubSeq(r, 3, 6) = AddrBytes(n)
<1> DEFINE h == <<REQ_RD, SP>> \o AddrBytes(n)
           r == h \o <<NL>>
<1>1. /\ h \in Seq(Symbol) /\ Len(h) = 6 /\ NoNL(h) /\ h[1] = REQ_RD
      /\ \A k \in 1 .. 4 : h[2 + k] = AddrBytes(n)[k]
  BY HeadedByAddress
<1> HIDE DEF h
<1>2. IsLine(r) /\ Len(r) = Len(h) + 1 /\ \A k \in 1 .. Len(h) : r[k] = h[k]
  BY <1>1, EndedIsLine
<1> HIDE DEF r
<1>3. /\ r \in Seq(Symbol) /\ 6 <= Len(r) /\ \A k \in 1 .. 6 : r[k] = h[k]
  BY <1>1, <1>2 DEF IsLine
<1>4. SubSeq(r, 3, 6) = AddrBytes(n)
  BY <1>1, <1>3, AddressOf
<1>5. r[1] = REQ_RD
  BY <1>1, <1>3
<1> QED
  BY <1>2, <1>4, <1>5 DEF h, r

LEMMA WriteRequest ==
  ASSUME NEW c \in Calls, c.op = "wr"
  PROVE  LET r == Request(c)
         IN  /\ IsLine(r) /\ r[1] = REQ_WR /\ SubSeq(r, 3, 6) = AddrBytes(c.addr)
             /\ SubSeq(r, 8, Len(r) - 1) = c.data
<1> DEFINE n == c.addr
           x == c.data
<1>a. n \in Nat /\ n <= LongMax /\ x \in Seq(Byte)
  BY CallShape
<1> DEFINE h == <<REQ_WR, SP>> \o AddrBytes(n)
           s == <<SP>>
           g == h \o s
           t == g \o x
           r == t \o <<NL>>
<1>b. Request(c) = r
  BY DEF Request
<1> HIDE DEF n, x
<1>1. /\ h \in Seq(Symbol) /\ Len(h) = 6 /\ NoNL(h) /\ h[1] = REQ_WR
      /\ \A k \in 1 .. 4 : h[2 + k] = AddrBytes(n)[k]
  BY <1>a, HeadedByAddress
<1>2. s \in Seq(Symbol) /\ Len(s) = 1 /\ NoNL(s)
  <2>1. s \in Seq(Symbol) /\ Len(s) = 1 /\ s[1] = SP /\ SP # NL
    BY ShortOnes, Codes
  <2>2. \A k \in 1 .. 1 : k = 1
    OBVIOUS
  <2> QED
    BY <2>1, <2>2 DEF NoNL
<1>3. x \in Seq(Symbol) /\ Len(x) \in Nat /\ NoNL(x)
  BY <1>a, BytesHaveNoNL
<1> HIDE DEF h, s
<1>4. /\ g \in Seq(Symbol) /\ NoNL(g) /\ Len(g) = 7
      /\ \A k \in 1 .. 6 : g[k] = h[k]
  <2>1. /\ g \in Seq(Symbol) /\ NoNL(g) /\ Len(g) = Len(h) + Len(s)
        /\ \A k \in 1 .. Len(h) : g[k] = h[k]
    BY <1>1, <1>2, Joined, JoinedHasNoNL
  <2> HIDE DEF g
  <2> QED
    BY <1>1, <1>2, <2>1
<1> HIDE DEF g
<1>5. /\ t \in Seq(Symbol) /\ NoNL(t) /\ Len(t) = 7 + Len(x)
      /\ \A k \in 1 .. 7 : t[k] = g[k]
      /\ \A k \in 1 .. Len(x) : t[7 + k] = x[k]
  <2>1. /\ t \in Seq(Symbol) /\ NoNL(t) /\ Len(t) = Len(g) + Len(x)
        /\ \A k \in 1 .. Len(g) : t[k] = g[k]
        /\ \A k \in 1 .. Len(x) : t[Len(g) + k] = x[k]
    BY <1>3, <1>4, Joined, JoinedHasNoNL
  <2> HIDE DEF t
  <2> QED
    BY <1>4, <2>1
<1> HIDE DEF t
<1>6. IsLine(r) /\ Len(r) = Len(t) + 1 /\ \A k \in 1 .. Len(t) : r[k] = t[k]
  BY <1>5, EndedIsLine
<1> HIDE DEF r
<1>7. r \in Seq(Symbol) /\ 6 <= Len(r) /\ \A k \in 1 .. 6 : r[k] = h[k]
  <2>1. 6 <= Len(r) /\ \A k \in 1 .. 6 : k \in 1 .. Len(t) /\ k \in 1 .. 7
    BY <1>3, <1>5, <1>6
  <2> QED
    BY <1>4, <1>5, <1>6, <2>1 DEF IsLine
<1>8. SubSeq(r, 3, 6) = AddrBytes(n)
  BY <1>1, <1>7, <1>a, AddressOf
<1>9. SubSeq(r, 8, Len(r) - 1) = x
  <2>1. 7 \in Nat /\ 7 + Len(x) <= Len(r) /\ 7 + 1 = 8 /\ 7 + Len(x) = Len(r) - 1
    BY <1>3, <1>5, <1>6
  <2>2. \A k \in 1 .. Len(x) : r[7 + k] = x[k]
    <3>1. \A k \in 1 .. Len(x) : 7 + k \in 1 .. Len(t)
      BY <1>3, <1>5
    <3> QED
      BY <1>5, <1>6, <3>1
  <2>3. SubSeq(r, 7 + 1, 7 + Len(x)) = x
    BY <1>3, <1>7, <2>1, <2>2, PartIs
  <2> QED
    BY <2>1, <2>3
<1>10. r[1] = REQ_WR
  BY <1>1, <1>7
<1> QED
  BY <1>6, <1>8, <1>9, <1>10, <1>b DEF n, x

LEMMA ConfRequest == IsLine(<<REQ_CONF, NL>>) /\ <<REQ_CONF, NL>>[1] = REQ_CONF
<1> DEFINE r == <<REQ_CONF, NL>>
<1>1. r \in Seq(Symbol) /\ Len(r) = 2 /\ r[1] = REQ_CONF /\ r[2] = NL
  BY ShortOnes, Codes
<1>2. \A k \in 1 .. 2 : k = 1 \/ k = 2
  OBVIOUS
<1> HIDE DEF r
<1>3. Len(r) # 0 /\ \A k \in 1 .. Len(r) : r[k] = NL <=> k = Len(r)
  BY <1>1, <1>2, Codes
<1> QED
  BY <1>1, <1>3 DEF IsLine, r

LEMMA RequestShape ==
  ASSUME NEW c \in Calls
  PROVE  /\ IsLine(Request(c))
         /\ c.op = "wr" => /\ Request(c)[1] = REQ_WR
                           /\ SubSeq(Request(c), 3, 6) = AddrBytes(c.addr)
                           /\ SubSeq(Request(c), 8, Len(Request(c)) - 1) = c.data
         /\ c.op = "rd" => /\ Request(c)[1] = REQ_RD
                           /\ SubSeq(Request(c), 3, 6) = AddrBytes(c.addr)
         /\ c.op \notin {"wr", "rd"} => Request(c)[1] = REQ_CONF
<1>1. CASE c.op = "wr"
  BY <1>1, WriteRequest
<1>2. CASE c.op = "rd"
  <2>1. c.addr \in Nat /\ c.addr <= LongMax
    BY <1>2, CallShape
  <2>2. Request(c) = <<REQ_RD, SP>> \o AddrBytes(c.addr) \o <<NL>>
    BY <1>2 DEF Request
  <2> QED
    BY <1>2, <2>1, <2>2, ReadRequest
<1>3. CASE c.op \notin {"wr", "rd"}
  <2>1. Request(c) = <<REQ_CONF, NL>>
    BY <1>3 DEF Request
  <2> QED
    BY <1>3, <2>1, ConfRequest
<1> QED
  BY <1>1, <1>2, <1>3

LEMMA DataShape ==
  ASSUME NEW x \in Seq(Byte)
  PROVE  /\ Data(x) \in Seq(Symbol) /\ Len(Data(x)) = 3 + Len(x)
         /\ Data(x)[1] = ACK_OKAY
         /\ SubSeq(Data(x), 3, 2 + Len(x)) = x
         /\ \A k \in 1 .. Len(x) : Data(x)[2 + k] = x[k]
<1> DEFINE p == <<ACK_OKAY, SP>>
           h == p \o x
           d == h \o <<NL>>
<1>1. x \in Seq(Symbol) /\ Len(x) \in Nat /\ NoNL(x)
  BY BytesHaveNoNL
<1>2. /\ h \in Seq(Symbol) /\ NoNL(h)
      /\ Len(h) = 2 + Len(x)
      /\ h[1] = ACK_OKAY
      /\ \A k \in 1 .. Len(x) : h[2 + k] = x[k]
  <2>1. p \in Seq(Symbol) /\ Len(p) = 2 /\ p[1] = ACK_OKAY /\ NoNL(p)
    BY Codes, Pair
  <2> HIDE DEF p
  <2> QED
    BY <1>1, <2>1, Headed
<1> HIDE DEF h
<1>3. d \in Seq(Symbol) /\ Len(d) = Len(h) + 1 /\ \A k \in 1 .. Len(h) : d[k] = h[k]
  BY <1>2, EndedIsLine DEF IsLine
<1>4. d = Data(x)
  BY DEF Data, d, h, p
<1> HIDE DEF d
<1>5. Len(d) = 3 + Len(x) /\ 1 \in 1 .. Len(h) /\ \A k \in 1 .. Len(x) : 2 + k \in 1 .. Len(h)
  BY <1>1, <1>2, <1>3
<1>6. d[1] = ACK_OKAY /\ \A k \in 1 .. Len(x) : d[2 + k] = x[k]
  BY <1>2, <1>3, <1>5
<1>7. SubSeq(d, 2 + 1, 2 + Len(x)) = x
  <2>1. 2 \in Nat /\ 2 + Len(x) <= Len(d)
    BY <1>1, <1>5
  <2> QED
    BY <1>1, <1>3, <1>6, <2>1, PartIs
<1>8. 2 + 1 = 3
  OBVIOUS
<1> QED
  BY <1>3, <1>4, <1>5, <1>6, <1>7, <1>8

-----------------------------------------------------------------------------
(* The invariant: a call that is open is either still being asked, and the *)
(* request is spread over driver, line and disk in its order, or being     *)
(* answered, and the answer is.                                            *)

Block == [1 .. BlockLen -> Bytes]

Images == [0 .. BlockNum - 1 -> Block]

(* What the disk may answer to c when its blocks are b.                    *)
MayAnswer(c, a, b) ==
  CASE c.op = "wr" -> \/ a = Failed
                      \/ /\ c.addr < BlockNum /\ b[c.addr] = c.data
                         /\ a = <<ACK_OKAY, NL>>
    [] c.op = "rd" -> \/ a = Failed
                      \/ c.addr < BlockNum /\ a = Data(b[c.addr])
    [] OTHER       -> a = Data(AddrBytes(BlockNum) \o AddrBytes(BlockLen))

Idle ==
  /\ call = NoCall
  /\ out = <<>> /\ got = <<>> /\ toDisk = <<>> /\ toDriver = <<>>
  /\ line = <<>> /\ reply = <<>>

Asking ==
  /\ call \in Calls
  /\ got = <<>> /\ toDriver = <<>> /\ reply = <<>>
  /\ Spread(Request(call), line, toDisk, out)

Answering ==
  /\ call \in Calls
  /\ out = <<>> /\ toDisk = <<>> /\ line = <<>>
  /\ \E a : MayAnswer(call, a, image) /\ Spread(a, got, toDriver, reply)

IInv == image \in Images /\ (Idle \/ Asking \/ Answering)

-----------------------------------------------------------------------------
(* What an answer looks like, and that the driver knows its length         *)

(* The file system takes a block to be as long as the disk's blocks are.   *)
SameLengths == Lengths \subseteq {BlockLen}

LEMMA BlockShape ==
  ASSUME NEW x \in Block
  PROVE  x \in Seq(Byte) /\ Len(x) = BlockLen
<1>1. BlockLen \in Nat
  BY NaturalBounds
<1>2. x \in [1 .. BlockLen -> Byte]
  BY DiskAssumption DEF Block
<1> QED
  BY <1>1, <1>2, FunctionIsSeq

LEMMA FailedShape ==
  Failed \in Seq(Symbol) /\ Len(Failed) = 2 /\ Failed[1] = ACK_FAIL
BY ShortOnes, Codes DEF Failed

LEMMA ConfShape ==
  LET d == Data(AddrBytes(BlockNum) \o AddrBytes(BlockLen))
  IN  /\ d \in Seq(Symbol) /\ Len(d) = 11 /\ d[1] = ACK_OKAY
      /\ Number(SubSeq(d, 3, 6)) = BlockNum
      /\ Number(SubSeq(d, 7, 10)) = BlockLen
<1> DEFINE s == AddrBytes(BlockNum)
           t == AddrBytes(BlockLen)
           x == s \o t
           d == Data(x)
<1>1. /\ BlockNum \in Nat /\ BlockNum <= LongMax
      /\ BlockLen \in Nat /\ BlockLen <= LongMax
  BY NaturalBounds
<1>2. /\ s \in Seq(Byte) /\ Len(s) = 4 /\ Number(s) = BlockNum
      /\ t \in Seq(Byte) /\ Len(t) = 4 /\ Number(t) = BlockLen
  BY <1>1, AddressBytes
<1>3. s \in Seq(Symbol) /\ t \in Seq(Symbol)
  BY <1>2, BytesAreSymbols
<1> HIDE DEF s, t
<1>4. x \in Seq(Byte)
  BY <1>2, ConcatProperties
<1>5. Len(x) = 8 /\ (\A k \in 1 .. 4 : x[k] = s[k]) /\ (\A k \in 1 .. 4 : x[4 + k] = t[k])
  <2>1. /\ Len(x) = Len(s) + Len(t)
        /\ \A k \in 1 .. Len(s) : x[k] = s[k]
        /\ \A k \in 1 .. Len(t) : x[Len(s) + k] = t[k]
    BY <1>3, Joined
  <2> HIDE DEF x
  <2> QED
    BY <1>2, <2>1
<1> HIDE DEF x
<1>6. /\ d \in Seq(Symbol) /\ Len(d) = 3 + Len(x) /\ d[1] = ACK_OKAY
      /\ \A k \in 1 .. Len(x) : d[2 + k] = x[k]
  BY <1>4, DataShape
<1> HIDE DEF d
<1>7. Len(d) = 11
  BY <1>5, <1>6
<1>8. SubSeq(d, 3, 6) = s
  <2>1. \A k \in 1 .. 4 : k \in 1 .. 8
    OBVIOUS
  <2>2. 2 \in Nat /\ 2 + Len(s) <= Len(d) /\ \A k \in 1 .. Len(s) : d[2 + k] = s[k]
    BY <1>2, <1>5, <1>6, <1>7, <2>1
  <2>3. SubSeq(d, 2 + 1, 2 + Len(s)) = s
    BY <1>3, <1>6, <2>2, PartIs
  <2>4. 2 + 1 = 3 /\ 2 + Len(s) = 6
    BY <1>2
  <2> QED
    BY <2>3, <2>4
<1>9. SubSeq(d, 7, 10) = t
  <2>1. \A k \in 1 .. 4 : 4 + k \in 1 .. 8 /\ 2 + (4 + k) = 6 + k
    OBVIOUS
  <2>2. \A k \in 1 .. 4 : d[6 + k] = t[k]
    BY <1>5, <1>6, <2>1
  <2>3. 6 \in Nat /\ 6 + Len(t) <= Len(d) /\ \A k \in 1 .. Len(t) : d[6 + k] = t[k]
    BY <1>2, <1>7, <2>2
  <2>4. SubSeq(d, 6 + 1, 6 + Len(t)) = t
    BY <1>3, <1>6, <2>3, PartIs
  <2>5. 6 + 1 = 7 /\ 6 + Len(t) = 10
    BY <1>2
  <2> QED
    BY <2>4, <2>5
<1> QED
  BY <1>2, <1>6, <1>7, <1>8, <1>9 DEF d, x, s, t

(* How long an answer to c is that begins with q.                          *)
AnswerLen(c, q) == IF q # ACK_OKAY \/ c.op = "wr" THEN 2 ELSE 3 + c.len

LEMMA AnswerShape ==
  ASSUME SameLengths, NEW c \in Calls, NEW b \in Images, NEW a, MayAnswer(c, a, b)
  PROVE  /\ a \in Seq(Symbol) /\ a # <<>>
         /\ Len(a) = AnswerLen(c, a[1])
<1>1. CASE c.op = "wr"
  <2>1. a = Failed \/ a = <<ACK_OKAY, NL>>
    BY <1>1 DEF MayAnswer
  <2>2. /\ <<ACK_OKAY, NL>> \in Seq(Symbol) /\ Len(<<ACK_OKAY, NL>>) = 2
    BY ShortOnes, Codes
  <2>3. a \in Seq(Symbol) /\ Len(a) = 2
    BY <2>1, <2>2, FailedShape
  <2>4. a # <<>>
    BY <2>3
  <2> QED
    BY <1>1, <2>3, <2>4 DEF AnswerLen
<1>2. CASE c.op = "rd"
  <2>1. CASE a = Failed
    <3>1. a # <<>>
      BY <2>1, FailedShape
    <3> QED
      BY <2>1, <3>1, FailedShape, Codes DEF AnswerLen
  <2>2. CASE c.addr < BlockNum /\ a = Data(b[c.addr])
    <3>1. c.addr \in 0 .. BlockNum - 1 /\ c.len = BlockLen
      <4>1. c.addr \in Nat /\ c.len \in Lengths
        BY <1>2, CallShape
      <4>2. BlockNum \in Nat
        BY NaturalBounds
      <4> QED
        BY <2>2, <4>1, <4>2 DEF SameLengths
    <3>2. b[c.addr] \in Seq(Byte) /\ Len(b[c.addr]) = BlockLen
      BY <3>1, BlockShape DEF Images
    <3>3. a \in Seq(Symbol) /\ Len(a) = 3 + BlockLen /\ a[1] = ACK_OKAY
      BY <2>2, <3>2, DataShape
    <3>4. a # <<>>
      BY <3>3, NaturalBounds
    <3> QED
      BY <1>2, <3>1, <3>3, <3>4 DEF AnswerLen
  <2> QED
    BY <1>2, <2>1, <2>2 DEF MayAnswer
<1>3. CASE c.op \notin {"wr", "rd"}
  <2>1. a = Data(AddrBytes(BlockNum) \o AddrBytes(BlockLen))
    BY <1>3 DEF MayAnswer
  <2>2. a \in Seq(Symbol) /\ Len(a) = 11 /\ a[1] = ACK_OKAY
    BY <2>1, ConfShape
  <2>3. a # <<>>
    BY <2>2
  <2>4. c.op \in {"num", "len"}
    BY <1>3, CallShape
  <2>5. c.len = 8
    BY <2>4, CallShape
  <2> QED
    BY <1>3, <2>2, <2>3, <2>5 DEF AnswerLen
<1> QED
  BY <1>1, <1>2, <1>3

(* The driver stops taking the answer when it has all of it, never before. *)
LEMMA WantedIsAll ==
  ASSUME SameLengths, NEW c \in Calls, NEW b \in Images, NEW a, MayAnswer(c, a, b),
         NEW g, NEW y, NEW z, Spread(a, g, y, z), Len(g) = Wanted(c, g)
  PROVE  g = a /\ y = <<>> /\ z = <<>>
<1>1. a \in Seq(Symbol) /\ a # <<>> /\ Len(a) = AnswerLen(c, a[1])
  BY AnswerShape
<1>2. /\ g \in Seq(Symbol) /\ Len(g) <= Len(a)
      /\ \A k \in 1 .. Len(g) : g[k] = a[k]
      /\ Len(g) = Len(a) => g = a /\ y = <<>> /\ z = <<>>
  BY <1>1, SpreadPrefix
<1>3. g # <<>>
  BY DEF Wanted
<1>4. Head(g) = a[1]
  <2>1. Len(g) \in Nat /\ Len(g) # 0 /\ Head(g) = g[1]
    BY <1>2, <1>3, LenProperties, EmptySeq, HeadTailProperties
  <2>2. 1 \in 1 .. Len(g)
    BY <2>1
  <2> QED
    BY <1>2, <2>1, <2>2
<1>5. Wanted(c, g) = AnswerLen(c, a[1])
  BY <1>3, <1>4 DEF Wanted, AnswerLen
<1> QED
  BY <1>1, <1>2, <1>5

-----------------------------------------------------------------------------
(* The invariant is kept                                                   *)

LEMMA InitIInv == Init => IInv
BY DEF Init, IInv, Idle, Images, Block

LEMMA BeginKeeps ==
  ASSUME IInv, NEW c \in Calls, Begin(c)
  PROVE  IInv'
<1>1. Idle
  BY NoCallAssumption DEF IInv, Begin, Asking, Answering
<1>2. Request(c) \in Seq(Symbol)
  BY RequestShape DEF IsLine
<1>3. Spread(Request(c), <<>>, <<>>, Request(c))
  BY <1>2, SpreadStart
<1>4. Asking'
  BY <1>1, <1>3 DEF Begin, disk, Idle, Asking
<1> QED
  BY <1>4 DEF IInv, Begin, disk

LEMMA PutKeeps == IInv /\ Put => IInv'
<1> SUFFICES ASSUME IInv, Put PROVE IInv'
  OBVIOUS
<1>1. Asking
  BY DEF IInv, Put, Idle, Answering
<1>2. call \in Calls /\ Spread(Request(call), line, toDisk, out) /\ out # <<>>
  BY <1>1 DEF Asking, Put
<1>3. Request(call) \in Seq(Symbol)
  BY <1>2, RequestShape DEF IsLine
<1>4. Spread(Request(call), line, Append(toDisk, Head(out)), Tail(out))
  BY <1>2, <1>3, SpreadOut
<1>5. Asking'
  BY <1>1, <1>4 DEF Asking, Put, disk
<1> QED
  BY <1>5 DEF IInv, Put, disk

LEMMA ReadSymbolKeeps == IInv /\ ReadSymbol => IInv'
<1> SUFFICES ASSUME IInv, ReadSymbol PROVE IInv'
  OBVIOUS
<1>1. Asking
  BY DEF IInv, ReadSymbol, Idle, Answering
<1>2. call \in Calls /\ Spread(Request(call), line, toDisk, out) /\ toDisk # <<>>
  BY <1>1 DEF Asking, ReadSymbol
<1>3. Request(call) \in Seq(Symbol)
  BY <1>2, RequestShape DEF IsLine
<1>4. Spread(Request(call), Append(line, Head(toDisk)), Tail(toDisk), out)
  BY <1>2, <1>3, SpreadIn
<1>5. Asking'
  BY <1>1, <1>4 DEF Asking, ReadSymbol, driver
<1> QED
  BY <1>5 DEF IInv, ReadSymbol, driver

(* The answer the disk or the driver is at.                                *)
LEMMA AnswerUnderWay ==
  ASSUME SameLengths, IInv, Answering
  PROVE  /\ call \in Calls
         /\ \E a \in Seq(Symbol) : /\ MayAnswer(call, a, image)
                                   /\ Spread(a, got, toDriver, reply)
<1>1. call \in Calls /\ image \in Images
  BY DEF IInv, Answering
<1>2. PICK a : MayAnswer(call, a, image) /\ Spread(a, got, toDriver, reply)
  BY DEF Answering
<1>3. a \in Seq(Symbol)
  BY <1>1, <1>2, AnswerShape
<1> QED
  BY <1>1, <1>2, <1>3

LEMMA GetKeeps == SameLengths /\ IInv /\ Get => IInv'
<1> SUFFICES ASSUME SameLengths, IInv, Get PROVE IInv'
  OBVIOUS
<1>1. Answering
  BY DEF IInv, Get, Idle, Asking
<1>2. PICK a \in Seq(Symbol) : MayAnswer(call, a, image) /\ Spread(a, got, toDriver, reply)
  BY <1>1, AnswerUnderWay
<1>3. Spread(a, Append(got, Head(toDriver)), Tail(toDriver), reply)
  BY <1>2, SpreadIn DEF Get
<1>4. Answering'
  BY <1>1, <1>2, <1>3 DEF Answering, Get, disk
<1> QED
  BY <1>4 DEF IInv, Get, disk

LEMMA SendSymbolKeeps == SameLengths /\ IInv /\ SendSymbol => IInv'
<1> SUFFICES ASSUME SameLengths, IInv, SendSymbol PROVE IInv'
  OBVIOUS
<1>1. Answering
  BY DEF IInv, SendSymbol, Idle, Asking
<1>2. PICK a \in Seq(Symbol) : MayAnswer(call, a, image) /\ Spread(a, got, toDriver, reply)
  BY <1>1, AnswerUnderWay
<1>3. Spread(a, got, Append(toDriver, Head(reply)), Tail(reply))
  BY <1>2, SpreadOut DEF SendSymbol
<1>4. Answering'
  BY <1>1, <1>2, <1>3 DEF Answering, SendSymbol, driver
<1> QED
  BY <1>4 DEF IInv, SendSymbol, driver

(* The driver returns or tries again when it has the answer, all of it and *)
(* nothing else.                                                           *)
LEMMA AnsweredInFull ==
  ASSUME SameLengths, IInv, Answered
  PROVE  /\ Answering
         /\ MayAnswer(call, got, image)
         /\ toDriver = <<>> /\ reply = <<>>
<1>1. Answering
  <2>1. ~Idle
    BY DEF Answered, Idle
  <2>2. ~Asking
    BY EmptySeq DEF Answered, Asking, Wanted
  <2> QED
    BY <2>1, <2>2 DEF IInv
<1>2. PICK a \in Seq(Symbol) : MayAnswer(call, a, image) /\ Spread(a, got, toDriver, reply)
  BY <1>1, AnswerUnderWay
<1>3. call \in Calls /\ image \in Images /\ Len(got) = Wanted(call, got)
  BY <1>1 DEF IInv, Answering, Answered
<1>4. got = a /\ toDriver = <<>> /\ reply = <<>>
  BY <1>2, <1>3, WantedIsAll
<1> QED
  BY <1>1, <1>2, <1>4

LEMMA ReturnKeeps ==
  ASSUME SameLengths, IInv, Answered, NEW ok, NEW value, Return(ok, value)
  PROVE  IInv'
<1>1. Answering /\ toDriver = <<>> /\ reply = <<>>
  BY AnsweredInFull
<1>2. Idle'
  BY <1>1 DEF Answering, Idle, Return, disk
<1> QED
  BY <1>2 DEF IInv, Return, disk

LEMMA RetryKeeps == SameLengths /\ IInv /\ Retry => IInv'
<1> SUFFICES ASSUME SameLengths, IInv, Retry PROVE IInv'
  OBVIOUS
<1>1. Answering /\ toDriver = <<>> /\ reply = <<>>
  BY AnsweredInFull DEF Retry
<1>2. Request(call) \in Seq(Symbol)
  BY <1>1, RequestShape DEF IsLine, Answering
<1>3. Spread(Request(call), <<>>, <<>>, Request(call))
  BY <1>2, SpreadStart
<1>4. Asking'
  BY <1>1, <1>3 DEF Answering, Asking, Retry, disk
<1> QED
  BY <1>4 DEF IInv, Retry, disk

(* The disk serves a request when it has all of it.                        *)
LEMMA RequestInFull ==
  ASSUME IInv, LineRead
  PROVE  /\ Asking
         /\ line = Request(call)
         /\ toDisk = <<>> /\ out = <<>>
<1> DEFINE r == Request(call)
<1>1. Asking
  BY DEF IInv, LineRead, Idle, Answering
<1>2. call \in Calls /\ Spread(r, line, toDisk, out)
  BY <1>1 DEF Asking
<1>3. IsLine(r)
  BY <1>2, RequestShape
<1> HIDE DEF r
<1>4. /\ r \in Seq(Symbol)
      /\ \A k \in 1 .. Len(r) : r[k] = NL <=> k = Len(r)
  BY <1>3 DEF IsLine
<1>5. /\ line \in Seq(Symbol) /\ Len(line) <= Len(r)
      /\ \A k \in 1 .. Len(line) : line[k] = r[k]
      /\ Len(line) = Len(r) => toDisk = <<>> /\ out = <<>> /\ line = r
  BY <1>2, <1>4, SpreadPrefix
<1>6. line # <<>> /\ line[Len(line)] = NL
  BY DEF LineRead
<1>7. Len(line) \in 1 .. Len(line) /\ Len(line) \in 1 .. Len(r)
  BY <1>4, <1>5, <1>6, LenProperties, EmptySeq
<1>8. Len(line) = Len(r)
  BY <1>4, <1>5, <1>6, <1>7
<1> QED
  BY <1>1, <1>5, <1>8 DEF r

LEMMA AckKeeps ==
  ASSUME SameLengths, IInv, LineRead,
         NEW a, NEW b \in Images, MayAnswer(call, a, b), Ack(a, b)
  PROVE  IInv'
<1>1. Asking /\ toDisk = <<>> /\ out = <<>>
  BY RequestInFull
<1>2. a \in Seq(Symbol)
  BY <1>1, AnswerShape DEF Asking
<1>3. Spread(a, <<>>, <<>>, a)
  BY <1>2, SpreadStart
<1>4. Answering'
  BY <1>1, <1>3 DEF Asking, Answering, Ack, driver
<1> QED
  BY <1>4 DEF IInv, Ack

(* Which request the disk takes a line for.                                *)
LEMMA RequestKind ==
  ASSUME IInv, LineRead
  PROVE  /\ call \in Calls
         /\ line[1] = REQ_CONF => call.op \notin {"wr", "rd"}
         /\ line[1] = REQ_RD => call.op = "rd" /\ LineAddr = call.addr
         /\ line[1] = REQ_WR => call.op = "wr" /\ LineAddr = call.addr /\ LineData = call.data
<1>1. call \in Calls /\ line = Request(call)
  BY RequestInFull DEF Asking
<1>2. /\ call.op = "wr" => /\ line[1] = REQ_WR
                           /\ SubSeq(line, 3, 6) = AddrBytes(call.addr)
                           /\ LineData = call.data
      /\ call.op = "rd" => /\ line[1] = REQ_RD
                           /\ SubSeq(line, 3, 6) = AddrBytes(call.addr)
      /\ call.op \notin {"wr", "rd"} => line[1] = REQ_CONF
  BY <1>1, RequestShape DEF LineData
<1>3. call.op \in {"wr", "rd"} => Number(AddrBytes(call.addr)) = call.addr
  BY <1>1, CallShape, AddressBytes
<1>4. line[1] = REQ_CONF => call.op \notin {"wr", "rd"}
  BY <1>2, Codes
<1>5. line[1] = REQ_RD => call.op = "rd"
  BY <1>2, Codes
<1>6. line[1] = REQ_WR => call.op = "wr"
  BY <1>2, Codes
<1> QED
  BY <1>1, <1>2, <1>3, <1>4, <1>5, <1>6 DEF LineAddr

LEMMA ServeConfAnswers ==
  ASSUME IInv, ServeConf
  PROVE  \E a : MayAnswer(call, a, image) /\ Ack(a, image)
<1> DEFINE a == Data(AddrBytes(BlockNum) \o AddrBytes(BlockLen))
<1>1. LineRead /\ line[1] = REQ_CONF /\ Ack(a, image)
  BY DEF ServeConf
<1>2. call.op \notin {"wr", "rd"}
  BY <1>1, RequestKind
<1>3. MayAnswer(call, a, image)
  BY <1>2 DEF MayAnswer
<1> QED
  BY <1>1, <1>3

LEMMA ServeRdAnswers ==
  ASSUME IInv, ServeRd
  PROVE  \E a : MayAnswer(call, a, image) /\ Ack(a, image)
<1>1. LineRead /\ line[1] = REQ_RD
  BY DEF ServeRd
<1>2. call.op = "rd" /\ LineAddr = call.addr
  BY <1>1, RequestKind
<1>3. CASE Ack(Failed, image)
  <2>1. MayAnswer(call, Failed, image)
    BY <1>2 DEF MayAnswer
  <2> QED
    BY <1>3, <2>1
<1>4. CASE LineAddr < BlockNum /\ Ack(Data(image[LineAddr]), image)
  <2>1. MayAnswer(call, Data(image[call.addr]), image)
    BY <1>2, <1>4 DEF MayAnswer
  <2> QED
    BY <1>2, <1>4, <2>1
<1> QED
  BY <1>3, <1>4 DEF ServeRd

(* A block written in full holds the data, one written in part a mixture.  *)
LEMMA TornBlock ==
  ASSUME NEW x \in Block, NEW y \in Block, NEW n \in 0 .. BlockLen
  PROVE  /\ Torn(x, y, n) \in Block
         /\ n = BlockLen => Torn(x, y, n) = x
<1>1. BlockLen \in Nat
  BY NaturalBounds
<1>2. ASSUME NEW i \in 1 .. BlockLen
      PROVE  (IF i <= n THEN x[i] ELSE y[i]) \in Bytes
  BY DEF Block
<1>3. Torn(x, y, n) \in Block
  BY <1>2 DEF Torn, Block
<1>4. ASSUME n = BlockLen
      PROVE  Torn(x, y, n) = x
  <2>1. \A i \in 1 .. BlockLen : i <= n
    BY <1>1, <1>4
  <2> QED
    BY <2>1 DEF Torn, Block
<1> QED
  BY <1>3, <1>4

(* What a write does to the blocks is a step of the abstract device.       *)
LEMMA ServeWrAnswers ==
  ASSUME IInv, ServeWr
  PROVE  \E a : \E b \in Images :
           /\ MayAnswer(call, a, b)
           /\ Ack(a, b)
           /\ b = image \/ Device!Store
<1> DEFINE A == call.addr
           D == call.data
           T(n) == [image EXCEPT ![A] = Torn(D, @, n)]
<1>1. LineRead /\ line[1] = REQ_WR /\ image \in Images
  BY DEF ServeWr, IInv
<1>2. call \in Calls /\ call.op = "wr" /\ LineAddr = A /\ LineData = D
  BY <1>1, RequestKind
<1>3. \A a, b : (\/ a = Failed
                 \/ A < BlockNum /\ b[A] = D /\ a = <<ACK_OKAY, NL>>) => MayAnswer(call, a, b)
  BY <1>2 DEF MayAnswer
<1>4. CASE Ack(Failed, image)
  BY <1>1, <1>3, <1>4
<1>5. CASE /\ A < BlockNum /\ Len(D) = BlockLen
           /\ \E n \in 0 .. BlockLen :
                Ack(IF n = BlockLen THEN <<ACK_OKAY, NL>> ELSE Failed, T(n))
  <2>1. PICK n \in 0 .. BlockLen :
               Ack(IF n = BlockLen THEN <<ACK_OKAY, NL>> ELSE Failed, T(n))
    BY <1>5
  <2>2. A \in 0 .. BlockNum - 1
    <3>1. A \in Nat /\ BlockNum \in Nat
      BY <1>2, CallShape, NaturalBounds
    <3> QED
      BY <1>5, <3>1
  <2>3. D \in Block
    BY <1>2, <1>5, CallShape DEF Block
  <2>4. image[A] \in Block
    BY <1>1, <2>2 DEF Images
  <2>5. Torn(D, image[A], n) \in Block /\ (n = BlockLen => Torn(D, image[A], n) = D)
    BY <2>3, <2>4, TornBlock
  <2>6. T(n) \in Images /\ T(n)[A] = Torn(D, image[A], n)
    BY <1>1, <2>2, <2>5 DEF Images
  <2>7. MayAnswer(call, IF n = BlockLen THEN <<ACK_OKAY, NL>> ELSE Failed, T(n))
    <3>1. CASE n = BlockLen
      BY <1>3, <1>5, <2>5, <2>6, <3>1
    <3>2. CASE n # BlockLen
      BY <1>3, <3>2
    <3> QED
      BY <3>1, <3>2
  <2>8. Device!Store
    <3>1. call # NoCall
      BY <1>2, NoCallAssumption
    <3>2. Device!Stored(call)
      BY <1>5, <2>2 DEF Device!Stored
    <3>3. image' = [image EXCEPT ![call.addr] = Device!Torn(call.data, @, n)]
      BY <2>1 DEF Ack, Torn, Device!Torn
    <3>4. UNCHANGED <<call, answer>>
      BY <2>1 DEF Ack, driver
    <3> QED
      BY <1>2, <3>1, <3>2, <3>3, <3>4 DEF Device!Store
  <2> QED
    BY <2>1, <2>6, <2>7, <2>8
<1> QED
  BY <1>2, <1>4, <1>5 DEF ServeWr

(* Every call of the driver is one of Calls.                               *)
LEMMA BegunInCalls ==
  ASSUME disk_get_block_num \/ disk_get_block_len \/ disk_wr \/ disk_rd
  PROVE  \E c \in Calls : Begin(c)
<1>1. CASE disk_get_block_num
  <2>1. Called("num", 0, <<>>, 8) \in Calls
    BY DEF Calls
  <2> QED
    BY <1>1, <2>1 DEF disk_get_block_num
<1>2. CASE disk_get_block_len
  <2>1. Called("len", 0, <<>>, 8) \in Calls
    BY DEF Calls
  <2> QED
    BY <1>2, <2>1 DEF disk_get_block_len
<1>3. CASE disk_wr
  <2>1. PICK a \in Addrs, n \in Lengths : \E x \in [1 .. n -> Bytes] : Begin(Called("wr", a, x, n))
    BY <1>3 DEF disk_wr
  <2>2. PICK x \in [1 .. n -> Bytes] : Begin(Called("wr", a, x, n))
    BY <2>1
  <2>3. Called("wr", a, x, n) \in {Called("wr", d, y, n) : d \in Addrs, y \in [1 .. n -> Bytes]}
    OBVIOUS
  <2>4. Called("wr", a, x, n) \in Calls
    BY <2>3 DEF Calls
  <2> QED
    BY <2>2, <2>4
<1>4. CASE disk_rd
  <2>1. PICK a \in Addrs, n \in Lengths : Begin(Called("rd", a, <<>>, n))
    BY <1>4 DEF disk_rd
  <2>2. Called("rd", a, <<>>, n) \in Calls
    BY DEF Calls
  <2> QED
    BY <2>1, <2>2
<1> QED
  BY <1>1, <1>2, <1>3, <1>4

LEMMA NextKeepsIInv == SameLengths /\ IInv /\ [Next]_vars => IInv'
<1> SUFFICES ASSUME SameLengths, IInv, [Next]_vars PROVE IInv'
  OBVIOUS
<1>1. CASE disk_get_block_num \/ disk_get_block_len \/ disk_wr \/ disk_rd
  <2>1. PICK c \in Calls : Begin(c)
    BY <1>1, BegunInCalls
  <2> QED
    BY <2>1, BeginKeeps
<1>6. CASE Put
  BY <1>6, PutKeeps
<1>7. CASE Get
  BY <1>7, GetKeeps
<1>8. CASE Succeed
  BY <1>8, ReturnKeeps DEF Succeed
<1>9. CASE Retry
  BY <1>9, RetryKeeps
<1>10. CASE GiveUp
  BY <1>10, ReturnKeeps DEF GiveUp
<1>11. CASE ReadSymbol
  BY <1>11, ReadSymbolKeeps
<1>12. CASE ServeConf
  <2>1. LineRead /\ image \in Images
    BY <1>12 DEF ServeConf, IInv
  <2> QED
    BY <1>12, <2>1, ServeConfAnswers, AckKeeps
<1>13. CASE ServeWr
  <2>1. LineRead
    BY <1>13 DEF ServeWr
  <2> QED
    BY <1>13, <2>1, ServeWrAnswers, AckKeeps
<1>14. CASE ServeRd
  <2>1. LineRead /\ image \in Images
    BY <1>14 DEF ServeRd, IInv
  <2> QED
    BY <1>14, <2>1, ServeRdAnswers, AckKeeps
<1>15. CASE SendSymbol
  BY <1>15, SendSymbolKeeps
<1>16. CASE UNCHANGED vars
  BY <1>16 DEF vars, driver, disk, IInv, Idle, Asking, Answering
<1> QED
  BY <1>1, <1>6, <1>7, <1>8, <1>9, <1>10, <1>11, <1>12, <1>13, <1>14, <1>15,
     <1>16 DEF Next, DriverStep, DiskStep

(* Between two calls nothing is on its way, whatever the disk refused:     *)
(* what the driver of disk.c takes for the answer to a request is the      *)
(* answer disk.py gave to it.                                              *)
THEOREM AnswersStayInStep ==
  ASSUME SameLengths
  PROVE  Spec => []InStep
<1>1. Init => IInv
  BY InitIInv
<1>2. IInv /\ [Next]_vars => IInv'
  BY NextKeepsIInv
<1>3. IInv => InStep
  BY NoCallAssumption DEF IInv, Idle, Asking, Answering, InStep
<1> QED
  BY <1>1, <1>2, <1>3, PTL DEF Spec

-----------------------------------------------------------------------------
(* Driver and disk implement the block device                              *)

(* What the driver makes of an answer.                                     *)
LEMMA AnswerMeans ==
  ASSUME SameLengths, NEW c \in Calls, NEW b \in Images, NEW a, MayAnswer(c, a, b)
  PROVE  /\ a[1] # ACK_OKAY => c.op \in {"wr", "rd"}
         /\ a[1] = ACK_OKAY =>
              /\ c.op = "wr" => /\ Device!Stored(c) /\ b[c.addr] = c.data
                                /\ Value(c, a) = <<>>
              /\ c.op = "rd" => c.addr \in 0 .. BlockNum - 1 /\ Value(c, a) = b[c.addr]
              /\ c.op = "num" => Value(c, a) = <<BlockNum>>
              /\ c.op = "len" => Value(c, a) = <<BlockLen>>
<1>1. CASE c.op = "wr"
  <2>1. a[1] = ACK_OKAY => c.addr < BlockNum /\ b[c.addr] = c.data
    BY <1>1, FailedShape, Codes DEF MayAnswer
  <2>2. c.addr \in Nat /\ Len(c.data) = BlockLen
    BY <1>1, CallShape DEF SameLengths
  <2>3. c.addr < BlockNum => Device!Stored(c)
    BY <2>2 DEF Device!Stored
  <2>4. Value(c, a) = <<>>
    BY <1>1 DEF Value
  <2> QED
    BY <1>1, <2>1, <2>3, <2>4
<1>2. CASE c.op = "rd"
  <2>1. a[1] = ACK_OKAY => c.addr < BlockNum /\ a = Data(b[c.addr])
    BY <1>2, FailedShape, Codes DEF MayAnswer
  <2>2. c.addr \in Nat /\ c.len = BlockLen /\ BlockNum \in Nat
    BY <1>2, CallShape, NaturalBounds DEF SameLengths
  <2>3. c.addr < BlockNum => c.addr \in 0 .. BlockNum - 1
    BY <2>2
  <2>4. c.addr < BlockNum => b[c.addr] \in Seq(Byte) /\ Len(b[c.addr]) = BlockLen
    BY <2>3, BlockShape DEF Images
  <2>5. a[1] = ACK_OKAY => SubSeq(a, 3, 2 + BlockLen) = b[c.addr]
    BY <2>1, <2>4, DataShape
  <2>6. Value(c, a) = SubSeq(a, 3, 2 + c.len)
    BY <1>2 DEF Value
  <2> QED
    BY <1>2, <2>1, <2>2, <2>3, <2>5, <2>6
<1>3. CASE c.op \in {"num", "len"}
  <2>1. a = Data(AddrBytes(BlockNum) \o AddrBytes(BlockLen))
    BY <1>3 DEF MayAnswer
  <2>2. /\ a[1] = ACK_OKAY
        /\ Number(SubSeq(a, 3, 6)) = BlockNum
        /\ Number(SubSeq(a, 7, 10)) = BlockLen
    BY <2>1, ConfShape
  <2>3. c.op = "num" => Value(c, a) = <<Number(SubSeq(a, 3, 6))>>
    BY DEF Value
  <2>4. c.op = "len" => Value(c, a) = <<Number(SubSeq(a, 7, 10))>>
    BY DEF Value
  <2> QED
    BY <1>3, <2>2, <2>3, <2>4
<1> QED
  BY <1>1, <1>2, <1>3, CallShape

(* The answer the driver has, when it has all of it.                       *)
LEMMA AnsweredWith ==
  ASSUME SameLengths, IInv, Answered
  PROVE  /\ call \in Calls /\ call # NoCall /\ image \in Images
         /\ MayAnswer(call, got, image)
         /\ Head(got) = got[1]
<1>1. /\ call \in Calls /\ image \in Images
      /\ MayAnswer(call, got, image)
  BY AnsweredInFull DEF Answering, IInv
<1>2. got \in Seq(Symbol) /\ got # <<>>
  BY <1>1, AnswerShape
<1> QED
  BY <1>1, <1>2, HeadTailProperties, NoCallAssumption

LEMMA SucceedIsSucceed == SameLengths /\ IInv /\ Succeed => Device!Succeed
<1> SUFFICES ASSUME SameLengths, IInv, Succeed PROVE Device!Succeed
  OBVIOUS
<1> DEFINE v == Value(call, got)
<1>1. /\ call \in Calls /\ call # NoCall /\ image \in Images
      /\ MayAnswer(call, got, image)
      /\ got[1] = ACK_OKAY
  BY AnsweredWith DEF Succeed
<1>2. /\ call.op = "wr" => Device!Stored(call) /\ image[call.addr] = call.data /\ v = <<>>
      /\ call.op = "rd" => call.addr \in 0 .. BlockNum - 1 /\ v = image[call.addr]
      /\ call.op = "num" => v = <<BlockNum>>
      /\ call.op = "len" => v = <<BlockLen>>
  BY <1>1, AnswerMeans
<1> HIDE DEF v
<1>3. answer' = [ok |-> TRUE, value |-> v] /\ call' = NoCall /\ UNCHANGED image
  BY DEF Succeed, Return, disk, v
<1>4. DOMAIN image = 0 .. BlockNum - 1
  BY <1>1 DEF Images
<1>5. CASE call.op = "wr"
  BY <1>1, <1>2, <1>3, <1>5 DEF Device!Succeed
<1>6. CASE call.op = "rd"
  BY <1>1, <1>2, <1>3, <1>4, <1>6 DEF Device!Succeed
<1>7. CASE call.op = "num"
  BY <1>1, <1>2, <1>3, <1>7 DEF Device!Succeed
<1>8. CASE call.op = "len"
  BY <1>1, <1>2, <1>3, <1>8 DEF Device!Succeed
<1> QED
  BY <1>1, <1>5, <1>6, <1>7, <1>8, CallShape

LEMMA GiveUpIsFail == SameLengths /\ IInv /\ GiveUp => Device!Fail
<1> SUFFICES ASSUME SameLengths, IInv, GiveUp PROVE Device!Fail
  OBVIOUS
<1>1. /\ call \in Calls /\ call # NoCall /\ image \in Images
      /\ MayAnswer(call, got, image)
      /\ got[1] # ACK_OKAY
  BY AnsweredWith DEF GiveUp
<1>2. call.op \in {"wr", "rd"}
  BY <1>1, AnswerMeans
<1>3. answer' = [ok |-> FALSE, value |-> <<>>] /\ call' = NoCall /\ UNCHANGED image
  BY DEF GiveUp, Return, disk
<1> QED
  BY <1>1, <1>2, <1>3 DEF Device!Fail

LEMMA BeginIsAsk ==
  ASSUME NEW c \in Calls, Begin(c)
  PROVE  Device!Ask
BY DEF Begin, disk, Device!Ask

LEMMA NextIsNext == SameLengths /\ IInv /\ [Next]_vars => [Device!Next]_<<image, call, answer>>
<1> DEFINE same == UNCHANGED <<image, call, answer>>
<1> SUFFICES ASSUME SameLengths, IInv, [Next]_vars PROVE Device!Next \/ same
  OBVIOUS
<1>1. CASE disk_get_block_num \/ disk_get_block_len \/ disk_wr \/ disk_rd
  <2>1. PICK c \in Calls : Begin(c)
    BY <1>1, BegunInCalls
  <2> QED
    BY <2>1, BeginIsAsk DEF Device!Next
<1>2. CASE Put \/ Get \/ Retry \/ ReadSymbol \/ SendSymbol \/ UNCHANGED vars
  BY <1>2 DEF Put, Get, Retry, ReadSymbol, SendSymbol, vars, driver, disk
<1>3. CASE Succeed
  BY <1>3, SucceedIsSucceed DEF Device!Next
<1>4. CASE GiveUp
  BY <1>4, GiveUpIsFail DEF Device!Next
<1>5. CASE ServeConf \/ ServeRd
  <2>1. PICK a : MayAnswer(call, a, image) /\ Ack(a, image)
    BY <1>5, ServeConfAnswers, ServeRdAnswers
  <2> QED
    BY <2>1 DEF Ack, driver
<1>6. CASE ServeWr
  <2>1. PICK a : \E b \in Images : /\ MayAnswer(call, a, b) /\ Ack(a, b)
                                   /\ b = image \/ Device!Store
    BY <1>6, ServeWrAnswers
  <2>2. PICK b \in Images : Ack(a, b) /\ (b = image \/ Device!Store)
    BY <2>1
  <2> QED
    BY <2>2 DEF Ack, driver, Device!Next
<1> QED
  BY <1>1, <1>2, <1>3, <1>4, <1>5, <1>6 DEF Next, DriverStep, DiskStep

(* Driver and disk are a block device (disk.h:8-19): what they do to the   *)
(* blocks and what the calls of disk.c return is what BlockDevice allows.  *)
THEOREM DriverIsBlockDevice ==
  ASSUME SameLengths
  PROVE  Spec => IsBlockDevice
<1>1. Init => Device!Init
  BY DEF Init, Device!Init, Device!Block
<1>2. Init => IInv
  BY InitIInv
<1>3. IInv /\ [Next]_vars => IInv'
  BY NextKeepsIInv
<1>4. IInv /\ [Next]_vars => [Device!Next]_<<image, call, answer>>
  BY NextIsNext
<1> QED
  BY <1>1, <1>2, <1>3, <1>4, PTL DEF Spec, IsBlockDevice, Device!Spec

=============================================================================
