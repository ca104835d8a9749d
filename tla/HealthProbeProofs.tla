------------------------- MODULE HealthProbeProofs -------------------------
(***************************************************************************)
(* Proofs about AddressRules, for every address and every spelling of it,  *)
(* and about HealthProbe, for any listings, any number of workers, any cap *)
(* and any chunks.                                                         *)
(***************************************************************************)
EXTENDS HealthProbe, SequenceTheorems, TLAPS

----------------------------------------------------------------------------
(* Addresses                                                               *)

\* For IPv4 the tests on octets are the table of blocks.
THEOREM Verdict4 ==
  ASSUME NEW o \in Octets
  PROVE  Blocked4(o) <=> ~Public4(o)
<1> USE DEF Octets
<1>1. o[1] \in 0 .. 255 /\ o[2] \in 0 .. 255
  OBVIOUS
<1>2. \A f, t : InBlock(o, Block(<<>>, f, t)) <=> o[1] >= f /\ o[1] <= t
  BY DEF Block, InBlock
<1>3. \A p, f, t : InBlock(o, Block(<<p>>, f, t)) <=> o[1] = p /\ o[2] >= f /\ o[2] <= t
  BY DEF Block, InBlock
<1>4. Public4(o) <=>
        /\ ~InBlock(o, Block(<<>>, 0, 0)) /\ ~InBlock(o, Block(<<>>, 10, 10))
        /\ ~InBlock(o, Block(<<>>, 127, 127)) /\ ~InBlock(o, Block(<<169>>, 254, 254))
        /\ ~InBlock(o, Block(<<172>>, 16, 31)) /\ ~InBlock(o, Block(<<192>>, 168, 168))
        /\ ~InBlock(o, Block(<<100>>, 64, 127)) /\ ~InBlock(o, Block(<<198>>, 18, 19))
        /\ ~InBlock(o, Block(<<>>, 224, 255))
  BY DEF Public4, Reserved4
<1>5. Public4(o) <=>
        /\ ~(o[1] >= 0 /\ o[1] <= 0) /\ ~(o[1] >= 10 /\ o[1] <= 10)
        /\ ~(o[1] >= 127 /\ o[1] <= 127) /\ ~(o[1] = 169 /\ o[2] >= 254 /\ o[2] <= 254)
        /\ ~(o[1] = 172 /\ o[2] >= 16 /\ o[2] <= 31)
        /\ ~(o[1] = 192 /\ o[2] >= 168 /\ o[2] <= 168)
        /\ ~(o[1] = 100 /\ o[2] >= 64 /\ o[2] <= 127)
        /\ ~(o[1] = 198 /\ o[2] >= 18 /\ o[2] <= 19) /\ ~(o[1] >= 224 /\ o[1] <= 255)
  BY <1>2, <1>3, <1>4
<1> QED BY <1>1, <1>5 DEF Blocked4

\* A group is an integer below 2^16.
LEMMA GroupRange ==
  ASSUME NEW g \in Group
  PROVE  g \in Int /\ g >= 0 /\ g <= 65535
<1>1. g \in Int /\ g >= 0 /\ g <= LastGroup
  <2>1. LastGroup \in Int
    BY SMT DEF LastGroup
  <2> QED BY <2>1, SMT DEF Group
<1> QED BY <1>1, SMT DEF LastGroup

\* A group holds two octets.
LEMMA Divide ==
  ASSUME NEW g \in Int, NEW d \in {64, 256, 512}
  PROVE  /\ g \div d \in Int /\ g % d \in Int /\ g % d >= 0 /\ g % d < d
         /\ g = d * (g \div d) + (g % d)
<1>1. CASE d = 64  BY <1>1, Z3
<1>2. CASE d = 256 BY <1>2, Z3
<1>3. CASE d = 512 BY <1>3, Z3
<1> QED BY <1>1, <1>2, <1>3

\* Both halves of a group are octets.
LEMMA TwoOctets ==
  ASSUME NEW g \in Group
  PROVE  g \div 256 \in 0 .. 255 /\ g % 256 \in 0 .. 255
<1> DEFINE q == g \div 256
           r == g % 256
<1>1. q \in Int /\ r \in Int /\ r >= 0 /\ r < 256 /\ g = 256 * q + r
  BY GroupRange, Divide
<1> HIDE DEF q, r
<1>2. q \in 0 .. 255 /\ r \in 0 .. 255
  BY <1>1, GroupRange, Z3
<1> QED BY <1>2 DEF q, r

\* Two groups hold an IPv4 address.
LEMMA V4Octets ==
  ASSUME NEW hi \in Group, NEW lo \in Group
  PROVE  V4(hi, lo) \in Octets
<1>1. /\ hi \div 256 \in 0 .. 255 /\ hi % 256 \in 0 .. 255
      /\ lo \div 256 \in 0 .. 255 /\ lo % 256 \in 0 .. 255
  BY TwoOctets
<1> QED BY <1>1 DEF V4, Octets

\* To mask the last bits of a group is to ask for an interval.
LEMMA Masks ==
  ASSUME NEW g \in Group
  PROVE  /\ Masked(g, 64) = 65152 <=> g >= 65152 /\ g <= 65215
         /\ Masked(g, 512) = 64512 <=> g >= 64512 /\ g <= 65023
         /\ Masked(g, 256) = 65280 <=> g >= 65280 /\ g <= 65535
<1>1. Masked(g, 64) = 65152 <=> g >= 65152 /\ g <= 65215
  <2> DEFINE q == g \div 64
             r == g % 64
  <2>1. q \in Int /\ r \in Int /\ r >= 0 /\ r < 64 /\ g = 64 * q + r
    BY GroupRange, Divide
  <2> HIDE DEF q, r
  <2>2. (g - r = 65152) <=> g >= 65152 /\ g <= 65215
    BY <2>1, GroupRange, Z3
  <2>3. Masked(g, 64) = g - r
    BY Zenon DEF r, Masked
  <2> QED BY <2>2, <2>3
<1>2. Masked(g, 512) = 64512 <=> g >= 64512 /\ g <= 65023
  <2> DEFINE q == g \div 512
             r == g % 512
  <2>1. q \in Int /\ r \in Int /\ r >= 0 /\ r < 512 /\ g = 512 * q + r
    BY GroupRange, Divide
  <2> HIDE DEF q, r
  <2>2. (g - r = 64512) <=> g >= 64512 /\ g <= 65023
    BY <2>1, GroupRange, Z3
  <2>3. Masked(g, 512) = g - r
    BY Zenon DEF r, Masked
  <2> QED BY <2>2, <2>3
<1>3. Masked(g, 256) = 65280 <=> g >= 65280 /\ g <= 65535
  <2> DEFINE q == g \div 256
             r == g % 256
  <2>1. q \in Int /\ r \in Int /\ r >= 0 /\ r < 256 /\ g = 256 * q + r
    BY GroupRange, Divide
  <2> HIDE DEF q, r
  <2>2. (g - r = 65280) <=> g >= 65280 /\ g <= 65535
    BY <2>1, GroupRange, Z3
  <2>3. Masked(g, 256) = g - r
    BY Zenon DEF r, Masked
  <2> QED BY <2>2, <2>3
<1> QED BY <1>1, <1>2, <1>3

\* For IPv6 the tests on groups are the table of blocks, and an address that
\* stands for an IPv4 address is refused exactly with it.
THEOREM Verdict6 ==
  ASSUME NEW h \in Groups
  PROVE  Blocked6(h) <=> ~Public6(h)
<1>1. \A i \in 1 .. 8 : h[i] \in Group
  BY DEF Groups
<1>2. \A f, t : InBlock(h, Block(<<>>, f, t)) <=> h[1] >= f /\ h[1] <= t
  BY DEF Block, InBlock
<1>3. ASSUME NEW p, NEW q, NEW r, NEW x, NEW y, NEW f, NEW t
      PROVE  InBlock(h, Block(<<p, q, r, x, y>>, f, t)) <=>
               /\ h[1] = p /\ h[2] = q /\ h[3] = r /\ h[4] = x /\ h[5] = y
               /\ h[6] >= f /\ h[6] <= t
  <2> DEFINE b == Block(<<p, q, r, x, y>>, f, t)
  <2>1. b.prefix = <<p, q, r, x, y>> /\ b.from = f /\ b.to = t
    BY DEF Block
  <2>2. Len(b.prefix) = 5
    BY <2>1
  <2>3. (\A i \in 1 .. 5 : h[i] = b.prefix[i]) <=>
          h[1] = p /\ h[2] = q /\ h[3] = r /\ h[4] = x /\ h[5] = y
    BY <2>1
  <2> HIDE DEF b
  <2>4. InBlock(h, b) <=>
          (\A i \in 1 .. 5 : h[i] = b.prefix[i]) /\ h[5 + 1] >= b.from /\ h[5 + 1] <= b.to
    BY <2>2 DEF InBlock
  <2> QED BY <2>1, <2>3, <2>4 DEF b
<1>4. InBlock(h, Block(<<0, 0, 0, 0, 0, 0, 0>>, 0, 1)) <=>
        Zeros(h, 7) /\ h[8] >= 0 /\ h[8] <= 1
  <2> DEFINE b == Block(<<0, 0, 0, 0, 0, 0, 0>>, 0, 1)
  <2>1. b.prefix = <<0, 0, 0, 0, 0, 0, 0>> /\ b.from = 0 /\ b.to = 1
    BY DEF Block
  <2>2. Len(b.prefix) = 7
    BY <2>1
  <2>3. (\A i \in 1 .. 7 : h[i] = b.prefix[i]) <=> Zeros(h, 7)
    <3>1. \A i \in 1 .. 7 : b.prefix[i] = 0
      BY <2>1
    <3> QED BY <3>1 DEF Zeros
  <2> HIDE DEF b
  <2>4. InBlock(h, b) <=>
          (\A i \in 1 .. 7 : h[i] = b.prefix[i]) /\ h[7 + 1] >= b.from /\ h[7 + 1] <= b.to
    BY <2>2 DEF InBlock
  <2> QED BY <2>1, <2>3, <2>4 DEF b
<1>5. /\ V4(h[7], h[8]) \in Octets
      /\ V4(h[2], h[3]) \in Octets
  BY <1>1, V4Octets
<1>6. /\ Blocked4(V4(h[7], h[8])) <=> ~Public4(V4(h[7], h[8]))
      /\ Blocked4(V4(h[2], h[3])) <=> ~Public4(V4(h[2], h[3]))
  BY <1>5, Verdict4
<1>7. /\ Masked(h[1], 64) = 65152 <=> h[1] >= 65152 /\ h[1] <= 65215
      /\ Masked(h[1], 512) = 64512 <=> h[1] >= 64512 /\ h[1] <= 65023
      /\ Masked(h[1], 256) = 65280 <=> h[1] >= 65280 /\ h[1] <= 65535
  BY <1>1, Masks
<1>8. Public6(h) <=>
        /\ ~InBlock(h, Block(<<0, 0, 0, 0, 0, 0, 0>>, 0, 1))
        /\ ~InBlock(h, Block(<<>>, 65152, 65215))
        /\ ~InBlock(h, Block(<<>>, 64512, 65023))
        /\ ~InBlock(h, Block(<<>>, 65280, 65535))
        /\ InBlock(h, Block(<<0, 0, 0, 0, 0>>, 0, 0)) => Public4(V4(h[7], h[8]))
        /\ InBlock(h, Block(<<0, 0, 0, 0, 0>>, 65535, 65535)) => Public4(V4(h[7], h[8]))
        /\ InBlock(h, Block(<<100, 65435, 0, 0, 0>>, 0, 0)) => Public4(V4(h[7], h[8]))
        /\ InBlock(h, Block(<<>>, 8194, 8194)) => Public4(V4(h[2], h[3]))
  BY DEF Public6, Reserved6, Embedding
<1>9. Public6(h) <=>
        /\ ~(Zeros(h, 7) /\ h[8] >= 0 /\ h[8] <= 1)
        /\ ~(h[1] >= 65152 /\ h[1] <= 65215)
        /\ ~(h[1] >= 64512 /\ h[1] <= 65023)
        /\ ~(h[1] >= 65280 /\ h[1] <= 65535)
        /\ Zeros(h, 5) /\ h[6] >= 0 /\ h[6] <= 0 => Public4(V4(h[7], h[8]))
        /\ Zeros(h, 5) /\ h[6] >= 65535 /\ h[6] <= 65535 => Public4(V4(h[7], h[8]))
        /\ /\ h[1] = 100 /\ h[2] = 65435 /\ h[3] = 0 /\ h[4] = 0 /\ h[5] = 0
           /\ h[6] >= 0 /\ h[6] <= 0
           => Public4(V4(h[7], h[8]))
        /\ h[1] >= 8194 /\ h[1] <= 8194 => Public4(V4(h[2], h[3]))
  <2>1. Zeros(h, 5) <=> h[1] = 0 /\ h[2] = 0 /\ h[3] = 0 /\ h[4] = 0 /\ h[5] = 0
    BY DEF Zeros
  <2> QED BY <1>2, <1>3, <1>4, <1>8, <2>1, SMTT(40)
<1>10. Blocked6(h) <=>
        \/ Zeros(h, 7) /\ h[8] \in {0, 1}
        \/ Zeros(h, 5) /\ h[6] \in {0, 65535} /\ ~Public4(V4(h[7], h[8]))
        \/ /\ h[1] = 100 /\ h[2] = 65435 /\ h[3] = 0 /\ h[4] = 0 /\ h[5] = 0 /\ h[6] = 0
           /\ ~Public4(V4(h[7], h[8]))
        \/ h[1] = 8194 /\ ~Public4(V4(h[2], h[3]))
        \/ h[1] >= 65152 /\ h[1] <= 65215
        \/ h[1] >= 64512 /\ h[1] <= 65023
        \/ h[1] >= 65280 /\ h[1] <= 65535
  <2>1. (\A i \in 3 .. 6 : h[i] = 0) <=> h[3] = 0 /\ h[4] = 0 /\ h[5] = 0 /\ h[6] = 0
    OBVIOUS
  <2> QED BY <1>6, <1>7, <2>1 DEF Blocked6
<1>11. /\ h[1] \in Int /\ h[6] \in Int /\ h[8] \in Int
  BY <1>1, GroupRange
<1> QED BY <1>9, <1>10, <1>11

\* Eight groups are a sequence of eight.
LEMMA GroupsAreSeq ==
  ASSUME NEW h \in Groups
  PROVE  h \in Seq(Group) /\ Len(h) = 8
<1>1. h \in [1 .. 8 -> Group] /\ 8 \in Nat
  BY DEF Groups
<1>2. h \in Seq(Group)
  BY <1>1, SeqDef
<1> QED BY <1>1, <1>2, LenProperties

\* Zeros between the groups before them and the groups after them.
LEMMA Rejoined ==
  ASSUME NEW h \in Groups, NEW i \in 1 .. 9, NEW j \in i - 1 .. 8,
         \A k \in i .. j : h[k] = 0
  PROVE  LET head == SubSeq(h, 1, i - 1)
             tail == SubSeq(h, j + 1, 8)
         IN  head \o [k \in 1 .. 8 - Len(head) - Len(tail) |-> 0] \o tail = h
<1> DEFINE head == SubSeq(h, 1, i - 1)
           tail == SubSeq(h, j + 1, 8)
           zeros == [k \in 1 .. j - i + 1 |-> 0]
<1>1. h \in Seq(Group) /\ Len(h) = 8
  BY GroupsAreSeq
<1>2. \A k \in 1 .. 8 : h[k] \in Group
  BY DEF Groups
<1>3. /\ Len(head) = i - 1
      /\ Len(tail) = 8 - j
  BY <1>1, <1>2, SubSeqProperties
<1>4. zeros = SubSeq(h, i, j)
  <2>1. 0 \in Group
    <3>1. LastGroup \in Int /\ LastGroup >= 0
      BY SMT DEF LastGroup
    <3> QED BY <3>1, SMT DEF Group
  <2>2. j - i + 1 \in Nat OBVIOUS
  <2>3. zeros \in [1 .. j - i + 1 -> Group] BY <2>1
  <2>4. zeros \in Seq(Group)
    BY <2>2, <2>3, SeqDef
  <2>5. Len(zeros) = j - i + 1
    BY <2>2, <2>3, <2>4, LenProperties
  <2>6. /\ SubSeq(h, i, j) \in Seq(Group)
        /\ Len(SubSeq(h, i, j)) = j - i + 1
        /\ \A k \in 1 .. j - i + 1 : SubSeq(h, i, j)[k] = h[i + k - 1]
    BY <1>2, SubSeqProperties
  <2>7. \A k \in 1 .. j - i + 1 : zeros[k] = SubSeq(h, i, j)[k]
    BY <2>6
  <2> HIDE DEF zeros
  <2> QED BY <2>4, <2>5, <2>6, <2>7, SeqEqual
<1>5. SubSeq(h, 1, i - 1) \o SubSeq(h, i, j) = SubSeq(h, 1, j)
  <2>1. 1 \in 1 .. Len(h) + 1 /\ i - 1 \in 1 - 1 .. Len(h) /\ j \in i - 1 .. Len(h)
    BY <1>1
  <2>2. SubSeq(h, 1, i - 1) \o SubSeq(h, (i - 1) + 1, j) = SubSeq(h, 1, j)
    BY <1>1, <2>1, ConcatAdjacentSubSeq
  <2>3. (i - 1) + 1 = i
    OBVIOUS
  <2> QED BY <2>2, <2>3
<1>6. SubSeq(h, 1, j) \o SubSeq(h, j + 1, 8) = h
  <2>1. 1 \in 1 .. Len(h) + 1 /\ j \in 1 - 1 .. Len(h) /\ 8 \in j .. Len(h)
    BY <1>1
  <2>2. SubSeq(h, 1, j) \o SubSeq(h, j + 1, 8) = SubSeq(h, 1, 8)
    BY <1>1, <2>1, ConcatAdjacentSubSeq
  <2> QED BY <1>1, <2>2, SubSeqFull
<1>7. 8 - Len(head) - Len(tail) = j - i + 1
  BY <1>3
<1>8. head \o zeros \o tail = h
  BY <1>4, <1>5, <1>6
<1> QED BY <1>7, <1>8

\* However an address is spelled, the code reads the groups that are meant.
THEOREM EverySpellingRead ==
  ASSUME NEW h \in Groups, NEW s \in Spellings(h)
  PROVE  Expand(s) = h
<1>1. h \in Seq(Group) /\ Len(h) = 8 /\ \A k \in 1 .. 8 : h[k] \in Group
  BY GroupsAreSeq DEF Groups
<1>2. ASSUME NEW n \in {6, 8}, NEW quad, s \in Spelled(h, n, quad),
             NEW last, last = SubSeq(h, n + 1, 8),
             last = IF quad = <<>> THEN <<>>
                    ELSE <<256 * quad[1] + quad[2], 256 * quad[3] + quad[4]>>
      PROVE  Expand(s) = h
  <2>1. ASSUME NEW i \in 1 .. n + 1, NEW j \in i - 1 .. n, \A k \in i .. j : h[k] = 0,
               s = [head |-> SubSeq(h, 1, i - 1), tail |-> SubSeq(h, j + 1, n), quad |-> quad]
        PROVE  Expand(s) = h
    <3>1. s.tail \o last = SubSeq(h, j + 1, 8)
      <4>1. j + 1 \in 1 .. Len(h) + 1 /\ n \in (j + 1) - 1 .. Len(h) /\ 8 \in n .. Len(h)
        BY <1>1
      <4>2. SubSeq(h, j + 1, n) \o SubSeq(h, n + 1, 8) = SubSeq(h, j + 1, 8)
        BY <1>1, <4>1, ConcatAdjacentSubSeq
      <4> QED BY <1>2, <2>1, <4>2
    <3>2. s.quad = quad
      BY <2>1
    <3>3. s.head = SubSeq(h, 1, i - 1)
      BY <2>1
    <3>4. i \in 1 .. 9 /\ j \in i - 1 .. 8
      OBVIOUS
    <3>5. Expand(s) = s.head \o [k \in 1 .. 8 - Len(s.head) - Len(s.tail \o last) |-> 0]
                             \o (s.tail \o last)
      BY <1>2, <3>2, ZenonT(60) DEF Expand
    <3> QED BY <2>1, <3>1, <3>3, <3>4, <3>5, Rejoined
  <2>2. CASE s = [head |-> SubSeq(h, 1, n), tail |-> <<>>, quad |-> quad]
    <3>1. SubSeq(h, n + 1, n) = <<>>
      BY SubSeqEmpty
    <3>2. n + 1 \in 1 .. n + 1 /\ n \in (n + 1) - 1 .. n /\ (n + 1) - 1 = n
      OBVIOUS
    <3>3. s = [head |-> SubSeq(h, 1, (n + 1) - 1), tail |-> SubSeq(h, n + 1, n), quad |-> quad]
      BY <2>2, <3>1, <3>2
    <3>4. \A k \in n + 1 .. n : h[k] = 0
      OBVIOUS
    <3> QED BY <2>1, <3>2, <3>3, <3>4
  <2>3. ASSUME NEW r \in Runs(h, n),
               s = [head |-> SubSeq(h, 1, r[1] - 1), tail |-> SubSeq(h, r[2] + 1, n),
                    quad |-> quad]
        PROVE  Expand(s) = h
    <3>1. /\ r[1] \in 1 .. n + 1 /\ r[2] \in r[1] - 1 .. n
          /\ \A k \in r[1] .. r[2] : h[k] = 0
      BY <2>3 DEF Runs
    <3> QED BY <2>1, <2>3, <3>1
  <2> QED BY <1>2, <2>2, <2>3 DEF Spelled
<1>3. CASE s \in Spelled(h, 8, <<>>)
  <2>1. SubSeq(h, 8 + 1, 8) = <<>>
    BY SubSeqEmpty
  <2> QED BY <1>2, <1>3, <2>1
<1>4. CASE s \in Spelled(h, 6, V4(h[7], h[8]))
  <2> DEFINE quad == V4(h[7], h[8])
             last == <<256 * quad[1] + quad[2], 256 * quad[3] + quad[4]>>
  <2>1. quad # <<>>
    BY DEF V4
  <2>2. last = <<h[7], h[8]>>
    <3>1. ASSUME NEW g \in Group PROVE 256 * (g \div 256) + (g % 256) = g
      BY GroupRange, Divide
    <3>2. /\ quad[1] = h[7] \div 256 /\ quad[2] = h[7] % 256
          /\ quad[3] = h[8] \div 256 /\ quad[4] = h[8] % 256
      BY DEF V4
    <3>3. h[7] \in Group /\ h[8] \in Group
      BY <1>1
    <3>4. 256 * quad[1] + quad[2] = h[7]
      BY <3>1, <3>2, <3>3
    <3>5. 256 * quad[3] + quad[4] = h[8]
      BY <3>1, <3>2, <3>3
    <3> QED BY <3>4, <3>5
  <2>3. last = SubSeq(h, 6 + 1, 8)
    <3>1. /\ SubSeq(h, 7, 8) \in Seq(Group) /\ Len(SubSeq(h, 7, 8)) = 2
          /\ SubSeq(h, 7, 8)[1] = h[7] /\ SubSeq(h, 7, 8)[2] = h[8]
      BY <1>1, SubSeqProperties
    <3>2. <<h[7], h[8]>> \in Seq(Group)
      BY <1>1
    <3> QED BY <2>2, <3>1, <3>2, SeqEqual
  <2> HIDE DEF quad
  <2>4. s \in Spelled(h, 6, quad)
    BY <1>4 DEF quad
  <2> QED BY <1>2, <2>1, <2>3, <2>4, ZenonT(60)
<1> QED BY <1>3, <1>4 DEF Spellings

\* The verdict on an address in whatever spelling is the one that is meant.
THEOREM VerdictExact ==
  ASSUME NEW a, IsAddress(a)
  PROVE  Blocked(a) <=> ~PublicAddress(a)
<1>1. CASE a.value \in Octets /\ a \in Addresses4(a.value)
  BY <1>1, Verdict4 DEF Addresses4, Blocked, PublicAddress
<1>2. CASE a.value \in Groups /\ a \in Addresses6(a.value)
  <2>1. a.family = 6 /\ a.spelled \in Spellings(a.value)
    BY <1>2 DEF Addresses6
  <2>2. Expand(a.spelled) = a.value
    BY <1>2, <2>1, EverySpellingRead
  <2> QED BY <1>2, <2>1, <2>2, Verdict6 DEF Blocked, PublicAddress
<1> QED BY <1>1, <1>2 DEF IsAddress

----------------------------------------------------------------------------
(* Probes: the inductive invariant                                         *)

Probe  == [pc : Points, judged : BOOLEAN, fetched : BOOLEAN, received : Kept, said : Sayings]
Result == {"missing", "null", "sick", "healthy"}

\* What is known of one probe: where it is, what was judged and sent, and what
\* the body and the result say go together.
ProbeFits(url, p, result) ==
  /\ p.pc \in {"waiting", "begun", "resolving"} => ~p.judged
  /\ p.pc \in {"fetching", "reading"} => p.fetched
  /\ p.fetched => p.judged
  /\ p.judged => (p.fetched <=> Safe(url))
  /\ p.pc # "over" => p.said = "nothing" /\ p.received <= Cap
  /\ p.pc = "over" <=> result # "missing"
  /\ p.said # "nothing" => p.fetched /\ p.received <= Cap
  /\ result = "healthy" <=> p.said = "healthy"

\* No worker rests while listings wait.
PoolInv ==
  /\ next = 0 => \A i \in Indices : probe[i].pc = "waiting"
  /\ next # 0 => \A i \in Indices : probe[i].pc = "waiting" <=> i >= next
  /\ next \in Indices => \A w \in Workers : item[w] # 0
  /\ \A v, w \in Workers : item[v] = item[w] /\ item[v] # 0 => v = w
  /\ \A i \in Indices :
       probe[i].pc \notin {"waiting", "over"} <=> \E w \in Workers : item[w] = i

Inv == /\ TypeOK
       /\ PoolInv
       /\ \A i \in Indices : ProbeFits(urls[i], probe[i], results[i])

----------------------------------------------------------------------------

\* The list has a length, and its indices.
LEMMA ListFacts ==
  ASSUME TypeOK
  PROVE  Len(urls) \in Nat /\ Indices = 1 .. Len(urls)
  BY ProbeAssumption DEF TypeOK, Indices

\* What is kept of a body stays within the cap and one chunk.
LEMMA KeptFacts ==
  /\ \A r \in Kept : r \in Nat
  /\ \A r \in Kept, n \in ChunkSizes : r <= Cap => r + n \in Kept
  /\ 0 \in Kept
<1>1. Cap \in Nat /\ \A n \in ChunkSizes : n \in Nat
  BY ProbeAssumption
<1>2. \A r \in Kept : r \in Nat
  BY <1>1 DEF Kept
<1>3. \A r \in Kept : r <= Cap => r \in 0 .. Cap
  BY <1>1, <1>2
<1>4. 0 \in 0 .. Cap /\ 0 + 0 = 0
  BY <1>1
<1>5. 0 \in Kept
  BY <1>4 DEF Kept
<1> QED BY <1>2, <1>3, <1>5 DEF Kept

\* Initially nothing is handed out.
LEMMA InitInv == Init => Inv
<1> SUFFICES ASSUME Init PROVE Inv
  OBVIOUS
<1>1. TypeOK
  BY KeptFacts, ProbeAssumption DEF Init, TypeOK, Points, Sayings, Indices
<1>2. PoolInv
  BY <1>1, ListFacts DEF Init, PoolInv
<1>3. \A i \in Indices : ProbeFits(urls[i], probe[i], results[i])
  BY ProbeAssumption DEF Init, ProbeFits
<1> QED BY <1>1, <1>2, <1>3 DEF Inv

\* A step within one probe.
LEMMA AwaitStep ==
  ASSUME Inv, NEW w \in Workers, item[w] # 0, NEW p \in Probe, Await(w, p),
         p.pc \notin {"waiting", "over"}, ProbeFits(urls[item[w]], p, results[item[w]])
  PROVE  Inv'
<1>1. item[w] \in Indices /\ Indices' = Indices
  BY DEF Inv, TypeOK, Await, Indices
<1>2. TypeOK'
  BY <1>1 DEF Inv, TypeOK, Await, Probe, Indices
<1>3. probe[item[w]].pc \notin {"waiting", "over"}
  BY <1>1 DEF Inv, PoolInv
<1>4. \A i \in Indices : probe'[i] = IF i = item[w] THEN p ELSE probe[i]
  BY <1>1 DEF Inv, TypeOK, Await
<1>5. PoolInv'
  BY <1>1, <1>3, <1>4 DEF Inv, PoolInv, Await
<1>6. \A i \in Indices : ProbeFits(urls[i], probe'[i], results[i])
  BY <1>4 DEF Inv
<1>7. (\A i \in Indices : ProbeFits(urls[i], probe[i], results[i]))'
  BY <1>1, <1>6 DEF Await, ProbeFits, Safe
<1> QED BY <1>2, <1>5, <1>7 DEF Inv

\* A probe that ends, and the next one that its worker begins.
LEMMA ReturnStep ==
  ASSUME Inv, NEW w \in Workers, item[w] # 0, NEW p \in Probe,
         NEW result \in Result \ {"missing"}, Return(w, p, result),
         ProbeFits(urls[item[w]], [p EXCEPT !.pc = "over"], result)
  PROVE  Inv'
<1> DEFINE ended == [p EXCEPT !.pc = "over"]
<1>1. item[w] \in Indices /\ Indices' = Indices
  BY DEF Inv, TypeOK, Return, Indices
<1>2. ended \in Probe /\ ended.pc = "over"
  BY DEF Probe, Points
<1>3. probe[item[w]].pc \notin {"waiting", "over"}
  BY <1>1 DEF Inv, PoolInv
<1>4. next # 0
  BY <1>1, <1>3 DEF Inv, PoolInv
<1>5. \A i \in Indices : results'[i] = IF i = item[w] THEN result ELSE results[i]
  BY <1>1 DEF Inv, TypeOK, Return
<1>6. results' \in [Indices -> Result] /\ urls' = urls
  BY <1>1 DEF Inv, TypeOK, Return, Result
<1>7. CASE next \in Indices
  <2>1. next # item[w] /\ probe[next].pc = "waiting"
    BY <1>3, <1>7, ListFacts DEF Inv, PoolInv, TypeOK
  <2>2. /\ item' = [item EXCEPT ![w] = next]
        /\ next' = next + 1
        /\ probe' = [[probe EXCEPT ![item[w]] = ended] EXCEPT ![next].pc = "begun"]
    BY <1>7 DEF Return, NextIndex
  <2>3. \A i \in Indices : probe'[i] = IF i = item[w] THEN ended
                                       ELSE IF i = next THEN [probe[i] EXCEPT !.pc = "begun"]
                                       ELSE probe[i]
    BY <1>1, <1>7, <2>1, <2>2 DEF Inv, TypeOK
  <2>4. TypeOK'
    <3>1. probe' \in [Indices -> Probe]
      BY <1>1, <1>2, <1>7, <2>2 DEF Inv, TypeOK, Probe, Points
    <3>2. next' \in 0 .. Len(urls') + 1
      BY <1>6, <1>7, <2>2, ListFacts DEF Inv
    <3>3. item' \in [Workers -> {0} \cup Indices]
      BY <1>7, <2>2 DEF Inv, TypeOK
    <3> QED BY <1>1, <1>6, <3>1, <3>2, <3>3 DEF Inv, TypeOK, Probe, Result
  <2>5. PoolInv'
    <3>1. \A i \in Indices : probe'[i].pc = IF i = item[w] THEN "over"
                                            ELSE IF i = next THEN "begun" ELSE probe[i].pc
      <4>1. ASSUME NEW i \in Indices PROVE [probe[i] EXCEPT !.pc = "begun"].pc = "begun"
        <5>1. probe[i] \in Probe
          BY DEF Inv, TypeOK, Probe
        <5> QED BY <5>1 DEF Probe
      <4> HIDE DEF ended
      <4> QED BY <1>2, <2>3, <4>1
    <3>2. \A v \in Workers : item'[v] = IF v = w THEN next ELSE item[v]
      BY <2>2 DEF Inv, TypeOK
    <3>3. \A v \in Workers : item[v] # next
      BY <1>7, <2>1 DEF Inv, PoolInv
    <3>4. next' # 0 /\ \A i \in Indices : probe'[i].pc = "waiting" <=> i >= next'
      <4>1. /\ next \in 1 .. Len(urls) /\ Len(urls) \in Nat /\ Indices = 1 .. Len(urls)
            /\ next' = next + 1
        BY <1>7, <2>2, ListFacts DEF Inv
      <4>2. \A i \in Indices : probe[i].pc = "waiting" <=> i >= next
        BY <1>4 DEF Inv, PoolInv
      <4>3. \A i \in Indices : i >= next' <=> i >= next /\ i # next
        BY <4>1
      <4>4. \A i \in Indices : probe'[i].pc = "waiting" <=> i >= next /\ i # next
        BY <1>3, <3>1, <4>2
      <4> QED BY <4>1, <4>3, <4>4
    <3>5. \A v \in Workers : item'[v] # 0
      BY <1>4, <1>7, <3>2 DEF Inv, PoolInv
    <3>6. \A u, v \in Workers : item'[u] = item'[v] /\ item'[u] # 0 => u = v
      BY <3>2, <3>3 DEF Inv, PoolInv
    <3>7. \A i \in Indices :
            probe'[i].pc \notin {"waiting", "over"} <=> \E v \in Workers : item'[v] = i
      BY <2>1, <3>1, <3>2, <3>3 DEF Inv, PoolInv
    <3> QED BY <1>1, <3>4, <3>5, <3>6, <3>7 DEF PoolInv
  <2>6. ProbeFits(urls[next], [probe[next] EXCEPT !.pc = "begun"], results[next])
    BY <1>7, <2>1 DEF Inv, ProbeFits, TypeOK
  <2>7. \A i \in Indices : ProbeFits(urls[i], probe'[i], results'[i])
    BY <1>5, <2>1, <2>3, <2>6 DEF Inv
  <2>8. (\A i \in Indices : ProbeFits(urls[i], probe[i], results[i]))'
    BY <1>1, <1>6, <2>7 DEF ProbeFits, Safe
  <2> QED BY <2>4, <2>5, <2>8 DEF Inv
<1>8. CASE next \notin Indices
  <2>1. /\ item' = [item EXCEPT ![w] = 0]
        /\ next' = next
        /\ probe' = [probe EXCEPT ![item[w]] = ended]
    BY <1>8 DEF Return
  <2>2. \A i \in Indices : probe'[i] = IF i = item[w] THEN ended ELSE probe[i]
    BY <1>1, <2>1 DEF Inv, TypeOK
  <2>3. TypeOK'
    BY <1>1, <1>2, <1>6, <2>1 DEF Inv, TypeOK, Probe, Result
  <2>4. PoolInv'
    <3>1. \A i \in Indices : probe'[i].pc = IF i = item[w] THEN "over" ELSE probe[i].pc
      BY <1>2, <2>2
    <3>2. \A v \in Workers : item'[v] = IF v = w THEN 0 ELSE item[v]
      BY <2>1 DEF Inv, TypeOK
    <3>3. \A i \in Indices : i # 0
      BY ListFacts DEF Inv
    <3> QED BY <1>1, <1>3, <1>4, <1>8, <2>1, <3>1, <3>2, <3>3 DEF Inv, PoolInv
  <2>5. \A i \in Indices : ProbeFits(urls[i], probe'[i], results'[i])
    BY <1>5, <2>2 DEF Inv
  <2>6. (\A i \in Indices : ProbeFits(urls[i], probe[i], results[i]))'
    BY <1>1, <1>6, <2>5 DEF ProbeFits, Safe
  <2> QED BY <2>3, <2>4, <2>6 DEF Inv
<1> QED BY <1>7, <1>8

\* The workers take the first listings.
LEMMA StartStep ==
  ASSUME Inv, Start
  PROVE  Inv'
<1> DEFINE n == IF Limit < Len(urls) THEN Limit ELSE Len(urls)
<1>1. Indices' = Indices /\ urls' = urls /\ results' = results
  BY DEF Start, Indices
<1>2. Limit \in Nat /\ Limit # 0
  BY ProbeAssumption
<1>3. n \in Nat /\ n <= Len(urls) /\ n <= Limit /\ (n < Len(urls) => n = Limit)
  BY <1>2, ListFacts DEF Inv
<1>4. /\ next' = n + 1
      /\ item' = [w \in Workers |-> IF w <= n THEN w ELSE 0]
      /\ probe' = [i \in Indices |-> IF i <= n THEN [probe[i] EXCEPT !.pc = "begun"]
                                     ELSE probe[i]]
  BY DEF Start, NextIndex
<1>5. \A i \in Indices : probe[i].pc = "waiting" /\ probe[i] \in Probe
  BY DEF Start, Inv, PoolInv, TypeOK, Probe
<1> HIDE DEF n
<1>6. Workers = 1 .. Limit /\ Indices = 1 .. Len(urls) /\ Len(urls) \in Nat
  BY ListFacts DEF Inv, Workers
<1>7. TypeOK'
  <2>1. probe' \in [Indices -> Probe]
    BY <1>4, <1>5 DEF Probe, Points
  <2>2. next' \in 0 .. Len(urls) + 1
    BY <1>3, <1>4, <1>6
  <2>3. item' \in [Workers -> {0} \cup Indices]
    BY <1>3, <1>4, <1>6
  <2> QED BY <1>1, <2>1, <2>2, <2>3 DEF Inv, TypeOK, Probe
<1>8. \A i \in Indices : probe'[i].pc = IF i <= n THEN "begun" ELSE "waiting"
  BY <1>4, <1>5 DEF Probe
<1>9. PoolInv'
  <2>1. \A w \in Workers : item'[w] = IF w <= n THEN w ELSE 0
    BY <1>4
  <2>2. next' # 0 /\ \A i \in Indices : probe'[i].pc = "waiting" <=> i >= next'
    BY <1>3, <1>4, <1>6, <1>8
  <2>3. next' \in Indices => \A w \in Workers : item'[w] # 0
    BY <1>2, <1>3, <1>4, <1>6, <2>1
  <2>4. \A v, w \in Workers : item'[v] = item'[w] /\ item'[v] # 0 => v = w
    BY <2>1
  <2>5. ASSUME NEW i \in Indices
        PROVE  probe'[i].pc \notin {"waiting", "over"} <=> \E w \in Workers : item'[w] = i
    <3>1. i # 0 /\ (i <= n => i \in Workers)
      BY <1>2, <1>3, <1>6
    <3> QED BY <1>8, <2>1, <3>1
  <2> QED BY <1>1, <2>2, <2>3, <2>4, <2>5 DEF PoolInv
<1>10. \A i \in Indices : ProbeFits(urls[i], probe'[i], results[i])
  <2>1. ASSUME NEW i \in Indices
        PROVE  ProbeFits(urls[i], [probe[i] EXCEPT !.pc = "begun"], results[i])
    BY <1>5 DEF Inv, ProbeFits, Probe
  <2> QED BY <1>4, <2>1 DEF Inv
<1>11. (\A i \in Indices : ProbeFits(urls[i], probe[i], results[i]))'
  BY <1>1, <1>10 DEF ProbeFits, Safe
<1> QED BY <1>7, <1>9, <1>11 DEF Inv

\* Where a worker is, its probe is of the type and fits.
LEMMA AtPoint ==
  ASSUME Inv, NEW w \in Workers, NEW point, At(w, point)
  PROVE  LET p == probe[item[w]] IN
         /\ item[w] # 0 /\ p \in Probe /\ p.pc = point
         /\ point \notin {"waiting", "over"}
         /\ ProbeFits(urls[item[w]], p, results[item[w]])
<1>1. item[w] \in Indices
  BY DEF Inv, TypeOK, At
<1> QED BY <1>1 DEF Inv, PoolInv, TypeOK, Probe, At

\* The verdict on the addresses, right after the URL or after the lookup.
LEMMA JudgeStep ==
  ASSUME Inv, NEW w \in Workers, At(w, "begun") \/ At(w, "resolving"), Judge(w)
  PROVE  Inv'
<1> DEFINE p == probe[item[w]]
           j == [p EXCEPT !.judged = TRUE]
<1>1. /\ item[w] # 0 /\ p \in Probe
      /\ p.pc \in {"begun", "resolving"}
      /\ ProbeFits(urls[item[w]], p, results[item[w]])
  BY AtPoint
<1> HIDE DEF p
<1>2. CASE Safe(urls[item[w]])
  <2> DEFINE q == [j EXCEPT !.pc = "fetching", !.fetched = TRUE]
  <2>1. Await(w, q)
    BY <1>2 DEF Judge, p
  <2>2. q \in Probe /\ q.pc \notin {"waiting", "over"}
    BY <1>1 DEF Probe, Points
  <2>3. ProbeFits(urls[item[w]], q, results[item[w]])
    BY <1>1, <1>2 DEF ProbeFits, Probe
  <2> QED BY <1>1, <2>1, <2>2, <2>3, AwaitStep
<1>3. CASE ~Safe(urls[item[w]])
  <2>1. Return(w, j, "null")
    BY <1>3 DEF Judge, p
  <2>2. j \in Probe
    BY <1>1 DEF Probe
  <2>3. ProbeFits(urls[item[w]], [j EXCEPT !.pc = "over"], "null")
    BY <1>1, <1>3 DEF ProbeFits, Probe
  <2>4. "null" \in Result \ {"missing"}
    BY DEF Result
  <2> QED BY <1>1, <2>1, <2>2, <2>3, <2>4, ReturnStep
<1> QED BY <1>2, <1>3

\* The ways in which a probe ends without a result.
LEMMA NullStep ==
  ASSUME Inv, NEW w \in Workers,
         At(w, "resolving") \/ At(w, "fetching") \/ At(w, "reading"),
         Return(w, probe[item[w]], "null")
  PROVE  Inv'
<1> DEFINE p == probe[item[w]]
<1>1. /\ item[w] # 0 /\ p \in Probe
      /\ p.pc \in {"resolving", "fetching", "reading"}
      /\ ProbeFits(urls[item[w]], p, results[item[w]])
  BY AtPoint
<1>2. ProbeFits(urls[item[w]], [p EXCEPT !.pc = "over"], "null")
  BY <1>1 DEF ProbeFits, Probe
<1>3. "null" \in Result \ {"missing"}
  BY DEF Result
<1> QED BY <1>1, <1>2, <1>3, ReturnStep

\* Every step of a worker keeps the invariant.
LEMMA WorkerStep ==
  ASSUME Inv, NEW w \in Workers,
         \/ Examine(w) \/ DnsAnswers(w) \/ DnsTimer(w)
         \/ Responds(w) \/ FetchTimer(w) \/ ReadOn(w)
  PROVE  Inv'
<1> DEFINE p == probe[item[w]]
<1>1. CASE Examine(w)
  <2>1. At(w, "begun")
    BY <1>1 DEF Examine
  <2>2. CASE urls[item[w]].kind = "name"
    <3> DEFINE q == [p EXCEPT !.pc = "resolving"]
    <3>1. Await(w, q)
      BY <1>1, <2>2 DEF Examine
    <3>2. /\ item[w] # 0 /\ p \in Probe /\ p.pc = "begun"
          /\ ProbeFits(urls[item[w]], p, results[item[w]])
      BY <2>1, AtPoint
    <3> HIDE DEF p
    <3>3. q \in Probe /\ q.pc \notin {"waiting", "over"}
      BY <3>2 DEF Probe, Points
    <3>4. ProbeFits(urls[item[w]], q, results[item[w]])
      BY <3>2 DEF ProbeFits, Probe
    <3> QED BY <3>1, <3>2, <3>3, <3>4, AwaitStep
  <2>3. CASE urls[item[w]].kind # "name"
    BY <1>1, <2>1, <2>3, JudgeStep DEF Examine
  <2> QED BY <2>2, <2>3
<1>2. CASE DnsAnswers(w)
  BY <1>2, JudgeStep DEF DnsAnswers
<1>3. CASE DnsTimer(w)
  BY <1>3, NullStep DEF DnsTimer
<1>4. CASE Responds(w)
  <2>1. At(w, "fetching")
    BY <1>4 DEF Responds
  <2>2. CASE Await(w, [p EXCEPT !.pc = "reading"])
    <3> DEFINE q == [p EXCEPT !.pc = "reading"]
    <3>1. /\ item[w] # 0 /\ p \in Probe /\ p.pc = "fetching"
          /\ ProbeFits(urls[item[w]], p, results[item[w]])
      BY <2>1, AtPoint
    <3>2. Await(w, q)
      BY <2>2
    <3> HIDE DEF p
    <3>3. q \in Probe /\ q.pc \notin {"waiting", "over"}
      BY <3>1 DEF Probe, Points
    <3>4. ProbeFits(urls[item[w]], q, results[item[w]])
      BY <3>1 DEF ProbeFits, Probe
    <3> QED BY <3>1, <3>2, <3>3, <3>4, AwaitStep
  <2>3. CASE Return(w, p, "null")
    BY <2>1, <2>3, NullStep
  <2> QED BY <1>4, <2>2, <2>3 DEF Responds
<1>5. CASE FetchTimer(w)
  BY <1>5, NullStep DEF FetchTimer
<1>6. CASE BodyFails(w)
  BY <1>6, NullStep DEF BodyFails
<1>7. CASE Chunk(w)
  <2>1. /\ item[w] # 0 /\ p \in Probe /\ p.pc = "reading"
        /\ ProbeFits(urls[item[w]], p, results[item[w]])
    BY <1>7, AtPoint DEF Chunk
  <2>2. PICK n \in ChunkSizes :
          LET q == [p EXCEPT !.received = @ + n]
          IN IF TooMuch(p.received, n) THEN Return(w, q, "null") ELSE Await(w, q)
    BY <1>7 DEF Chunk
  <2> DEFINE q == [p EXCEPT !.received = @ + n]
  <2> HIDE DEF p
  <2>3. p.received \in Kept /\ p.received <= Cap
    BY <2>1 DEF Probe, ProbeFits
  <2>4. p.received + n \in Kept
    BY <2>3, KeptFacts
  <2>5. q \in Probe /\ q.received = p.received + n /\ q.pc = "reading"
    BY <2>1, <2>4 DEF Probe
  <2>6. CASE TooMuch(p.received, n)
    <3>1. ProbeFits(urls[item[w]], [q EXCEPT !.pc = "over"], "null")
      BY <2>1 DEF ProbeFits, Probe
    <3>2. "null" \in Result \ {"missing"}
      BY DEF Result
    <3>3. Return(w, q, "null")
      BY <2>2, <2>6
    <3> QED BY <2>1, <2>5, <3>1, <3>2, <3>3, ReturnStep
  <2>7. CASE ~TooMuch(p.received, n)
    <3>1. q.received <= Cap
      <4>1. Cap \in Nat /\ p.received + n \in Nat
        BY <2>4, KeptFacts, ProbeAssumption
      <4> QED BY <2>5, <2>7, <4>1 DEF TooMuch
    <3>2. ProbeFits(urls[item[w]], q, results[item[w]])
      BY <2>1, <2>5, <3>1 DEF ProbeFits, Probe
    <3>3. Await(w, q)
      BY <2>2, <2>7
    <3> QED BY <2>1, <2>5, <3>2, <3>3, AwaitStep
  <2> QED BY <2>6, <2>7
<1>8. CASE BodyEnds(w)
  <2>1. /\ item[w] # 0 /\ p \in Probe /\ p.pc = "reading"
        /\ ProbeFits(urls[item[w]], p, results[item[w]])
    BY <1>8, AtPoint DEF BodyEnds
  <2>2. PICK said \in Sayings \ {"nothing"} :
          Return(w, [p EXCEPT !.said = said], Verdict(said))
    BY <1>8 DEF BodyEnds
  <2> DEFINE q == [p EXCEPT !.said = said]
  <2> HIDE DEF p
  <2>3. q \in Probe
    BY <2>1 DEF Probe
  <2>4. Verdict(said) \in Result \ {"missing"}
    BY DEF Verdict, Sayings, Result
  <2>5. ProbeFits(urls[item[w]], [q EXCEPT !.pc = "over"], Verdict(said))
    BY <2>1, <2>4 DEF ProbeFits, Probe, Verdict
  <2> QED BY <2>1, <2>2, <2>3, <2>4, <2>5, ReturnStep
<1> QED BY <1>1, <1>2, <1>3, <1>4, <1>5, <1>6, <1>7, <1>8 DEF ReadOn

\* So does a step that changes nothing.
LEMMA StutterInv ==
  ASSUME Inv, UNCHANGED vars
  PROVE  Inv'
  BY DEF Inv, TypeOK, PoolInv, ProbeFits, Safe, Indices, vars

\* Every step keeps the invariant.
LEMMA StepInv == Inv /\ [Next]_vars => Inv'
  BY StartStep, WorkerStep, StutterInv DEF Next

\* The invariant holds in every reachable state.
THEOREM InvHolds == Spec => []Inv
  BY InitInv, StepInv, PTL DEF Spec

----------------------------------------------------------------------------
(* The properties.                                                         *)

\* Every variable keeps its type; in particular no more of a body is kept than
\* the cap and one chunk (_readCappedJson).
THEOREM ProbeTypeCorrect == Spec => []TypeOK
<1>1. Inv => TypeOK
  BY DEF Inv
<1> QED BY <1>1, InvHolds, PTL

\* The workers of _mapLimit share any list without a gap or a repetition.
THEOREM PoolCorrect == Spec => []PoolExact
<1>1. Inv => PoolExact
  <2> SUFFICES ASSUME Inv PROVE PoolExact
    OBVIOUS
  <2>1. \A i \in Indices : probe[i].pc = "over" <=> results[i] # "missing"
    BY DEF Inv, ProbeFits
  <2>2. ASSUME AllEnded, NEW i \in Indices PROVE results[i] # "missing"
    <3>1. Limit \in Nat \ {0}
      BY ProbeAssumption
    <3>2. 1 \in Workers /\ item[1] = 0
      BY <2>2, <3>1 DEF AllEnded, Workers
    <3>3. next \notin Indices /\ next # 0
      BY <2>2, <3>2 DEF AllEnded, Inv, PoolInv
    <3>4. next = Len(urls) + 1 /\ ~(i >= next) /\ i # 0
      BY <3>3, ListFacts DEF Inv, TypeOK
    <3>5. probe[i].pc # "waiting"
      BY <3>3, <3>4 DEF Inv, PoolInv
    <3>6. ~\E w \in Workers : item[w] = i
      BY <2>2, <3>4 DEF AllEnded
    <3>7. probe[i].pc = "over"
      BY <3>5, <3>6 DEF Inv, PoolInv
    <3> QED BY <2>1, <3>7
  <2> QED BY <2>1, <2>2 DEF Inv, PoolInv, PoolExact
<1> QED BY <1>1, InvHolds, PTL

\* Whatever the listings name, a request goes out exactly to what is public.
THEOREM OnlyPublicIsFetched == Spec => []FetchedIffPublic
<1>1. Inv => FetchedIffPublic
  <2> SUFFICES ASSUME Inv, NEW i \in Indices
               PROVE  /\ probe[i].fetched => probe[i].judged
                      /\ probe[i].judged =>
                           (probe[i].fetched <=> /\ urls[i].addresses # {}
                                                 /\ \A a \in urls[i].addresses : PublicAddress(a))
    BY DEF FetchedIffPublic
  <2>1. \A a \in urls[i].addresses : IsAddress(a)
    BY ProbeAssumption DEF Inv, TypeOK, Indices
  <2>2. \A a \in urls[i].addresses : Blocked(a) <=> ~PublicAddress(a)
    BY <2>1, VerdictExact
  <2> QED BY <2>2 DEF Inv, ProbeFits, Safe
<1> QED BY <1>1, InvHolds, PTL

\* A provider is returned exactly if it said that it is well.
THEOREM OnlyHealthyIsReturned == Spec => []HealthyIffSaid
<1>1. Inv => HealthyIffSaid
  BY DEF Inv, ProbeFits, HealthyIffSaid
<1> QED BY <1>1, InvHolds, PTL
=============================================================================
