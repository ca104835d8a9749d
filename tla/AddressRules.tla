---------------------------- MODULE AddressRules ----------------------------
(***************************************************************************)
(* lib/src/querier.js: which addresses may be fetched.  An IPv4 address is *)
(* four octets.  An IPv6 address is eight groups, but it comes as somebody *)
(* spelled it: with "::" for a run of zeros, with its end as four octets.  *)
(* The code reads the spelling and tests single groups; PublicAddress says *)
(* what is meant, as a table of blocks.                                    *)
(***************************************************************************)
EXTENDS Integers, Sequences

LastGroup == 65535

Group  == 0 .. LastGroup
Octets == [1 .. 4 -> 0 .. 255]
Groups == [1 .. 8 -> Group]

----------------------------------------------------------------------------
(* The code                                                                *)

\* Mutant: the quad is put in front of the groups after "::".
QuadFirst(s) ==
  LET quad == IF s.quad = <<>> THEN <<>>
              ELSE <<256 * s.quad[1] + s.quad[2], 256 * s.quad[3] + s.quad[4]>>
      tail == quad \o s.tail
      missing == 8 - Len(s.head) - Len(tail)
  IN s.head \o [i \in 1 .. missing |-> 0] \o tail

\* _expandIpv6 for a spelling that net.isIP takes: groups before and after "::",
\* which stands for the groups that are missing, and perhaps four octets last.
\* Where nothing is left out there is no "::" and no tail.
Expand(s) ==
  LET quad == IF s.quad = <<>> THEN <<>>
              ELSE <<256 * s.quad[1] + s.quad[2], 256 * s.quad[3] + s.quad[4]>>
      tail == s.tail \o quad
      missing == 8 - Len(s.head) - Len(tail)
  IN s.head \o [i \in 1 .. missing |-> 0] \o tail

\* _hextetsToV4.
V4(hi, lo) == <<hi \div 256, hi % 256, lo \div 256, lo % 256>>

\* _isBlockedAddress for IPv4.
Blocked4(o) ==
  \/ o[1] \in {0, 10, 127}
  \/ o[1] = 169 /\ o[2] = 254
  \/ o[1] = 172 /\ o[2] >= 16 /\ o[2] <= 31
  \/ o[1] = 192 /\ o[2] = 168
  \/ o[1] = 100 /\ o[2] >= 64 /\ o[2] <= 127
  \/ o[1] = 198 /\ o[2] \in {18, 19}
  \/ o[1] >= 224

Zeros(h, n) == \A i \in 1 .. n : h[i] = 0

\* h & mask, where the mask keeps all but the last bits.
Masked(h, size) == h - (h % size)

\* _isBlockedAddress for IPv6: mapped, compatible, NAT64 and 6to4 addresses are
\* those of their IPv4 part.
Blocked6(h) ==
  \/ Zeros(h, 7) /\ h[8] \in {0, 1}
  \/ Zeros(h, 5) /\ h[6] \in {0, 65535} /\ Blocked4(V4(h[7], h[8]))
  \/ /\ h[1] = 100 /\ h[2] = 65435 /\ \A i \in 3 .. 6 : h[i] = 0
     /\ Blocked4(V4(h[7], h[8]))
  \/ h[1] = 8194 /\ Blocked4(V4(h[2], h[3]))
  \/ Masked(h[1], 64) = 65152
  \/ Masked(h[1], 512) = 64512
  \/ Masked(h[1], 256) = 65280

\* An address is its family and its spelling; of IPv4 there is one.
Blocked(a) == IF a.family = 4 THEN Blocked4(a.spelled) ELSE Blocked6(Expand(a.spelled))

----------------------------------------------------------------------------
(* What is meant                                                           *)

\* A block of addresses: these parts first, then one of these.
Block(prefix, from, to) == [prefix |-> prefix, from |-> from, to |-> to]

InBlock(x, b) ==
  /\ \A i \in 1 .. Len(b.prefix) : x[i] = b.prefix[i]
  /\ x[Len(b.prefix) + 1] >= b.from
  /\ x[Len(b.prefix) + 1] <= b.to

\* This network, RFC 1918, loopback, link-local, CGNAT, benchmarks; multicast,
\* reserved and broadcast.
Reserved4 == {Block(<<>>, 0, 0), Block(<<>>, 10, 10), Block(<<>>, 127, 127),
              Block(<<169>>, 254, 254), Block(<<172>>, 16, 31), Block(<<192>>, 168, 168),
              Block(<<100>>, 64, 127), Block(<<198>>, 18, 19), Block(<<>>, 224, 255)}

\* Unspecified and loopback, link-local, unique local, multicast.
Reserved6 == {Block(<<0, 0, 0, 0, 0, 0, 0>>, 0, 1), Block(<<>>, 65152, 65215),
              Block(<<>>, 64512, 65023), Block(<<>>, 65280, 65535)}

\* The blocks whose addresses stand for an IPv4 address, and where it begins.
Embedding == {[block |-> Block(<<0, 0, 0, 0, 0>>, 0, 0), at |-> 7],
              [block |-> Block(<<0, 0, 0, 0, 0>>, 65535, 65535), at |-> 7],
              [block |-> Block(<<100, 65435, 0, 0, 0>>, 0, 0), at |-> 7],
              [block |-> Block(<<>>, 8194, 8194), at |-> 2]}

Public4(o) == \A b \in Reserved4 : ~InBlock(o, b)

Public6(h) ==
  /\ \A b \in Reserved6 : ~InBlock(h, b)
  /\ \A e \in Embedding : InBlock(h, e.block) => Public4(V4(h[e.at], h[e.at + 1]))

PublicAddress(a) == IF a.family = 4 THEN Public4(a.value) ELSE Public6(a.value)

\* The ways to spell eight groups: in full, or with "::" for some of their zeros.
Runs(h, n) == {r \in (1 .. n) \X (1 .. n) : r[1] <= r[2] /\ \A i \in r[1] .. r[2] : h[i] = 0}
Spelled(h, n, quad) ==
  {[head |-> SubSeq(h, 1, n), tail |-> <<>>, quad |-> quad]}
  \cup {[head |-> SubSeq(h, 1, r[1] - 1), tail |-> SubSeq(h, r[2] + 1, n), quad |-> quad] :
          r \in Runs(h, n)}
Spellings(h) == Spelled(h, 8, <<>>) \cup Spelled(h, 6, V4(h[7], h[8]))

Addresses4(o) == {[family |-> 4, value |-> o, spelled |-> o]}
Addresses6(h) == {[family |-> 6, value |-> h, spelled |-> s] : s \in Spellings(h)}

IsAddress(a) == \/ a.value \in Octets /\ a \in Addresses4(a.value)
                \/ a.value \in Groups /\ a \in Addresses6(a.value)
=============================================================================
