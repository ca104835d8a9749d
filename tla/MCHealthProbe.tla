--------------------------- MODULE MCHealthProbe ---------------------------
(***************************************************************************)
(* HealthProbe for TLC.  One listing with any address at the edge of a     *)
(* block, in every spelling; and three listings for two workers.           *)
(***************************************************************************)
EXTENDS HealthProbe

Edges4 ==
  {<<0, 255, 255, 255>>, <<1, 1, 1, 1>>, <<9, 0, 0, 1>>, <<10, 0, 0, 0>>, <<11, 0, 0, 0>>,
   <<100, 63, 0, 1>>, <<100, 64, 0, 1>>, <<100, 127, 0, 1>>, <<100, 128, 0, 1>>,
   <<127, 0, 0, 1>>, <<128, 0, 0, 1>>, <<169, 253, 0, 1>>, <<169, 254, 169, 254>>,
   <<172, 15, 0, 1>>, <<172, 16, 0, 1>>, <<172, 31, 0, 1>>, <<172, 32, 0, 1>>,
   <<192, 167, 0, 1>>, <<192, 168, 0, 1>>, <<198, 17, 0, 1>>, <<198, 18, 0, 1>>,
   <<198, 19, 0, 1>>, <<198, 20, 0, 1>>, <<223, 255, 255, 255>>, <<224, 0, 0, 1>>}

Two(o) == <<256 * o[1] + o[2], 256 * o[3] + o[4]>>
Few4   == {<<8, 8, 8, 8>>, <<10, 0, 0, 1>>, <<169, 254, 169, 254>>}

Edges6 ==
  {<<0, 0, 0, 0, 0, 0, 0, 0>>, <<0, 0, 0, 0, 0, 0, 0, 1>>, <<8193, 0, 0, 1, 0, 0, 0, 5>>}
  \cup {<<g, 0, 0, 0, 0, 0, 0, 1>> : g \in {64511, 64512, 65023, 65024, 65151, 65152,
                                           65215, 65216, 65279, 65280}}
  \cup {<<0, 0, 0, 0, 0, 0>> \o Two(o) : o \in Few4}
  \cup {<<0, 0, 0, 0, 0, 65535>> \o Two(o) : o \in Few4}
  \cup {<<100, 65435, 0, 0, 0, 0>> \o Two(o) : o \in Few4}
  \cup {<<8194>> \o Two(o) \o <<0, 0, 0, 0, 1>> : o \in Few4}

Edges == UNION {Addresses4(o) : o \in Edges4} \cup UNION {Addresses6(h) : h \in Edges6}

Good == [family |-> 4, value |-> <<1, 1, 1, 1>>, spelled |-> <<1, 1, 1, 1>>]
Bad  == [family |-> 4, value |-> <<10, 0, 0, 1>>, spelled |-> <<10, 0, 0, 1>>]

OneUrl   == {<<Literal(a)>> : a \in Edges} \cup {<<Name({a, Good})>> : a \in Edges}
Sample   == {Refused, Literal(Good), Name({Good}), Name({Good, Bad})}
ThreeUrls == {<<u, v, Name({Good})>> : u \in Sample, v \in {Refused, Literal(Good)}}
SomeLists == {<<>>} \cup OneUrl \cup ThreeUrls
=============================================================================
