--------------------------- MODULE MCMemorySystem ---------------------------
(* A small array for TLC: bursts of two 4-bit words, two cells reached from *)
(* three addresses, so that two addresses share a cell as the low           *)
(* shift_bits of a real address do.                                         *)
EXTENDS MemorySystem, TLC

MCAddresses == {"a0", "a1", "b0"}
MCCells     == {"a", "b"}
MCDecode    == "a0" :> "a" @@ "a1" :> "a" @@ "b0" :> "b"

Burst2(x, y) == 0 :> x @@ 1 :> y

Ones  == {0, 1, 2, 3}
MCDataPatterns == {Burst2(Ones, Ones), Burst2({1, 3}, {0})}

Healthy == [hardfault |-> {}, vrt_size |-> 0, vrt |-> <<>>]
Hard(b) == [hardfault |-> b, vrt_size |-> 0, vrt |-> <<>>]
Vrt(b, seq) == [hardfault |-> b, vrt_size |-> Len(seq), vrt |-> seq]
V(b, p) == [bit |-> b, prob |-> p]

\* A dead word; a stuck bit; an entry on a stuck bit and one that fires now and
\* then; two entries of one bit; an entry a wrapped vrt_size hides; certain
\* and impossible entries.
MCFaultMaps ==
  { "a" :> Burst2(Hard(Ones), Healthy) @@ "b" :> Burst2(Healthy, Hard({0})),
    "a" :> Burst2(Vrt({0}, <<V(3, 1), V(0, 1)>>), Hard({1, 2, 3}))
      @@ "b" :> Burst2(Healthy, Healthy),
    "a" :> Burst2(Healthy, Vrt({}, <<V(2, 1), V(2, 2)>>))
      @@ "b" :> Burst2([hardfault |-> {}, vrt_size |-> 1,
                        vrt |-> <<V(1, 2), V(2, 2)>>], Vrt({}, <<V(0, 0)>>)) }
=============================================================================
