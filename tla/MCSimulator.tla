----------------------------- MODULE MCSimulator -----------------------------
(* Campaigns of one to three rounds over two cells with bursts of two 2-bit *)
(* words, one of them damaged for good and one now and then.                *)
EXTENDS Simulator, TLC

MCAddresses == {"a", "b"}
MCCells     == {"a", "b"}
MCDecode    == "a" :> "a" @@ "b" :> "b"
MCSweep     == <<"a", "b">>

Burst2(x, y) == 0 :> x @@ 1 :> y
MCDataPatterns == {Burst2({0, 1}, {1})}

Healthy == [hardfault |-> {}, vrt_size |-> 0, vrt |-> <<>>]
MCFaultMaps ==
  {"a" :> Burst2([hardfault |-> {0}, vrt_size |-> 0, vrt |-> <<>>],
                 [hardfault |-> {}, vrt_size |-> 1,
                  vrt |-> <<[bit |-> 0, prob |-> 1]>>])
     @@ "b" :> Burst2(Healthy, Healthy)}

\* Entries that never, or always, fire.
MCSureMaps ==
  {"a" :> Burst2([hardfault |-> {0}, vrt_size |-> 1,
                  vrt |-> <<[bit |-> 1, prob |-> 0]>>],
                 [hardfault |-> {}, vrt_size |-> 1,
                  vrt |-> <<[bit |-> 1, prob |-> 2]>>])
     @@ "b" :> Burst2(Healthy, Healthy)}

Start(n, d, generator, t, w) ==
  [num_request |-> n, rounds |-> d, generator_system |-> generator,
   trace_file |-> t, faultmap_write |-> w]
\* Around the boundaries of -n against the sweep of two columns, an endless
\* random round, a map stored at the end, and a trace file with a round and
\* without one.
MCCommandLines ==
  {Start(2, 2, "RandomGenerator", FALSE, TRUE),
   Start(0, 2, "RandomGenerator", FALSE, FALSE),
   Start(1, 2, "SequentialGenerator", FALSE, FALSE),
   Start(2, 2, "SequentialGenerator", FALSE, FALSE),
   Start(3, 2, "SequentialGenerator", FALSE, FALSE),
   Start(1, 2, "RandomGenerator", TRUE, FALSE),
   Start(1, 0, "RandomGenerator", TRUE, TRUE)}
MCTwoRequests == {Start(2, 2, "RandomGenerator", FALSE, TRUE)}

ZeroStat == [c \in Counters |-> 0]
MCCleanStats == {ZeroStat}
\* What new Stat may find on the heap: zeros, or a counter already past -n.
MCGarbageStats ==
  {ZeroStat,
   [ZeroStat EXCEPT !.executed_request_num = 5, !.correct_column_num = 1],
   [ZeroStat EXCEPT !.fault_request_num = 2, !.all_fault_bit_num = 1,
                    !.single_fault_in_BL_num = 4]}
=============================================================================
