----------------------- MODULE MCFaultModelGenerators -----------------------
(* Two words of two bits, three hard faults, four classes; vrt_size wraps at *)
(* 2, so that two entries in one word reach the wrap.                        *)
EXTENDS FaultModelGenerators

Ini(model, thread, n) ==
  [fault_model |-> model, thread |-> thread, thread_num |-> n]
MCSetups ==
  {Ini("NaiveFaultModel", "SingleThread", 1), Ini("NaiveFaultModel", "MultiThread", 2),
   Ini("BetaDistFaultModel", "SingleThread", 1), Ini("BetaDistFaultModel", "SingleThread", 2),
   Ini("BetaDistFaultModel", "MultiThread", 2), Ini("BetaDistFaultModel", "MultiThread", 3),
   Ini("BetaDistFaultModel", "other", 1)}
MCPlaces == {"u", "v"}
MCBits   == {0, 1}
MCClassCounts == <<2, 1, 1, 0, 3>>
=============================================================================
