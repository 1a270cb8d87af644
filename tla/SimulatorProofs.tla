-------------------------- MODULE SimulatorProofs --------------------------
(***************************************************************************)
(* Theorems of Simulator, for every memory, number of rounds, set of       *)
(* signals and set of command lines, and whatever the counters hold when   *)
(* the process starts.                                                     *)
(***************************************************************************)
EXTENDS Simulator, MemorySystemProofs

-----------------------------------------------------------------------------
(* Types, and where main and the handler can be. *)

PrintLabels == {"print_open", "print_write", "reset_trace", "reset_result", "reset_stat"}
RoundLabels ==
  {"open_result", "open_trace", "access", "serve", "next_round"} \cup PrintLabels
EndLabels ==
  {"delete_generator", "write_map", "delete_stat", "delete_config", "return"}

\* The round is one of the campaign's while main is in it, and the sweep has a
\* next coordinate whenever main is about to ask for it.
Control ==
  /\ pc["main"] \in {"set_signal"} \cup RoundLabels \cup EndLabels
  /\ pc["handler"] \in {"off", "exit"} \cup PrintLabels
  /\ pc["main"] \in RoundLabels => repeat_round < Limit
  /\ pc["handler"] # "off" => is_sig_term
  /\ pc["main"] # "serve" => rpc = "idle"
  /\ pc["main"] # "serve" \/ rpc = "accepted" => sweep_pos < Len(Sweep)
  /\ opts.generator_system = "RandomGenerator" => sweep_pos = 0
  /\ \A self \in Actors : cleared[self] # 0 => pc[self] = "reset_stat"

SimInv == Inv0 /\ SimTypeOK /\ Control

(* The rounds are an interval, and the sweep has addresses. *)
LEMMA RoundNumbers ==
  /\ StartRound \in Nat /\ MaxRounds \in Nat /\ StartRound \in Rounds
  /\ Rounds = StartRound .. StartRound + MaxRounds
  /\ Len(Sweep) \in Nat /\ Len(Sweep) > 0
  /\ \A i \in 1 .. Len(Sweep) : Sweep[i] \in Addresses
  /\ opts \in Options =>
       /\ opts.rounds \in Nat /\ Limit = StartRound + opts.rounds
       /\ Limit \in Rounds /\ Limit \in Nat /\ StartRound <= Limit
       /\ opts.num_request \in Nat
       /\ opts.generator_system \in {"SequentialGenerator", "RandomGenerator"}
<1>1. /\ StartRound \in Nat /\ MaxRounds \in Nat
      /\ Len(Sweep) \in Nat /\ Len(Sweep) > 0
      /\ \A i \in 1 .. Len(Sweep) : Sweep[i] \in Addresses
  BY CampaignAssumption
<1>2. ASSUME opts \in Options
      PROVE  /\ opts.rounds \in 0 .. MaxRounds /\ opts.num_request \in Nat
             /\ opts.generator_system \in {"SequentialGenerator", "RandomGenerator"}
  BY <1>2 DEF Options
<1> QED
  BY <1>1, <1>2 DEF Limit, Rounds

(* ResetStat assigns fourteen times, to counters, and first to those of the *)
(* requests.                                                                *)
LEMMA ResetOrderFacts ==
  /\ Len(ResetOrder) = 14
  /\ \A i \in 1 .. 14 : ResetOrder[i] \in Counters
  /\ ResetOrder[1] = "executed_request_num" /\ ResetOrder[2] = "fault_request_num"
  /\ ResetOrder[3] = "correct_request_num" /\ ResetOrder[7] = "all_fault_bit_num"
  /\ 0 .. Len(ResetOrder) - 1 = 0 .. 13
<1>1. Len(ResetOrder) = 14
  BY DEF ResetOrder
<1>2. 0 .. Len(ResetOrder) - 1 = 0 .. 13
  BY <1>1
<1> QED
  BY <1>1, <1>2, CounterNames DEF ResetOrder, Counters

RowFiles   == [state : {"absent", "open", "closed"}, rows : Nat]
StatsFiles == [by : {"nobody", "open", "main", "handler"}, stat : Stats]

(* What the files hold at their turns is of their type. *)
LEMMA FileContents ==
  /\ NoRows \in RowFiles /\ Opened \in RowFiles
  /\ \A n \in Nat : Closed(n) \in RowFiles
  /\ NoStats.stat \in Stats /\ NoStats \in StatsFiles
  /\ \A s \in Stats : [by |-> "open", stat |-> s] \in StatsFiles
<1>1. [c \in Counters |-> 0] \in Stats
  BY DEF Stats
<1> QED
  BY <1>1 DEF NoRows, Opened, Closed, NoStats, RowFiles, StatsFiles

(* The process starts with its types. *)
LEMMA SimInvInit == SimInit => SimInv
<1> SUFFICES ASSUME SimInit PROVE SimInv
  OBVIOUS
<1> USE DEF SimInit
<1>1. Inv0
  <2>1. stat \in Stats
    BY CampaignAssumption
  <2>2. fault_map \in FaultMaps /\ fault_map \in [Cells -> [Burst -> FaultStructs]]
    BY FaultMapAssumption DEF MemInit
  <2>3. data_block \in [Cells -> [Burst -> Words]]
    BY DataAssumption DEF MemInit
  <2>4. fault_data \in [Burst -> Words] /\ gen_data \in [Burst -> Words]
    BY DEF MemInit, Words
  <2>5. column \in 0 .. BL
    BY ShapeAssumption DEF MemInit
  <2> QED
    BY <2>1, <2>2, <2>3, <2>4, <2>5 DEF Inv0, TypeOK, MemInit, PlacesOK, InColumn
<1>2. SimTypeOK
  <2>1. /\ opts \in Options /\ pc \in [Actors -> Labels]
        /\ repeat_round \in Rounds /\ sweep_pos \in 0 .. Len(Sweep)
    BY RoundNumbers, CampaignAssumption DEF Actors, Labels
  <2>4. cleared \in [Actors -> 0 .. Len(ResetOrder) - 1]
    BY ResetOrderFacts
  <2>2. result_file \in [Rounds -> RowFiles] /\ trace_file \in [Rounds -> RowFiles]
    BY FileContents
  <2>3. stats_file \in [Rounds -> StatsFiles]
    BY FileContents
  <2> QED
    BY <1>1, <2>1, <2>2, <2>3, <2>4 DEF SimTypeOK, Inv0, RowFiles, StatsFiles
<1>3. Control
  BY RoundNumbers DEF Control, RoundLabels, PrintLabels, MemInit
<1> QED
  BY <1>1, <1>2, <1>3 DEF SimInv

(* The call main is in ends at idle, and is accepted only once. *)
LEMMA ServePlaces ==
  ASSUME Serve
  PROVE  rpc \notin {"idle", "accepted"} /\ rpc' # "accepted"
<1>1. CASE HardFaultError \/ VRTFaultError
  BY <1>1 DEF HardFaultError, VRTFaultError
<1>2. CASE CheckFaultMask
  BY <1>2, CheckLeavesData DEF Checking, InColumn
<1> QED
  BY <1>1, <1>2 DEF Serve

(* A sweep that is not over asks for one of its addresses. *)
LEMMA SweepCall ==
  ASSUME SimInv, SequentialAccess
  PROVE  /\ rpc = "accepted" /\ rpc' = "hard" /\ sweep_pos < Len(Sweep)
         /\ sweep_pos + 1 \in 1 .. Len(Sweep)
         /\ \E addr \in Addresses, data \in DataPatterns, is_write \in BOOLEAN :
              RecvRequest(addr, data, is_write)
<1>1. rpc = "accepted" /\ rpc' = "hard"
  BY DEF SequentialAccess, RecvRequest
<1>2. sweep_pos \in Nat /\ sweep_pos < Len(Sweep)
  BY <1>1, RoundNumbers DEF SimInv, SimTypeOK, Control
<1>3. sweep_pos + 1 \in 1 .. Len(Sweep)
  BY <1>2, RoundNumbers
<1>4. Sweep[sweep_pos + 1] \in Addresses
  BY <1>3, RoundNumbers
<1> QED
  BY <1>1, <1>2, <1>3, <1>4 DEF SequentialAccess

(* The steps of main that make the memory system move are steps of a call. *)
LEMMA CallSteps ==
  ASSUME SimInv, CountAccess \/ RandomAccess \/ SequentialAccess \/ ServeRequest
  PROVE  Call
BY SweepCall DEF CountAccess, RandomAccess, ServeRequest, Call

\* The other steps of the process, and what they do to the memory system.
QuietSteps ==
  \/ SetSignal \/ SetSignalHandler \/ UninitialisedAccess \/ AfterRequest
  \/ \E self \in Actors : \/ OpenStats(self) \/ WriteStats(self)
                          \/ ResetFaultTrace(self) \/ ResetFaultResult(self)
  \/ NextRound \/ DeleteGenerator \/ DeleteUninitialised \/ WriteFaultMap \/ Delete
  \/ (\E sig \in Signals : Signal(sig)) \/ Kill \/ Exit \/ UNCHANGED simVars

(* They leave it alone. *)
LEMMA QuietVars == QuietSteps => UNCHANGED vars
BY DEF QuietSteps, SetSignal, SetSignalHandler, UninitialisedAccess, AfterRequest, OpenStats,
       WriteStats, ResetFaultTrace, ResetFaultResult, NextRound, DeleteGenerator,
       DeleteUninitialised, WriteFaultMap, Delete, Signal, Kill, Exit, simVars

(* No other step is left. *)
LEMMA AllSteps ==
  [SimNext]_simVars =>
    \/ QuietSteps
    \/ SetFaultResult \/ SetFaultTrace
    \/ CountAccess \/ RandomAccess \/ SequentialAccess \/ ServeRequest
    \/ \E self \in Actors : ResetCounters(self)
BY DEF SimNext, Main, Handler, Environment, PrintResult, QuietSteps, Actors

(* ResetStat moves one counter and its own place. *)
LEMMA ResetMoves ==
  ASSUME SimInv, NEW self \in Actors, ResetCounters(self)
  PROVE  /\ cleared[self] + 1 \in 1 .. 14 /\ pc[self] = "reset_stat"
         /\ stat' = [stat EXCEPT ![ResetOrder[cleared[self] + 1]] = 0]
         /\ stat' \in Stats
         /\ cleared' \in [Actors -> 0 .. 13] /\ pc' \in [Actors -> Labels]
         /\ \A a \in Actors : a # self => cleared'[a] = cleared[a] /\ pc'[a] = pc[a]
         /\ \/ /\ cleared[self] < 13 /\ pc' = pc
               /\ cleared'[self] = cleared[self] + 1
            \/ /\ cleared[self] = 13 /\ cleared'[self] = 0
               /\ pc'[self] = IF self = "main" THEN "next_round" ELSE "exit"
         /\ UNCHANGED <<memVars, status, procVars, repeat_round, sweep_pos, fileVars>>
<1>1. /\ cleared \in [Actors -> 0 .. 13] /\ pc \in [Actors -> Labels]
      /\ stat \in [Counters -> Nat]
  BY ResetOrderFacts DEF SimInv, SimTypeOK, Inv0, TypeOK, Stats
<1>2. /\ cleared[self] + 1 \in 1 .. 14 /\ pc[self] = "reset_stat"
      /\ stat' = [stat EXCEPT ![ResetOrder[cleared[self] + 1]] = 0]
      /\ UNCHANGED <<memVars, status, procVars, repeat_round, sweep_pos, fileVars>>
  BY <1>1 DEF ResetCounters, At
<1>3. stat' \in Stats
  BY <1>1, <1>2, ResetOrderFacts DEF Stats
<1>4. CASE cleared[self] + 1 < 14
  <2>1. cleared' = [cleared EXCEPT ![self] = @ + 1] /\ pc' = pc
    BY <1>4, ResetOrderFacts DEF ResetCounters
  <2> QED
    BY <1>1, <1>2, <1>3, <1>4, <2>1
<1>5. CASE cleared[self] + 1 = 14
  <2>1. /\ cleared' = [cleared EXCEPT ![self] = 0]
        /\ pc' = [pc EXCEPT ![self] = IF self = "main" THEN "next_round" ELSE "exit"]
    BY <1>5, ResetOrderFacts DEF ResetCounters, Goto
  <2>2. (IF self = "main" THEN "next_round" ELSE "exit") \in Labels
    BY DEF Labels
  <2> QED
    BY <1>1, <1>2, <1>3, <1>5, <2>1, <2>2
<1> QED
  BY <1>1, <1>2, <1>4, <1>5

(* The memory system keeps its types whatever the process does. *)
LEMMA MemoryKept == SimInv /\ [SimNext]_simVars => Inv0'
<1> SUFFICES ASSUME SimInv, [SimNext]_simVars PROVE Inv0'
  OBVIOUS
<1>0. Inv0
  BY DEF SimInv
<1>1. CASE QuietSteps
  BY <1>0, <1>1, QuietVars, CallInv0 DEF vars, memVars
<1>2. CASE SetFaultResult \/ SetFaultTrace
  <2>1. /\ UNCHANGED <<stat, data_block, fault_map, vrt_prev, ErrorMask, fault_data,
                       rpc, recv_addr, gen_data, column, fault_count_in_BL, unnumbered>>
        /\ result_rows' \in {result_rows, 0} /\ trace_lines' \in {trace_lines, 0}
    BY ONLY <1>2 DEF SetFaultResult, SetFaultTrace, arrayVars, burstVars, loopVars
  <2> QED
    BY ONLY <1>0, <2>1 DEF Inv0, TypeOK, PlacesOK, Checking, InColumn
<1>3. CASE CountAccess \/ RandomAccess \/ SequentialAccess \/ ServeRequest
  BY <1>0, <1>3, CallSteps, CallInv0
<1>4. ASSUME NEW self \in Actors, ResetCounters(self) PROVE Inv0'
  <2>1. /\ stat' \in Stats
        /\ UNCHANGED <<data_block, fault_map, vrt_prev, ErrorMask, fault_data,
                       rpc, recv_addr, gen_data, column, fault_count_in_BL, unnumbered,
                       result_rows, trace_lines>>
    BY <1>4, ResetMoves DEF memVars, arrayVars, burstVars, loopVars, reportVars
  <2> QED
    BY ONLY <1>0, <2>1 DEF Inv0, TypeOK, PlacesOK, Checking, InColumn
<1> QED
  BY <1>1, <1>2, <1>3, <1>4, AllSteps

(* So do the files and the registers of the process. *)
LEMMA FilesKept ==
  SimInv /\ [SimNext]_simVars =>
    /\ opts' = opts /\ registered' \subseteq Signals
    /\ user_handler' \in BOOLEAN /\ is_sig_term' \in BOOLEAN /\ stats_open' \in BOOLEAN
    /\ map_file' \in {"absent", "partial", "complete"}
    /\ status' \in {"running", "returned", "exited", "aborted", "crashed", "killed"}
    /\ stats_file' \in [Rounds -> StatsFiles]
    /\ result_file' \in [Rounds -> RowFiles] /\ trace_file' \in [Rounds -> RowFiles]
<1> DEFINE Kept ==
      /\ opts' = opts /\ registered' \subseteq Signals
      /\ user_handler' \in BOOLEAN /\ is_sig_term' \in BOOLEAN /\ stats_open' \in BOOLEAN
      /\ map_file' \in {"absent", "partial", "complete"}
      /\ status' \in {"running", "returned", "exited", "aborted", "crashed", "killed"}
      /\ stats_file' \in [Rounds -> StatsFiles]
      /\ result_file' \in [Rounds -> RowFiles] /\ trace_file' \in [Rounds -> RowFiles]
<1> SUFFICES ASSUME SimInv, [SimNext]_simVars PROVE Kept
  OBVIOUS
<1>0. /\ registered \subseteq Signals
      /\ user_handler \in BOOLEAN /\ is_sig_term \in BOOLEAN /\ stats_open \in BOOLEAN
      /\ map_file \in {"absent", "partial", "complete"}
      /\ status \in {"running", "returned", "exited", "aborted", "crashed", "killed"}
      /\ stats_file \in [Rounds -> StatsFiles]
      /\ result_file \in [Rounds -> RowFiles] /\ trace_file \in [Rounds -> RowFiles]
      /\ stat \in Stats /\ trace_lines \in Nat /\ result_rows \in Nat
      /\ repeat_round \in Rounds
  BY DEF SimInv, SimTypeOK, Inv0, TypeOK, StatsFiles, RowFiles
<1>1. ASSUME SetSignal \/ SetSignalHandler \/ UninitialisedAccess \/ AfterRequest
      PROVE  Kept
  BY <1>0, <1>1 DEF SetSignal, SetSignalHandler, UninitialisedAccess, AfterRequest, End,
                    simUnchangedByRequest, procVars, fileVars
<1>2. ASSUME SetFaultResult \/ SetFaultTrace PROVE Kept
  BY <1>0, <1>2, FileContents DEF SetFaultResult, SetFaultTrace, End, procVars
<1>3. ASSUME CountAccess \/ RandomAccess \/ SequentialAccess \/ ServeRequest PROVE Kept
  BY <1>0, <1>3 DEF CountAccess, RandomAccess, SequentialAccess, ServeRequest,
                    simUnchangedByRequest, procVars, fileVars
<1>4. ASSUME NEW self \in Actors, OpenStats(self) PROVE Kept
  BY <1>0, <1>4, FileContents DEF OpenStats, End, procVars
<1>5. ASSUME NEW self \in Actors, WriteStats(self) PROVE Kept
  <2>1. [by |-> self, stat |-> stat] \in StatsFiles
    BY <1>0 DEF StatsFiles, Actors
  <2> QED
    BY <1>0, <1>5, <2>1 DEF WriteStats, StatsClosed, procVars
<1>6. ASSUME NEW self \in Actors, ResetFaultTrace(self) \/ ResetFaultResult(self) PROVE Kept
  BY <1>0, <1>6, FileContents DEF ResetFaultTrace, ResetFaultResult, ClosedFile, procVars
<1>7. ASSUME NEW self \in Actors, ResetCounters(self) PROVE Kept
  BY <1>0, <1>7 DEF ResetCounters, procVars, fileVars
<1>8. ASSUME NextRound \/ DeleteGenerator \/ DeleteUninitialised \/ WriteFaultMap \/ Delete
      PROVE  Kept
  BY <1>0, <1>8 DEF NextRound, DeleteGenerator, DeleteUninitialised, WriteFaultMap, Delete,
                    End, procVars, fileVars
<1>9. ASSUME (\E sig \in Signals : Signal(sig)) \/ Kill \/ Exit \/ UNCHANGED simVars
      PROVE  Kept
  BY <1>0, <1>9 DEF Signal, Kill, Exit, End, simVars, procVars, fileVars
<1> HIDE DEF Kept
<1> QED
  BY <1>1, <1>2, <1>3, <1>4, <1>5, <1>6, <1>7, <1>8, <1>9, AllSteps DEF QuietSteps

(* Main and the handler stay at their places, and the round in the campaign. *)
LEMMA PlacesKept ==
  SimInv /\ [SimNext]_simVars =>
    /\ pc' \in [Actors -> Labels]
    /\ pc'["main"] \in {"set_signal"} \cup RoundLabels \cup EndLabels
    /\ pc'["handler"] \in {"off", "exit"} \cup PrintLabels
    /\ repeat_round' \in Rounds
    /\ pc'["main"] \in RoundLabels => repeat_round' < Limit'
    /\ pc'["handler"] # "off" => is_sig_term'
<1> DEFINE Kept ==
      /\ pc' \in [Actors -> Labels]
      /\ pc'["main"] \in {"set_signal"} \cup RoundLabels \cup EndLabels
      /\ pc'["handler"] \in {"off", "exit"} \cup PrintLabels
      /\ repeat_round' \in Rounds
      /\ pc'["main"] \in RoundLabels => repeat_round' < Limit
      /\ pc'["handler"] # "off" => is_sig_term'
<1> SUFFICES ASSUME SimInv, [SimNext]_simVars PROVE Kept
  BY FilesKept DEF Limit
<1>0. /\ pc \in [Actors -> Labels]
      /\ pc["main"] \in {"set_signal"} \cup RoundLabels \cup EndLabels
      /\ pc["handler"] \in {"off", "exit"} \cup PrintLabels
      /\ repeat_round \in Rounds
      /\ pc["main"] \in RoundLabels => repeat_round < Limit
      /\ pc["handler"] # "off" => is_sig_term
  BY DEF SimInv, SimTypeOK, Control
<1> USE DEF RoundLabels, EndLabels, PrintLabels, At, Running, Goto, Labels, Actors, procVars
<1>1. ASSUME SetSignal \/ SetSignalHandler \/ UninitialisedAccess \/ AfterRequest
      PROVE  Kept
  BY <1>0, <1>1 DEF SetSignal, SetSignalHandler, UninitialisedAccess, AfterRequest,
                    simUnchangedByRequest, roundVars
<1>2. ASSUME SetFaultResult \/ SetFaultTrace PROVE Kept
  BY <1>0, <1>2 DEF SetFaultResult, SetFaultTrace, roundVars
<1>3. ASSUME CountAccess \/ RandomAccess \/ SequentialAccess \/ ServeRequest PROVE Kept
  BY <1>0, <1>3 DEF CountAccess, RandomAccess, SequentialAccess, ServeRequest,
                    simUnchangedByRequest
<1>4. ASSUME NEW self \in Actors, OpenStats(self) \/ WriteStats(self) PROVE Kept
  BY <1>0, <1>4 DEF OpenStats, WriteStats, roundVars
<1>6. ASSUME NEW self \in Actors, ResetFaultTrace(self) \/ ResetFaultResult(self) PROVE Kept
  BY <1>0, <1>6 DEF ResetFaultTrace, ResetFaultResult, roundVars
<1>7. ASSUME NEW self \in Actors, ResetCounters(self) PROVE Kept
  <2>1. /\ pc' \in [Actors -> Labels] /\ UNCHANGED <<repeat_round, is_sig_term>>
        /\ pc[self] = "reset_stat"
        /\ \A a \in Actors : a # self => pc'[a] = pc[a]
        /\ \/ pc' = pc
           \/ pc'[self] = IF self = "main" THEN "next_round" ELSE "exit"
    BY <1>7, ResetMoves
  <2> QED
    BY <1>0, <2>1
<1>8. CASE NextRound
  <2>1. pc["main"] = "next_round" /\ repeat_round' = repeat_round + 1 /\ repeat_round < Limit
    BY <1>0, <1>8 DEF NextRound
  <2>2. repeat_round' \in Rounds
    BY <1>0, <2>1, RoundNumbers DEF SimInv, SimTypeOK
  <2>3. \/ pc' = [pc EXCEPT !["main"] = "open_result"] /\ repeat_round' < Limit
        \/ pc' = [pc EXCEPT !["main"] = "delete_generator"]
    BY <1>8, <2>1 DEF NextRound, AnotherRound
  <2>4. UNCHANGED is_sig_term
    BY <1>8 DEF NextRound
  <2> QED
    BY <1>0, <2>2, <2>3, <2>4
<1>9. ASSUME DeleteGenerator \/ DeleteUninitialised \/ WriteFaultMap \/ Delete
      PROVE  Kept
  BY <1>0, <1>9 DEF DeleteGenerator, DeleteUninitialised, WriteFaultMap, Delete, roundVars
<1>10. ASSUME (\E sig \in Signals : Signal(sig)) \/ Kill \/ Exit \/ UNCHANGED simVars
      PROVE  Kept
  BY <1>0, <1>10 DEF Signal, Kill, Exit, simVars, roundVars
<1> HIDE DEF Kept
<1> QED
  BY <1>1, <1>2, <1>3, <1>4, <1>6, <1>7, <1>8, <1>9, <1>10, AllSteps DEF QuietSteps

(* The sweep stays in the array, and ResetStat's place is its own. *)
LEMMA SweepKept ==
  SimInv /\ [SimNext]_simVars =>
    /\ sweep_pos' \in 0 .. Len(Sweep)
    /\ cleared' \in [Actors -> 0 .. 13]
    /\ pc'["main"] # "serve" => rpc' = "idle"
    /\ pc'["main"] # "serve" \/ rpc' = "accepted" => sweep_pos' < Len(Sweep)
    /\ opts.generator_system = "RandomGenerator" => sweep_pos' = 0
    /\ \A self \in Actors : cleared'[self] # 0 => pc'[self] = "reset_stat"
<1> DEFINE Kept ==
      /\ sweep_pos' \in 0 .. Len(Sweep)
      /\ pc'["main"] # "serve" => rpc' = "idle"
      /\ pc'["main"] # "serve" \/ rpc' = "accepted" => sweep_pos' < Len(Sweep)
      /\ opts.generator_system = "RandomGenerator" => sweep_pos' = 0
<1> DEFINE Place ==
      /\ cleared' \in [Actors -> 0 .. 13]
      /\ \A self \in Actors : cleared'[self] # 0 => pc'[self] = "reset_stat"
<1> SUFFICES ASSUME SimInv, [SimNext]_simVars PROVE Kept /\ Place
  OBVIOUS
<1>0. /\ sweep_pos \in 0 .. Len(Sweep) /\ pc \in [Actors -> Labels]
      /\ pc["main"] # "serve" => rpc = "idle"
      /\ pc["main"] # "serve" \/ rpc = "accepted" => sweep_pos < Len(Sweep)
      /\ opts.generator_system = "RandomGenerator" => sweep_pos = 0
      /\ Len(Sweep) \in Nat /\ Len(Sweep) > 0
  BY RoundNumbers DEF SimInv, SimTypeOK, Control
<1>a. /\ cleared \in [Actors -> 0 .. 13]
      /\ \A self \in Actors : cleared[self] # 0 => pc[self] = "reset_stat"
  BY ResetOrderFacts DEF SimInv, SimTypeOK, Control
<1>1. ASSUME rpc' = rpc, sweep_pos' = sweep_pos,
             pc'["main"] = "serve" <=> pc["main"] = "serve"
      PROVE  Kept
  BY <1>0, <1>1
<1>2. ASSUME cleared' = cleared, \A self \in Actors : pc[self] = "reset_stat" => pc'[self] = pc[self]
      PROVE  Place
  BY <1>a, <1>2
<1>3. CASE QuietSteps
  <2>1. rpc' = rpc
    BY <1>3, QuietVars DEF vars, memVars
  <2>2. cleared' = cleared
    BY <1>3 DEF QuietSteps, SetSignal, SetSignalHandler, UninitialisedAccess, AfterRequest,
         OpenStats, WriteStats, ResetFaultTrace, ResetFaultResult, NextRound, DeleteGenerator,
         DeleteUninitialised, WriteFaultMap, Delete, Signal, Kill, Exit, simVars, roundVars,
         simUnchangedByRequest
  <2> HIDE DEF Kept, Place
  <2> USE DEF At, Goto, Actors
  <2>3. ASSUME SetSignal \/ SetSignalHandler \/ UninitialisedAccess PROVE Kept /\ Place
    <3>1. /\ sweep_pos' = sweep_pos
          /\ \A self \in Actors : pc[self] = "reset_stat" => pc'[self] = pc[self]
          /\ pc'["main"] = "serve" <=> pc["main"] = "serve"
      BY <1>0, <2>3 DEF SetSignal, SetSignalHandler, UninitialisedAccess, roundVars
    <3> QED
      BY <1>1, <1>2, <2>1, <2>2, <3>1
  <2>4. CASE AfterRequest
    <3>1. pc["main"] = "serve" /\ rpc = "idle" /\ pc'["main"] \in {"access", "print_open"}
      BY <1>0, <2>4 DEF AfterRequest
    <3>2. sweep_pos' \in 0 .. Len(Sweep) /\ sweep_pos' < Len(Sweep)
          /\ sweep_pos' \in {0, sweep_pos}
      <4>1. CASE EnoughRequests \/ SweepDone
        BY <1>0, <2>4, <4>1 DEF AfterRequest
      <4>2. CASE ~(EnoughRequests \/ SweepDone)
        <5>1. sweep_pos' = sweep_pos
          BY <2>4, <4>2 DEF AfterRequest
        <5>2. opts.generator_system \in {"SequentialGenerator", "RandomGenerator"}
          BY RoundNumbers DEF SimInv, SimTypeOK
        <5> QED
          BY <1>0, <4>2, <5>1, <5>2 DEF SweepDone
      <4> QED
        BY <4>1, <4>2
    <3>3. \A self \in Actors : pc[self] = "reset_stat" => pc'[self] = pc[self]
      BY <1>0, <2>4 DEF AfterRequest
    <3>4. Kept
      BY <1>0, <2>1, <3>1, <3>2 DEF Kept
    <3> QED
      BY <1>2, <2>2, <3>3, <3>4
  <2>5. ASSUME NEW self \in Actors,
               \/ OpenStats(self) \/ WriteStats(self)
               \/ ResetFaultTrace(self) \/ ResetFaultResult(self)
        PROVE  Kept /\ Place
    <3>1. /\ sweep_pos' = sweep_pos
          /\ \A a \in Actors : pc[a] = "reset_stat" => pc'[a] = pc[a]
          /\ pc'["main"] = "serve" <=> pc["main"] = "serve"
      BY <1>0, <2>5 DEF OpenStats, WriteStats, ResetFaultTrace, ResetFaultResult, roundVars
    <3> QED
      BY <1>1, <1>2, <2>1, <2>2, <3>1
  <2>6. ASSUME NextRound \/ DeleteGenerator \/ DeleteUninitialised \/ WriteFaultMap \/ Delete
        PROVE  Kept /\ Place
    <3>1. /\ sweep_pos' = sweep_pos
          /\ \A a \in Actors : pc[a] = "reset_stat" => pc'[a] = pc[a]
          /\ pc'["main"] = "serve" <=> pc["main"] = "serve"
      BY <1>0, <2>6 DEF NextRound, DeleteGenerator, DeleteUninitialised, WriteFaultMap, Delete,
                        roundVars
    <3> QED
      BY <1>1, <1>2, <2>1, <2>2, <3>1
  <2>7. ASSUME NEW sig \in Signals, Signal(sig) PROVE Kept /\ Place
    <3>1. /\ sweep_pos' = sweep_pos
          /\ pc'["main"] = pc["main"] /\ pc["handler"] # "reset_stat"
      <4>1. pc["handler"] = "off"
        BY <2>7 DEF Signal, IgnoreSignal, SimInv, Control
      <4> QED
        BY <1>0, <2>7, <4>1 DEF Signal, roundVars
    <3> QED
      BY <1>1, <1>2, <2>1, <2>2, <3>1
  <2>8. ASSUME Kill \/ Exit \/ UNCHANGED simVars PROVE Kept /\ Place
    <3>1. sweep_pos' = sweep_pos /\ pc' = pc
      BY <2>8 DEF Kill, Exit, simVars, roundVars
    <3> QED
      BY <1>1, <1>2, <2>1, <2>2, <3>1
  <2> QED
    BY <1>3, <2>3, <2>4, <2>5, <2>6, <2>7, <2>8 DEF QuietSteps
<1>4. CASE SetFaultResult \/ SetFaultTrace
  <2>1. /\ rpc' = rpc /\ sweep_pos' = sweep_pos /\ cleared' = cleared
        /\ \A a \in Actors : pc[a] = "reset_stat" => pc'[a] = pc[a]
        /\ pc'["main"] = "serve" <=> pc["main"] = "serve"
    BY <1>0, <1>4 DEF SetFaultResult, SetFaultTrace, roundVars, At, Goto, Actors
  <2> HIDE DEF Kept, Place
  <2> QED
    BY <1>1, <1>2, <2>1
<1>5. CASE CountAccess \/ RandomAccess \/ SequentialAccess \/ ServeRequest
  <2>1. /\ cleared' = cleared /\ pc'["main"] = "serve"
        /\ \A a \in Actors : pc[a] = "reset_stat" => pc'[a] = pc[a]
    BY <1>0, <1>5 DEF CountAccess, RandomAccess, SequentialAccess, ServeRequest,
                      simUnchangedByRequest, At, Goto, Actors
  <2>2. CASE CountAccess
    <3>1. pc["main"] = "access" /\ sweep_pos' = sweep_pos
      BY <2>2 DEF CountAccess, At
    <3> QED
      BY <1>0, <1>2, <2>1, <3>1
  <2>3. CASE RandomAccess
    <3>1. rpc' = "hard" /\ sweep_pos' = sweep_pos
      BY <2>3 DEF RandomAccess, RecvRequest
    <3> QED
      BY <1>0, <1>2, <2>1, <3>1
  <2>4. CASE SequentialAccess
    <3>1. /\ rpc' = "hard" /\ sweep_pos' = sweep_pos + 1 /\ sweep_pos < Len(Sweep)
          /\ opts.generator_system = "SequentialGenerator"
      BY <2>4, SweepCall DEF SequentialAccess
    <3> QED
      BY <1>0, <1>2, <2>1, <3>1
  <2>5. CASE ServeRequest
    <3>1. rpc' # "accepted" /\ sweep_pos' = sweep_pos
      BY <2>5, ServePlaces DEF ServeRequest
    <3> QED
      BY <1>0, <1>2, <2>1, <3>1
  <2> QED
    BY <1>5, <2>2, <2>3, <2>4, <2>5
<1>6. ASSUME NEW self \in Actors, ResetCounters(self) PROVE Kept /\ Place
  <2>1. /\ rpc' = rpc /\ sweep_pos' = sweep_pos /\ cleared' \in [Actors -> 0 .. 13]
        /\ pc[self] = "reset_stat"
        /\ \A a \in Actors : a # self => cleared'[a] = cleared[a] /\ pc'[a] = pc[a]
        /\ pc' = pc \/ (cleared'[self] = 0 /\ pc'[self] \in {"next_round", "exit"})
    BY <1>6, ResetMoves DEF memVars
  <2>2. pc'["main"] = "serve" <=> pc["main"] = "serve"
    BY <2>1 DEF Actors
  <2>3. Place
    BY <1>a, <2>1
  <2> QED
    BY <1>1, <2>1, <2>2, <2>3
<1> HIDE DEF Kept, Place
<1> QED
  BY <1>3, <1>4, <1>5, <1>6, AllSteps

(* Every step of main, of the handler and of the environment keeps them. *)
LEMMA SimInvStep == SimInv /\ [SimNext]_simVars => SimInv'
<1> SUFFICES ASSUME SimInv, [SimNext]_simVars PROVE SimInv'
  OBVIOUS
<1>1. Inv0'
  BY MemoryKept
<1>2. SimTypeOK'
  BY <1>1, FilesKept, PlacesKept, SweepKept, ResetOrderFacts
  DEF Inv0, SimTypeOK, SimInv, StatsFiles, RowFiles
<1>3. Control'
  BY FilesKept, PlacesKept, SweepKept DEF Control
<1> QED
  BY <1>1, <1>2, <1>3 DEF SimInv

(* Every variable of the process keeps its type: the rounds stay in the       *)
(* campaign and the sweep in the array, whichever handler cuts in where.      *)
THEOREM CampaignTypeCorrect == SimSpec => []SimTypeOK
<1>1. SimSpec => []SimInv
  BY SimInvInit, SimInvStep, PTL DEF SimSpec
<1>2. SimInv => SimTypeOK
  BY DEF SimInv
<1> QED
  BY <1>1, <1>2, PTL

-----------------------------------------------------------------------------
(* The one stream of Stat, and who wrote the report of which round. *)

\* Main has written the report of this round and is still in it.
Reported == pc["main"] \in {"reset_trace", "reset_result", "reset_stat", "next_round"}

StreamInv ==
  /\ stats_open <=> pc["main"] = "print_write" \/ pc["handler"] = "print_write"
  /\ pc["main"] # "print_write" \/ pc["handler"] # "print_write"
  /\ pc["handler"] = "print_write" => stats_file[repeat_round].by = "open"
  /\ \A r \in Rounds :
       stats_file[r].by = "main" => r < repeat_round \/ (r = repeat_round /\ Reported)
  /\ AbortedOnlyByReentry

(* No report is written at first. *)
LEMMA StreamInit == SimInit => StreamInv
BY DEF SimInit, StreamInv, Reported, NoStats, AbortedOnlyByReentry

(* Every step keeps the stream and the reports in order. *)
LEMMA StreamStep == SimInv /\ StreamInv /\ [SimNext]_simVars => StreamInv'
<1> SUFFICES ASSUME SimInv, StreamInv, [SimNext]_simVars PROVE StreamInv'
  OBVIOUS
<1> USE RoundNumbers DEF StreamInv, Reported, AbortedOnlyByReentry, SimInv, Control, SimTypeOK,
        Actors, procVars, roundVars, fileVars, At, Goto, End, Running
<1>1. CASE SetSignal
  BY <1>1 DEF SetSignal
<1>2. CASE SetSignalHandler
  BY <1>2 DEF SetSignalHandler
<1>3. CASE SetFaultResult
  BY <1>3 DEF SetFaultResult
<1>4. CASE SetFaultTrace
  BY <1>4 DEF SetFaultTrace
<1>5. CASE CountAccess
  BY <1>5 DEF CountAccess, simUnchangedByRequest
<1>b. CASE RandomAccess
  BY <1>b DEF RandomAccess, simUnchangedByRequest
<1>6. CASE SequentialAccess
  BY <1>6 DEF SequentialAccess, simUnchangedByRequest
<1>7. CASE UninitialisedAccess
  BY <1>7 DEF UninitialisedAccess
<1>8. CASE ServeRequest
  BY <1>8 DEF ServeRequest, simUnchangedByRequest
<1>9. CASE AfterRequest
  BY <1>9 DEF AfterRequest, simUnchangedByRequest
<1>10. ASSUME NEW self \in Actors, OpenStats(self) PROVE StreamInv'
  <2>1. /\ pc[self] = "print_open" /\ status = "running"
        /\ self = "main" => pc["handler"] = "off"
        /\ UNCHANGED <<repeat_round, is_sig_term>>
    BY <1>10 DEF OpenStats
  <2>2. CASE ~stats_open /\ stats_open' = TRUE /\ pc' = [pc EXCEPT ![self] = "print_write"]
             /\ UNCHANGED status
             /\ stats_file' = [stats_file EXCEPT ![repeat_round] =
                                 [by |-> "open", stat |-> NoStats.stat]]
    <3> DEFINE f == [by |-> "open", stat |-> NoStats.stat]
    <3>1. f.by = "open" /\ stats_file'[repeat_round] = f
      BY <2>2
    <3> HIDE DEF f
    <3>2. \A r \in Rounds : r # repeat_round => stats_file'[r] = stats_file[r]
      BY <2>2
    <3>3. pc'[self] = "print_write" /\ \A a \in Actors : a # self => pc'[a] = pc[a]
      BY <2>2
    <3> QED
      BY <2>1, <2>2, <3>1, <3>2, <3>3
  <2>3. CASE /\ stats_open \/ OpenMayFail \/ StatFreed
             /\ UNCHANGED <<pc, stats_open, stats_file>>
    BY <2>1, <2>3 DEF StatFreed
  <2>4. CASE status' = "crashed" /\ UNCHANGED <<pc, stats_open, stats_file>>
    BY <2>1, <2>4
  <2> QED
    BY <1>10, <2>2, <2>3, <2>4 DEF OpenStats
<1>11. ASSUME NEW self \in Actors, WriteStats(self) PROVE StreamInv'
  BY <1>11 DEF WriteStats, StatsClosed
<1>12. ASSUME NEW self \in Actors, ResetFaultTrace(self) PROVE StreamInv'
  BY <1>12 DEF ResetFaultTrace
<1>13. ASSUME NEW self \in Actors, ResetFaultResult(self) PROVE StreamInv'
  BY <1>13 DEF ResetFaultResult
<1>14. ASSUME NEW self \in Actors, ResetCounters(self) PROVE StreamInv'
  BY <1>14 DEF ResetCounters
<1>15. CASE NextRound
  BY <1>15 DEF NextRound
<1>16. CASE DeleteGenerator
  BY <1>16 DEF DeleteGenerator
<1>c. CASE DeleteUninitialised
  BY <1>c DEF DeleteUninitialised
<1>17. CASE WriteFaultMap
  BY <1>17 DEF WriteFaultMap
<1>18. CASE Delete
  BY <1>18 DEF Delete
<1>19. ASSUME NEW sig \in Signals, Signal(sig) PROVE StreamInv'
  BY <1>19 DEF Signal, IgnoreSignal
<1>20. CASE Kill
  BY <1>20 DEF Kill
<1>d. CASE Exit
  BY <1>d DEF Exit
<1>21. CASE UNCHANGED simVars
  BY <1>21 DEF simVars
<1> QED
  BY <1>1, <1>2, <1>3, <1>4, <1>5, <1>6, <1>7, <1>8, <1>9, <1>10, <1>11, <1>12, <1>13,
     <1>14, <1>15, <1>16, <1>17, <1>18, <1>19, <1>20, <1>21, <1>b, <1>c, <1>d
  DEF SimNext, Main, Handler, Environment, PrintResult

(* They are, in every reachable state. *)
LEMMA Streams == SimSpec => [](SimInv /\ StreamInv)
<1>1. SimInit => SimInv /\ StreamInv
  BY SimInvInit, StreamInit
<1>2. SimInv /\ StreamInv /\ [SimNext]_simVars => (SimInv /\ StreamInv)'
  BY SimInvStep, StreamStep
<1> QED
  BY <1>1, <1>2, PTL DEF SimSpec

(* With writable output files nothing but the handler, at its open of a       *)
(* stream that main has open or has freed, can abort the process              *)
(* (AbruptExit in Stat::PrintStat).                                           *)
THEOREM AbortsNeedTheHandler == SimSpec => []AbortedOnlyByReentry
<1>1. StreamInv => AbortedOnlyByReentry
  BY DEF StreamInv
<1> QED
  BY <1>1, Streams, PTL

(* A report main has written is overwritten by nobody but the handler, and    *)
(* never after repeat_round++ (PrintStat against the loop of main).           *)
THEOREM ReportsAreKept == SimSpec => FinishedReportKept
<1> DEFINE Kept ==
      \A r \in Rounds :
        stats_file[r].by = "main" /\ stats_file'[r] # stats_file[r] =>
          /\ r = repeat_round
          /\ pc["handler"] = "print_open"
          /\ pc["main"] \in {"reset_trace", "reset_result", "reset_stat", "next_round"}
<1>1. SimInv /\ StreamInv /\ [SimNext]_simVars => [Kept]_simVars
  <2> SUFFICES ASSUME SimInv, StreamInv, SimNext PROVE Kept
    OBVIOUS
  <2> USE DEF SimInv, SimTypeOK, Control, At, Running
  <2>1. ASSUME NEW self \in Actors, OpenStats(self) PROVE Kept
    <3> SUFFICES ASSUME NEW r \in Rounds, stats_file[r].by = "main",
                        stats_file'[r] # stats_file[r]
                 PROVE  r = repeat_round /\ pc["handler"] = "print_open" /\ Reported
      BY DEF Reported
    <3>1. r = repeat_round
      BY <2>1 DEF OpenStats
    <3>2. Reported
      BY <3>1, RoundNumbers DEF StreamInv
    <3>3. pc[self] = "print_open"
      BY <2>1 DEF OpenStats
    <3> QED
      BY <3>1, <3>2, <3>3 DEF Reported, Actors
  <2>2. ASSUME NEW self \in Actors, WriteStats(self) PROVE Kept
    BY <2>2, RoundNumbers DEF WriteStats, StreamInv, Reported, Actors
  <2>3. ASSUME UNCHANGED stats_file PROVE Kept
    BY <2>3
  <2> HIDE DEF Kept
  <2> QED
    BY <2>1, <2>2, <2>3
    DEF SimNext, Main, Handler, Environment, PrintResult, SetSignal, SetSignalHandler,
        SetFaultResult, SetFaultTrace, CountAccess, RandomAccess, SequentialAccess,
        UninitialisedAccess, DeleteUninitialised,
        ServeRequest, AfterRequest, ResetFaultTrace, ResetFaultResult, ResetCounters,
        NextRound, DeleteGenerator, WriteFaultMap, Delete, Signal, Kill, Exit, fileVars,
        simUnchangedByRequest, Actors
<1> QED
  BY <1>1, Streams, PTL DEF SimSpec, FinishedReportKept

-----------------------------------------------------------------------------
(* One round after the other. *)

\* The counters of the report agree with each other and with the two files,
\* but for the request, the row and the line in progress.
Balanced ==
  /\ stat.executed_request_num =
       stat.fault_request_num + stat.correct_request_num + One(rpc \notin {"idle", "trace"})
  /\ result_rows + One(rpc = "row") = stat.all_fault_bit_num
  /\ FaultTraceOn => trace_lines + One(rpc = "trace") = stat.fault_request_num

Cleared ==
  /\ stat.executed_request_num = 0 /\ stat.fault_request_num = 0
  /\ stat.correct_request_num = 0  /\ stat.all_fault_bit_num = 0

\* The buffers hold what the round's report says.
Written ==
  LET s == stats_file[repeat_round].stat
  IN /\ s.executed_request_num = s.fault_request_num + s.correct_request_num
     /\ result_rows = s.all_fault_bit_num
     /\ FaultTraceOn => trace_lines = s.fault_request_num

ByMain == stats_file[repeat_round].by = "main"
ResultOpen == result_file[repeat_round] = Opened
TraceIs(f) == FaultTraceOn => trace_file[repeat_round] = f

\* The round's counters started from zero.
Ctd == Counted(repeat_round)

\* What main has done of the round it is in, unless a handler has cut in.
Progress ==
  /\ pc["main"] = "open_result" => (Ctd => Cleared)
  /\ pc["main"] = "open_trace" => ResultOpen /\ (Ctd => Cleared /\ result_rows = 0)
  /\ pc["main"] \in {"access", "serve", "print_open", "print_write"} =>
       ResultOpen /\ TraceIs(Opened) /\ (Ctd => Balanced)
  /\ pc["main"] = "reset_trace" =>
       ByMain /\ ResultOpen /\ TraceIs(Opened) /\ (Ctd => Written)
  /\ pc["main"] = "reset_result" =>
       ByMain /\ ResultOpen /\ TraceIs(Closed(trace_lines)) /\ (Ctd => Written)
  /\ pc["main"] \in {"reset_stat", "next_round"} =>
       Complete(repeat_round) /\ (Ctd => Consistent(repeat_round))

\* ResetStat has cleared what it has got to.
ClearedSoFar ==
  /\ pc["main"] = "reset_stat" =>
       \A j \in 1 .. cleared["main"] : stat[ResetOrder[j]] = 0
  /\ pc["main"] = "next_round" => Cleared
  /\ pc["main"] = "set_signal" /\ ZeroStart => Cleared

Past ==
  \A r \in Rounds :
    r < repeat_round => Complete(r) /\ (Counted(r) => Consistent(r))

RoundInv ==
  /\ pc["main"] = "set_signal" => repeat_round = StartRound
  /\ pc["handler"] = "off" => Progress /\ ClearedSoFar
  /\ Past

(* Before the first round nothing is promised but that it is the first. *)
LEMMA RoundInit == SimInit => RoundInv
<1> SUFFICES ASSUME SimInit PROVE RoundInv
  OBVIOUS
<1>1. ZeroStart => Cleared
  <2>1. \A c \in {"executed_request_num", "fault_request_num", "correct_request_num",
                  "all_fault_bit_num"} : c \in Counters \ BLCounters
    BY DEF Counters, BLCounters
  <2> QED
    BY <2>1 DEF SimInit, ZeroStart, Cleared
<1>2. Progress /\ Past
  BY RoundNumbers DEF SimInit, Progress, Past
<1> QED
  BY <1>1, <1>2 DEF SimInit, RoundInv, ClearedSoFar

(* A call keeps the counters in balance with the rows and the lines. *)
LEMMA BalancedCall ==
  ASSUME Inv0, Balanced, Call
  PROVE  Balanced'
<1>0. /\ stat.executed_request_num \in Nat /\ stat.fault_request_num \in Nat
      /\ stat.correct_request_num \in Nat /\ stat.all_fault_bit_num \in Nat
      /\ fault_count_in_BL \in Nat /\ result_rows \in Nat /\ trace_lines \in Nat
  BY CounterNames DEF Inv0, TypeOK, Stats
<1> DEFINE Same(C) ==
      /\ "executed" \in C => stat'.executed_request_num = stat.executed_request_num
      /\ "fault" \in C => stat'.fault_request_num = stat.fault_request_num
      /\ "correct" \in C => stat'.correct_request_num = stat.correct_request_num
      /\ "bits" \in C => stat'.all_fault_bit_num = stat.all_fault_bit_num
      /\ "rows" \in C => result_rows' = result_rows
      /\ "lines" \in C => trace_lines' = trace_lines
<1> DEFINE SameCounters == Same({"executed", "fault", "correct", "bits"})
<1>a. ASSUME SameCounters, Same({"rows", "lines"}),
             rpc \notin {"idle", "trace", "row"}, rpc' \notin {"idle", "trace", "row"}
      PROVE  Balanced'
  BY <1>a DEF Balanced, One
<1> USE DEF OnlyCounts
<1>1. CASE AccessMemory
  <2>1. /\ Same({"fault", "correct", "bits"})
        /\ stat'.executed_request_num = stat.executed_request_num + 1
    BY <1>1, RequestCounters, CounterNames
  <2>2. rpc = "idle" /\ rpc' = "accepted" /\ Same({"rows", "lines"})
    BY <1>1 DEF AccessMemory, reportVars
  <2> QED
    BY <1>0, <2>1, <2>2 DEF Balanced, One
<1>2. ASSUME NEW addr \in Addresses, NEW data \in DataPatterns, NEW is_write \in BOOLEAN,
             RecvRequest(addr, data, is_write)
      PROVE  Balanced'
  <2>1. SameCounters
    BY <1>2, RequestCounters, CounterNames
  <2> QED
    BY <1>2, <1>a, <2>1 DEF RecvRequest, reportVars
<1>3. CASE HardFaultError
  <2>1. SameCounters
    BY <1>3, RequestCounters, CounterNames
  <2> QED
    BY <1>3, <1>a, <2>1 DEF HardFaultError, reportVars
<1>4. CASE VRTFaultError
  <2>1. SameCounters
    BY <1>4, RequestCounters, CounterNames
  <2> QED
    BY <1>4, <1>a, <2>1 DEF VRTFaultError, reportVars
<1>5. CASE CorrectColumn
  <2>1. SameCounters
    BY <1>5, ColumnCounters, CounterNames
  <2> QED
    BY <1>5, <1>a, <2>1 DEF CorrectColumn, reportVars
<1>6. CASE MaskedColumn
  <2>1. SameCounters
    BY <1>6, ColumnCounters, CounterNames
  <2> QED
    BY <1>6, <1>a, <2>1 DEF MaskedColumn, reportVars
<1>7. CASE ClassifyColumn
  <2>1. SameCounters
    BY <1>7, ColumnCounters, CounterNames
  <2> QED
    BY <1>7, <1>a, <2>1 DEF ClassifyColumn, reportVars
<1>8. CASE NumberRow
  <2>1. /\ Same({"executed", "fault", "correct"})
        /\ stat'.all_fault_bit_num = stat.all_fault_bit_num + 1
    BY <1>8, ColumnCounters, CounterNames
  <2>2. rpc = "number" /\ rpc' = "row" /\ Same({"rows", "lines"})
    BY <1>8 DEF NumberRow, reportVars
  <2> QED
    BY <1>0, <2>1, <2>2 DEF Balanced, One
<1>9. CASE PrintRow
  <2>1. /\ SameCounters /\ Same({"lines"}) /\ result_rows' = result_rows + 1
        /\ rpc = "row" /\ rpc' = "number"
    BY <1>9 DEF PrintRow
  <2> QED
    BY <1>0, <2>1 DEF Balanced, One
<1>10. CASE FaultColumn
  <2>1. SameCounters
    BY <1>10, ColumnCounters, CounterNames
  <2> QED
    BY <1>10, <1>a, <2>1 DEF FaultColumn, reportVars
<1>11. CASE ClassifyRequest
  <2>1. SameCounters
    BY <1>11, VerdictCounters, CounterNames DEF BLCounters
  <2> QED
    BY <1>11, <1>a, <2>1 DEF ClassifyRequest, reportVars
<1>12. CASE JudgeRequest
  <2>1. /\ Same({"executed", "bits"})
        /\ stat'.fault_request_num = stat.fault_request_num + One(fault_count_in_BL # 0)
        /\ stat'.correct_request_num = stat.correct_request_num + One(fault_count_in_BL = 0)
    BY <1>12, VerdictCounters, CounterNames
  <2>2. /\ rpc = "verdict" /\ Same({"rows", "lines"})
        /\ rpc' = IF fault_count_in_BL # 0 /\ FaultTraceOn THEN "trace" ELSE "idle"
    BY <1>12 DEF JudgeRequest, reportVars
  <2> QED
    BY <1>0, <2>1, <2>2 DEF Balanced, One
<1>13. CASE PrintFaultTrace
  <2>1. /\ SameCounters /\ Same({"rows"}) /\ trace_lines' = trace_lines + 1
        /\ rpc = "trace" /\ rpc' = "idle"
    BY <1>13 DEF PrintFaultTrace
  <2> QED
    BY <1>0, <2>1 DEF Balanced, One
<1> QED
  BY <1>1, <1>2, <1>3, <1>4, <1>5, <1>6, <1>7, <1>8, <1>9, <1>10, <1>11, <1>12, <1>13
  DEF Call, Serve, CheckFaultMask

(* A finished round is consistent as long as its files are left alone. *)
LEMMA PastKept ==
  ASSUME Past, repeat_round \in Nat, repeat_round' = repeat_round,
         \A r \in Rounds : r # repeat_round =>
           /\ stats_file'[r] = stats_file[r]
           /\ result_file'[r] = result_file[r] /\ trace_file'[r] = trace_file[r]
  PROVE  Past'
<1>1. ASSUME NEW r \in Rounds, r < repeat_round
      PROVE  Complete(r)' /\ (Counted(r) => Consistent(r)')
  <2>1. r # repeat_round
    BY <1>1, RoundNumbers
  <2>2. Complete(r) /\ (Counted(r) => Consistent(r))
    BY <1>1 DEF Past
  <2> QED
    BY <1>1, <2>1, <2>2 DEF Consistent, Complete
<1> QED
  BY <1>1 DEF Past, Counted

(* The state the account of a round is about. *)
LEMMA RoundTypes ==
  ASSUME SimInv
  PROVE  /\ pc \in [Actors -> Labels] /\ repeat_round \in Rounds
         /\ result_file \in [Rounds -> RowFiles] /\ trace_file \in [Rounds -> RowFiles]
         /\ stats_file \in [Rounds -> StatsFiles]
         /\ Inv0 /\ StartRound \in Nat /\ Limit \in Nat /\ repeat_round \in Nat
         /\ Rounds \subseteq Nat /\ StartRound <= repeat_round
         /\ pc["main"] # "serve" => rpc = "idle"
         /\ cleared \in [Actors -> 0 .. 13]
<1>1. /\ pc \in [Actors -> Labels] /\ repeat_round \in Rounds /\ opts \in Options /\ Inv0
      /\ result_file \in [Rounds -> RowFiles] /\ trace_file \in [Rounds -> RowFiles]
      /\ stats_file \in [Rounds -> StatsFiles]
      /\ pc["main"] # "serve" => rpc = "idle"
  BY DEF SimInv, SimTypeOK, Control, RowFiles, StatsFiles
<1>2. cleared \in [Actors -> 0 .. 13]
  BY ResetOrderFacts DEF SimInv, SimTypeOK
<1> QED
  BY <1>1, <1>2, RoundNumbers


(* A step of main keeps the account of its round. *)
LEMMA RoundStep == SimInv /\ RoundInv /\ [SimNext]_simVars => RoundInv'
<1> SUFFICES ASSUME SimInv, RoundInv, [SimNext]_simVars PROVE RoundInv'
  OBVIOUS
<1> DEFINE SameFiles ==
      \A r \in Rounds : r # repeat_round =>
        /\ stats_file'[r] = stats_file[r]
        /\ result_file'[r] = result_file[r] /\ trace_file'[r] = trace_file[r]
<1>0. /\ pc \in [Actors -> Labels] /\ repeat_round \in Rounds
      /\ result_file \in [Rounds -> RowFiles] /\ trace_file \in [Rounds -> RowFiles]
      /\ stats_file \in [Rounds -> StatsFiles]
      /\ Inv0 /\ StartRound \in Nat /\ Limit \in Nat /\ repeat_round \in Nat
      /\ Rounds \subseteq Nat /\ StartRound <= repeat_round
      /\ pc["main"] # "serve" => rpc = "idle"
  BY RoundTypes
<1>p. ASSUME repeat_round' = repeat_round, SameFiles PROVE Past' /\ (Ctd' <=> Ctd)
  BY <1>0, <1>p, PastKept DEF RoundInv, Ctd, Counted
<1> USE DEF At, Goto, Running, Actors, procVars
<1>1. ASSUME UNCHANGED <<vars, pc, repeat_round, cleared, stats_file, result_file, trace_file>>
      PROVE  RoundInv'
  <2>1. Past' /\ (Ctd' <=> Ctd)
    BY <1>1, <1>p
  <2>2. Progress => Progress'
    BY <1>1, <2>1 DEF Progress, Balanced, Cleared, Written, ResultOpen, TraceIs, ByMain,
                      Consistent, Complete, vars, memVars, reportVars
  <2>3. ClearedSoFar => ClearedSoFar'
    BY <1>1 DEF ClearedSoFar, Cleared, vars
  <2> QED
    BY <1>1, <2>1, <2>2, <2>3 DEF RoundInv
<1>2. CASE SetSignal \/ UninitialisedAccess \/ Kill \/ Exit \/ UNCHANGED simVars
  BY <1>1, <1>2 DEF SetSignal, UninitialisedAccess, Kill, Exit, simVars, roundVars, fileVars
\* While the handler runs main's progress is not looked at.
<1>3. ASSUME pc'["main"] = pc["main"], pc'["handler"] # "off", repeat_round' = repeat_round,
             SameFiles
      PROVE  RoundInv'
  BY <1>3, <1>p DEF RoundInv
<1>4. ASSUME NEW sig \in Signals, Signal(sig) PROVE RoundInv'
  <2>1. UNCHANGED <<vars, repeat_round, cleared, stats_file, result_file, trace_file>>
    BY <1>4 DEF Signal, roundVars, fileVars
  <2>2. CASE UNCHANGED pc
    BY <1>1, <2>1, <2>2
  <2>3. CASE pc' = [pc EXCEPT !["handler"] = "print_open"]
    <3>1. pc'["main"] = pc["main"] /\ pc'["handler"] # "off"
      BY <1>0, <2>3
    <3> QED
      BY <1>3, <2>1, <3>1
  <2> QED
    BY <1>4, <2>2, <2>3 DEF Signal
<1>5. ASSUME PrintResult("handler") PROVE RoundInv'
  <2>1. SameFiles /\ repeat_round' = repeat_round
    BY <1>0, <1>5 DEF PrintResult, OpenStats, WriteStats, ResetFaultTrace, ResetFaultResult,
                      ResetCounters, ClosedFile, fileVars, roundVars
  <2>2. pc'["main"] = pc["main"] /\ pc'["handler"] # "off"
    <3>1. CASE ResetCounters("handler")
      BY <1>0, <3>1, ResetMoves
    <3>2. CASE ~ResetCounters("handler")
      BY <1>0, <1>5, <3>2 DEF PrintResult, OpenStats, WriteStats, ResetFaultTrace,
                              ResetFaultResult
    <3> QED
      BY <3>1, <3>2
  <2> QED
    BY <1>3, <2>1, <2>2
\* A step of main within a round, to a place where ResetStat is not under way.
<1>6. ASSUME repeat_round' = repeat_round, SameFiles, pc'["main"] \notin {"set_signal", "next_round"},
             pc'["main"] = "reset_stat" => cleared'["main"] = 0, Progress'
      PROVE  RoundInv'
  <2>1. ClearedSoFar'
    <3>1. 1 .. 0 = {}
      OBVIOUS
    <3> QED
      BY <1>6, <3>1 DEF ClearedSoFar
  <2> QED
    BY <1>6, <1>p, <2>1 DEF RoundInv
<1> USE DEF roundVars
<1>7. CASE SetSignalHandler
  <2>1. /\ UNCHANGED <<vars, repeat_round, fileVars>>
        /\ pc["main"] = "set_signal" /\ pc["handler"] = "off"
        /\ pc'["main"] \in {"open_result", "delete_generator"}
    BY <1>0, <1>7 DEF SetSignalHandler
  <2>2. Ctd => Cleared
    BY <1>0, <2>1 DEF Ctd, Counted, RoundInv, ClearedSoFar
  <2>3. Ctd' => Cleared'
    BY <2>1, <2>2 DEF Ctd, Counted, Cleared, vars
  <2>4. Progress'
    BY <2>1, <2>3 DEF Progress
  <2> QED
    BY <1>6, <2>1, <2>4 DEF fileVars
<1>8. CASE DeleteGenerator \/ DeleteUninitialised \/ WriteFaultMap \/ Delete
  <2>1. /\ UNCHANGED <<repeat_round, stats_file, result_file, trace_file>>
        /\ pc'["main"] \in EndLabels
    BY <1>0, <1>8 DEF DeleteGenerator, DeleteUninitialised, WriteFaultMap, Delete, EndLabels,
                      fileVars
  <2>2. Progress'
    BY <2>1 DEF EndLabels, Progress
  <2> QED
    BY <1>6, <2>1, <2>2 DEF EndLabels
<1>9. CASE CountAccess \/ RandomAccess \/ SequentialAccess \/ ServeRequest
  <2>1. Call
    BY <1>9, CallSteps
  <2>2. /\ pc["main"] \in {"access", "serve"} /\ pc'["main"] = "serve"
        /\ pc["handler"] = "off"
        /\ UNCHANGED <<repeat_round, stats_file, result_file, trace_file>>
    BY <1>0, <1>9 DEF CountAccess, RandomAccess, SequentialAccess, ServeRequest,
                      simUnchangedByRequest, fileVars
  <2>3. Progress
    BY <2>2 DEF RoundInv
  <2>4. Balanced => Balanced'
    BY <1>0, <2>1, BalancedCall
  <2>5. Progress'
    BY <2>2, <2>3, <2>4 DEF Progress, ResultOpen, TraceIs, Ctd, Counted
  <2> QED
    BY <1>6, <2>2, <2>5
<1>10. CASE AfterRequest
  <2>1. /\ pc["main"] = "serve" /\ pc["handler"] = "off"
        /\ pc'["main"] \in {"access", "print_open"}
        /\ UNCHANGED <<vars, repeat_round, stats_file, result_file, trace_file>>
    BY <1>0, <1>10 DEF AfterRequest, simUnchangedByRequest, fileVars
  <2>2. Progress
    BY <2>1 DEF RoundInv
  <2>3. Progress'
    BY <2>1, <2>2 DEF Progress, Balanced, ResultOpen, TraceIs, Ctd, Counted, vars, memVars,
                      reportVars
  <2> QED
    BY <1>6, <2>1, <2>3
<1>11. CASE SetFaultResult
  <2>1. /\ pc["main"] = "open_result" /\ pc["handler"] = "off" /\ rpc = "idle"
        /\ UNCHANGED <<stat, rpc, trace_lines, repeat_round, cleared, stats_file, trace_file>>
    BY <1>0, <1>11 DEF SetFaultResult
  <2>2. CASE /\ result_file' = [result_file EXCEPT ![repeat_round] = Opened]
             /\ result_rows' = 0
             /\ Goto("main", IF FaultTraceOn THEN "open_trace" ELSE "access")
    <3>1. /\ pc'["main"] = IF FaultTraceOn THEN "open_trace" ELSE "access"
          /\ result_file'[repeat_round] = Opened
          /\ \A r \in Rounds : r # repeat_round => result_file'[r] = result_file[r]
      BY <1>0, <2>2
    <3>2. Ctd => Cleared
      BY <2>1 DEF RoundInv, Progress
    <3>3. Ctd => Cleared' /\ (~FaultTraceOn => Balanced')
      BY <2>1, <2>2, <3>2 DEF Cleared, Balanced, One
    <3>4. Progress'
      BY <2>1, <2>2, <3>1, <3>3 DEF Progress, ResultOpen, TraceIs, Ctd, Counted
    <3> QED
      BY <1>6, <2>1, <3>1, <3>4
  <2>3. CASE UNCHANGED <<pc, result_file, result_rows>>
    BY <1>1, <1>11, <2>3 DEF SetFaultResult, vars, memVars, reportVars
  <2> QED
    BY <1>11, <2>2, <2>3 DEF SetFaultResult
<1>12. CASE SetFaultTrace
  <2>1. /\ pc["main"] = "open_trace" /\ pc["handler"] = "off" /\ rpc = "idle"
        /\ UNCHANGED <<stat, rpc, result_rows, repeat_round, cleared, stats_file, result_file>>
    BY <1>0, <1>12 DEF SetFaultTrace
  <2>2. CASE /\ trace_file' = [trace_file EXCEPT ![repeat_round] = Opened]
             /\ trace_lines' = 0
             /\ Goto("main", "access")
    <3>1. /\ pc'["main"] = "access"
          /\ trace_file'[repeat_round] = Opened
          /\ \A r \in Rounds : r # repeat_round => trace_file'[r] = trace_file[r]
      BY <1>0, <2>2
    <3>2. ResultOpen /\ (Ctd => Cleared /\ result_rows = 0)
      BY <2>1 DEF RoundInv, Progress
    <3>3. Ctd => Balanced'
      BY <2>1, <2>2, <3>2 DEF Cleared, Balanced, One
    <3>4. Progress'
      BY <2>1, <3>1, <3>2, <3>3 DEF Progress, ResultOpen, TraceIs, Ctd, Counted
    <3> QED
      BY <1>6, <2>1, <3>1, <3>4
  <2>3. CASE UNCHANGED <<pc, trace_file, trace_lines>>
    BY <1>1, <1>12, <2>3 DEF SetFaultTrace, vars, memVars, reportVars
  <2> QED
    BY <1>12, <2>2, <2>3 DEF SetFaultTrace
<1>13. CASE OpenStats("main")
  <2>1. /\ pc["main"] = "print_open" /\ pc["handler"] = "off" /\ rpc = "idle"
        /\ UNCHANGED <<vars, repeat_round, cleared, result_file, trace_file>>
    BY <1>0, <1>13 DEF OpenStats
  <2>2. CASE /\ pc'["main"] = "print_write"
             /\ \A r \in Rounds : r # repeat_round => stats_file'[r] = stats_file[r]
    <3>1. Progress
      BY <2>1 DEF RoundInv
    <3>2. Progress'
      BY <2>1, <2>2, <3>1 DEF Progress, Balanced, ResultOpen, TraceIs, Ctd, Counted, vars,
                              memVars, reportVars
    <3> QED
      BY <1>6, <2>1, <2>2, <3>2
  <2>3. CASE UNCHANGED <<pc, stats_file>>
    BY <1>1, <2>1, <2>3
  <2> QED
    BY <1>0, <1>13, <2>2, <2>3 DEF OpenStats
<1>14. CASE WriteStats("main")
  <2>1. /\ pc["main"] = "print_write" /\ pc["handler"] = "off" /\ rpc = "idle"
        /\ pc'["main"] = IF FaultTraceOn THEN "reset_trace" ELSE "reset_result"
        /\ stats_file' = [stats_file EXCEPT ![repeat_round] = [by |-> "main", stat |-> stat]]
        /\ UNCHANGED <<vars, repeat_round, result_file, trace_file>>
    BY <1>0, <1>14 DEF WriteStats
  <2>2. stats_file'[repeat_round] = [by |-> "main", stat |-> stat]
    BY <1>0, <2>1
  <2>3. Balanced => Written'
    <3>1. /\ stat.fault_request_num \in Nat /\ stat.correct_request_num \in Nat
          /\ result_rows \in Nat /\ trace_lines \in Nat
      BY <1>0, CounterNames DEF Inv0, TypeOK, Stats
    <3>2. /\ result_rows' = result_rows /\ trace_lines' = trace_lines
          /\ stats_file'[repeat_round'].stat = stat
      BY <2>1, <2>2 DEF vars, memVars, reportVars
    <3> QED
      BY <2>1, <3>1, <3>2 DEF Balanced, Written, One
  <2>4. ResultOpen /\ TraceIs(Opened) /\ (Ctd => Balanced)
    BY <2>1 DEF RoundInv, Progress
  <2>5. Progress'
    BY <2>1, <2>2, <2>3, <2>4 DEF Progress, ResultOpen, TraceIs, ByMain, Ctd, Counted
  <2> QED
    BY <1>0, <1>6, <2>1, <2>5
<1>15. CASE ResetFaultTrace("main")
  <2>1. /\ pc["main"] = "reset_trace" /\ pc["handler"] = "off" /\ rpc = "idle"
        /\ pc'["main"] = "reset_result"
        /\ trace_file' = ClosedFile(trace_file, trace_lines)
        /\ UNCHANGED <<result_rows, trace_lines, repeat_round, stats_file, result_file>>
    BY <1>0, <1>15 DEF ResetFaultTrace, vars, memVars, reportVars
  <2>2. TraceIs(Opened) => TraceIs(Closed(trace_lines))'
    BY <1>0, <2>1 DEF ClosedFile, TraceIs, Opened, Closed
  <2>3. ByMain /\ ResultOpen /\ TraceIs(Opened) /\ (Ctd => Written)
    BY <2>1 DEF RoundInv, Progress
  <2>4. Progress'
    BY <2>1, <2>2, <2>3 DEF Progress, Written, ResultOpen, ByMain, Ctd, Counted
  <2>5. \A r \in Rounds : r # repeat_round => trace_file'[r] = trace_file[r]
    BY <1>0, <2>1 DEF ClosedFile
  <2> QED
    BY <1>6, <2>1, <2>4, <2>5
<1>16. CASE ResetFaultResult("main")
  <2>1. /\ pc["main"] = "reset_result" /\ pc["handler"] = "off" /\ rpc = "idle"
        /\ pc'["main"] = "reset_stat"
        /\ result_file' = ClosedFile(result_file, result_rows)
        /\ UNCHANGED <<cleared, result_rows, trace_lines, repeat_round, stats_file, trace_file>>
    BY <1>0, <1>16 DEF ResetFaultResult, vars, memVars, reportVars
  <2>2. ByMain /\ ResultOpen /\ TraceIs(Closed(trace_lines)) /\ (Ctd => Written)
    BY <2>1 DEF RoundInv, Progress
  <2>3. result_file'[repeat_round] = Closed(result_rows)
    BY <1>0, <2>1, <2>2 DEF ClosedFile, ResultOpen, Opened
  <2>4. Complete(repeat_round)'
    BY <2>1, <2>2, <2>3 DEF Complete, ByMain, TraceIs, Closed
  <2>5. Written => Consistent(repeat_round)'
    BY <2>1, <2>2, <2>3 DEF Written, TraceIs, Consistent, ByMain
  <2>6. Progress'
    BY <2>1, <2>2, <2>4, <2>5 DEF Progress, Ctd, Counted
  <2>7. \A r \in Rounds : r # repeat_round => result_file'[r] = result_file[r]
    BY <1>0, <2>1 DEF ClosedFile
  <2>8. cleared'["main"] = 0
    BY <2>1 DEF SimInv, Control
  <2> QED
    BY <1>6, <2>1, <2>6, <2>7, <2>8
<1>17. CASE ResetCounters("main")
  <2> DEFINE k == cleared["main"] + 1
  <2>1. /\ pc["main"] = "reset_stat" /\ pc["handler"] = "off" /\ k \in 1 .. 14
        /\ stat' = [stat EXCEPT ![ResetOrder[k]] = 0]
        /\ UNCHANGED <<repeat_round, stats_file, result_file, trace_file>>
        /\ \/ cleared["main"] < 13 /\ pc' = pc /\ cleared'["main"] = k
           \/ cleared["main"] = 13 /\ pc'["main"] = "next_round"
    <3>1. At("main", "reset_stat")
      BY <1>17 DEF ResetCounters
    <3> QED
      BY <1>17, <3>1, ResetMoves DEF fileVars
  <2>2. cleared["main"] \in 0 .. 13
    BY RoundTypes
  <2>3. \A j \in 1 .. cleared["main"] : stat[ResetOrder[j]] = 0
    BY <2>1 DEF RoundInv, ClearedSoFar
  <2>4. stat \in [Counters -> Nat]
    BY <1>0 DEF Inv0, TypeOK, Stats
  <2>5. \A j \in 1 .. k : stat'[ResetOrder[j]] = 0
    <3>1. ASSUME NEW j \in 1 .. k PROVE stat'[ResetOrder[j]] = 0
      <4>1. ResetOrder[j] \in Counters /\ ResetOrder[k] \in Counters
        BY <2>1, <2>2, ResetOrderFacts
      <4>2. CASE ResetOrder[j] = ResetOrder[k]
        BY <2>1, <2>4, <4>1, <4>2
      <4>3. CASE ResetOrder[j] # ResetOrder[k]
        <5>1. j \in 1 .. cleared["main"]
          BY <2>2, <4>3
        <5>2. stat[ResetOrder[j]] = 0
          BY <2>3, <5>1
        <5> QED
          BY <2>1, <2>4, <4>1, <4>3, <5>2
      <4> QED
        BY <4>2, <4>3
    <3> QED
      BY <3>1
  <2>6. Complete(repeat_round)' /\ (Ctd' => Consistent(repeat_round)')
    BY <2>1 DEF RoundInv, Progress, Consistent, Complete, Ctd, Counted
  <2>7. SameFiles
    BY <2>1
  <2>8. CASE cleared["main"] < 13 /\ pc' = pc /\ cleared'["main"] = k
    <3>1. Progress' /\ ClearedSoFar'
      BY <2>1, <2>5, <2>6, <2>8 DEF Progress, ClearedSoFar
    <3> QED
      BY <1>p, <2>1, <2>7, <2>8, <3>1 DEF RoundInv
  <2>9. CASE cleared["main"] = 13 /\ pc'["main"] = "next_round"
    <3>1. Cleared'
      <4>1. k = 14
        BY <2>9
      <4>2. /\ stat'[ResetOrder[1]] = 0 /\ stat'[ResetOrder[2]] = 0
            /\ stat'[ResetOrder[3]] = 0 /\ stat'[ResetOrder[7]] = 0
        BY <2>5, <4>1
      <4> QED
        BY <4>2, ResetOrderFacts DEF Cleared
    <3>2. Progress' /\ ClearedSoFar'
      BY <2>1, <2>6, <2>9, <3>1 DEF Progress, ClearedSoFar
    <3> QED
      BY <1>p, <2>1, <2>7, <2>9, <3>2 DEF RoundInv
  <2> QED
    BY <2>1, <2>8, <2>9
<1>18. CASE NextRound
  <2>1. /\ pc["main"] = "next_round" /\ pc["handler"] = "off"
        /\ pc'["main"] \in {"open_result", "delete_generator"}
        /\ repeat_round' = repeat_round + 1
        /\ UNCHANGED <<vars, stats_file, result_file, trace_file>>
    BY <1>0, <1>18 DEF NextRound, fileVars
  <2>2. Cleared
    BY <2>1 DEF RoundInv, ClearedSoFar
  <2>3. Progress' /\ ClearedSoFar'
    BY <2>1, <2>2 DEF Progress, ClearedSoFar, Cleared, vars
  <2>4. Past'
    <3>1. ASSUME NEW r \in Rounds, r < repeat_round + 1
          PROVE  Complete(r)' /\ (Counted(r) => Consistent(r)')
      <4>1. Complete(r) /\ (Counted(r) => Consistent(r))
        <5>1. CASE r = repeat_round
          BY <2>1, <5>1 DEF RoundInv, Progress, Ctd
        <5>2. CASE r # repeat_round
          BY <1>0, <3>1, <5>2 DEF RoundInv, Past
        <5> QED
          BY <5>1, <5>2
      <4> QED
        BY <2>1, <4>1 DEF Consistent, Complete
    <3> QED
      BY <2>1, <3>1 DEF Past, Counted
  <2> QED
    BY <2>1, <2>3, <2>4 DEF RoundInv
<1> HIDE DEF SameFiles
<1> QED
  BY <1>2, <1>4, <1>5, <1>7, <1>8, <1>9, <1>10, <1>11, <1>12, <1>13, <1>14, <1>15,
     <1>16, <1>17, <1>18
  DEF SimNext, Main, Handler, Environment, PrintResult

(* The account of the rounds, in every reachable state. *)
LEMMA EveryRound == SimSpec => [](SimInv /\ RoundInv)
<1>1. SimInit => SimInv /\ RoundInv
  BY SimInvInit, RoundInit
<1>2. SimInv /\ RoundInv /\ [SimNext]_simVars => (SimInv /\ RoundInv)'
  BY SimInvStep, RoundStep
<1> QED
  BY <1>1, <1>2, PTL DEF SimSpec

(* Whatever Stat's counters hold when the process starts, and whatever        *)
(* signals come, the files of every finished round but the first agree with   *)
(* each other (print_result and the loop of main).                            *)
THEOREM LaterRoundsAgree == SimSpec => []GarbageWashedOut
<1>1. SimInv /\ RoundInv => GarbageWashedOut
  BY RoundNumbers
  DEF SimInv, SimTypeOK, RoundInv, Past, Counted, GarbageWashedOut, FinishedRounds
<1> QED
  BY <1>1, EveryRound, PTL


-----------------------------------------------------------------------------
(* The end of main. *)

\* With -t main gets as far as the first access, or to its end if no round was
\* asked for.
NoGenerator ==
  /\ repeat_round = StartRound
  /\ pc["main"] \notin {"serve", "next_round"} \cup PrintLabels

EndInv ==
  /\ pc["main"] \in EndLabels => repeat_round = Limit
  /\ pc["main"] \in {"delete_stat", "delete_config", "return"}
       /\ opts.faultmap_write /\ ~opts.trace_file => map_file = "complete"
  /\ opts.trace_file => NoGenerator
  /\ status = "returned" => pc["main"] = "return"

(* Main comes to its end past the last round, and past the map. *)
LEMMA EndStep == SimInv /\ RoundInv /\ EndInv /\ [SimNext]_simVars => EndInv'
<1> SUFFICES ASSUME SimInv, RoundInv, EndInv, [SimNext]_simVars PROVE EndInv'
  OBVIOUS
<1>1. /\ pc \in [Actors -> Labels] /\ repeat_round \in Nat /\ Limit \in Nat
      /\ opts' = opts /\ Limit' = Limit
  BY FilesKept, RoundTypes DEF Limit
<1>a. /\ pc["main"] = "set_signal" => repeat_round <= Limit
      /\ pc["main"] \in RoundLabels => repeat_round < Limit
  BY RoundNumbers DEF SimInv, SimTypeOK, Control, RoundInv
<1> USE DEF At, Goto, End, Running, Actors, procVars, roundVars, fileVars
<1>2. ASSUME UNCHANGED <<repeat_round, map_file>>,
             pc'["main"] \in EndLabels => pc'["main"] = pc["main"],
             opts.trace_file => pc'["main"] \notin {"serve", "next_round"} \cup PrintLabels,
             status' = "returned" => status = "returned" /\ UNCHANGED pc
      PROVE  EndInv'
  BY <1>1, <1>2 DEF EndInv, NoGenerator, EndLabels
<1>3. CASE SetSignal \/ UninitialisedAccess \/ Kill \/ Exit \/ UNCHANGED simVars
  <2>1. UNCHANGED <<repeat_round, map_file, pc>> /\ (status' = "returned" => status = "returned")
    BY <1>3 DEF SetSignal, UninitialisedAccess, Kill, Exit, simVars
  <2> QED
    BY <1>2, <2>1 DEF EndInv, NoGenerator
<1>4. CASE SetFaultResult \/ SetFaultTrace
  <2>1. /\ UNCHANGED <<repeat_round, map_file>> /\ status' # "returned"
        /\ pc'["main"] \in {"open_result", "open_trace", "access"}
    BY <1>1, <1>4 DEF SetFaultResult, SetFaultTrace
  <2> QED
    BY <1>2, <2>1 DEF EndLabels, PrintLabels
<1>5. CASE CountAccess \/ RandomAccess \/ SequentialAccess \/ ServeRequest \/ AfterRequest
  <2>1. /\ UNCHANGED <<repeat_round, map_file, status>> /\ status = "running"
        /\ pc'["main"] \in {"serve", "access", "print_open"}
        /\ pc["main"] = "serve" \/ ~opts.trace_file
    BY <1>1, <1>5 DEF CountAccess, RandomAccess, SequentialAccess, ServeRequest, AfterRequest,
                      simUnchangedByRequest
  <2> QED
    BY <1>2, <2>1 DEF EndLabels, EndInv, NoGenerator
<1>6. ASSUME NEW self \in Actors,
             \/ OpenStats(self) \/ WriteStats(self)
             \/ ResetFaultTrace(self) \/ ResetFaultResult(self)
      PROVE  EndInv'
  <2>1. /\ UNCHANGED <<repeat_round, map_file>> /\ status' # "returned"
        /\ pc[self] \in PrintLabels
        /\ \/ pc' = pc
           \/ self = "handler" /\ pc'["main"] = pc["main"]
           \/ self = "main" /\ pc'["main"] \in PrintLabels
    BY <1>1, <1>6 DEF OpenStats, WriteStats, ResetFaultTrace, ResetFaultResult, PrintLabels
  <2> QED
    BY <1>2, <2>1 DEF EndLabels, PrintLabels, EndInv, NoGenerator
<1>7. ASSUME NEW self \in Actors, ResetCounters(self) PROVE EndInv'
  <2>1. /\ UNCHANGED <<repeat_round, map_file, status>> /\ status = "running"
        /\ pc[self] = "reset_stat"
        /\ \A a \in Actors : a # self => pc'[a] = pc[a]
        /\ \/ pc' = pc
           \/ pc'[self] = IF self = "main" THEN "next_round" ELSE "exit"
    <3>1. status = "running"
      BY <1>7 DEF ResetCounters
    <3> QED
      BY <1>7, <3>1, ResetMoves
  <2> QED
    BY <1>2, <2>1 DEF EndLabels, PrintLabels, EndInv, NoGenerator
<1>8. CASE SetSignalHandler
  <2>1. /\ pc["main"] = "set_signal" /\ UNCHANGED <<repeat_round, map_file, status>>
        /\ status = "running"
        /\ pc'["main"] = IF repeat_round < Limit THEN "open_result" ELSE "delete_generator"
    BY <1>1, <1>8 DEF SetSignalHandler
  <2> QED
    BY <1>1, <1>a, <2>1 DEF EndInv, NoGenerator, EndLabels, PrintLabels
<1>9. CASE NextRound
  <2>1. /\ pc["main"] = "next_round" /\ repeat_round' = repeat_round + 1
        /\ UNCHANGED <<map_file, status>> /\ status = "running"
        /\ pc'["main"] = IF repeat_round + 1 < Limit THEN "open_result" ELSE "delete_generator"
    BY <1>1, <1>9 DEF NextRound, AnotherRound
  <2> QED
    BY <1>1, <1>a, <2>1 DEF EndInv, NoGenerator, EndLabels, RoundLabels
<1>10. CASE DeleteGenerator
  <2>1. /\ pc["main"] = "delete_generator" /\ UNCHANGED repeat_round
        /\ status = "running" /\ status' # "returned" /\ ~opts.trace_file
        /\ \/ pc'["main"] = "delete_stat" /\ ~opts.faultmap_write
           \/ pc'["main"] = "write_map"
           \/ pc' = pc
    BY <1>1, <1>10 DEF DeleteGenerator
  <2> QED
    BY <1>1, <2>1 DEF EndInv, NoGenerator, EndLabels
<1>11. CASE DeleteUninitialised
  <2>1. /\ pc["main"] = "delete_generator" /\ UNCHANGED <<repeat_round, map_file>>
        /\ status = "running" /\ status' # "returned" /\ opts.trace_file
        /\ pc'["main"] = "delete_stat" \/ pc' = pc
    BY <1>1, <1>11 DEF DeleteUninitialised
  <2> QED
    BY <1>1, <2>1 DEF EndInv, NoGenerator, EndLabels, PrintLabels
<1>12. CASE WriteFaultMap
  <2>1. /\ pc["main"] = "write_map" /\ UNCHANGED <<repeat_round, status>>
        /\ status = "running" /\ map_file' = "complete" /\ pc'["main"] = "delete_stat"
    BY <1>1, <1>12 DEF WriteFaultMap
  <2> QED
    BY <1>1, <2>1 DEF EndInv, NoGenerator, EndLabels, PrintLabels
<1>13. CASE Delete
  <2>1. /\ UNCHANGED <<repeat_round, map_file>> /\ status = "running"
        /\ \/ pc["main"] = "delete_stat" /\ pc'["main"] = "delete_config" /\ status' = status
           \/ pc["main"] = "delete_config" /\ pc'["main"] = "return" /\ status' = status
           \/ pc["main"] = "return" /\ pc' = pc
    BY <1>1, <1>13 DEF Delete
  <2> QED
    BY <1>1, <2>1 DEF EndInv, NoGenerator, EndLabels, PrintLabels
<1>14. ASSUME NEW sig \in Signals, Signal(sig) PROVE EndInv'
  <2>1. UNCHANGED <<repeat_round, map_file, status>> /\ pc'["main"] = pc["main"]
        /\ status = "running"
    BY <1>1, <1>14 DEF Signal
  <2> QED
    BY <1>1, <2>1 DEF EndInv, NoGenerator
<1> QED
  BY <1>3, <1>4, <1>5, <1>6, <1>7, <1>8, <1>9, <1>10, <1>11, <1>12, <1>13, <1>14
  DEF SimNext, Main, Handler, Environment, PrintResult

(* When main returns by itself every round asked for has its files, and they  *)
(* agree in every round whose counters started from zero; the map asked for   *)
(* with -w is complete if there was a generator to store it (the loop of main *)
(* and the destructors behind it).                                            *)
THEOREM ReturnsWhenAllDone == SimSpec => []ReturnedMeansAllDone
<1>1. SimInit => EndInv
  BY DEF SimInit, EndInv, EndLabels, NoGenerator, PrintLabels
<1>2. SimInv /\ RoundInv /\ EndInv => ReturnedMeansAllDone
  <2> SUFFICES ASSUME SimInv, RoundInv, EndInv, status = "returned"
               PROVE  /\ \A r \in StartRound .. Limit - 1 :
                           Complete(r) /\ (Counted(r) => Consistent(r))
                      /\ opts.trace_file => opts.rounds = 0
                      /\ opts.faultmap_write /\ ~opts.trace_file => map_file = "complete"
    BY DEF ReturnedMeansAllDone
  <2>1. pc["main"] = "return" /\ repeat_round = Limit
    BY DEF EndInv, EndLabels
  <2>2. \A r \in StartRound .. Limit - 1 : r \in Rounds /\ r < repeat_round
    BY <2>1, RoundNumbers DEF SimInv, SimTypeOK
  <2>3. opts.trace_file => opts.rounds = 0
    BY <2>1, RoundNumbers DEF EndInv, NoGenerator, SimInv, SimTypeOK
  <2> QED
    BY <2>1, <2>2, <2>3 DEF EndInv, RoundInv, Past
<1>3. SimSpec => []EndInv
  BY <1>1, EndStep, EveryRound, PTL DEF SimSpec
<1> QED
  BY <1>2, <1>3, EveryRound, PTL


-----------------------------------------------------------------------------
(* The length of a round. *)

\* Requests of a finished round.
Target ==
  IF opts.generator_system = "SequentialGenerator"
       /\ (opts.num_request = 0 \/ opts.num_request > Len(Sweep))
    THEN Len(Sweep) ELSE opts.num_request

Sent == stat.executed_request_num

\* How far main is in the round, unless a handler has cut in.
Underway ==
  /\ pc["main"] \in {"access", "serve"} =>
       /\ opts.num_request # 0 => Sent <= opts.num_request
       /\ opts.num_request # 0 /\ pc["main"] = "access" => Sent < opts.num_request
       /\ opts.generator_system = "SequentialGenerator" =>
            sweep_pos + One(rpc = "accepted") = Sent
  /\ pc["main"] \in {"print_open", "print_write"} => Sent = Target
  /\ Reported => stats_file[repeat_round].stat.executed_request_num = Target

LengthInv ==
  /\ pc["main"] \notin {"access", "serve"} => sweep_pos = 0
  /\ Ctd /\ pc["handler"] = "off" => Underway
  /\ \A r \in Rounds : Counted(r) /\ r < repeat_round =>
       stats_file[r].stat.executed_request_num = Target

(* Before the first round nothing has been sent. *)
LEMMA LengthInit == SimInit => LengthInv
BY RoundNumbers DEF SimInit, LengthInv, Underway, Reported

(* A request is counted where it is accepted and nowhere else. *)
LEMMA SentByCall ==
  ASSUME Inv0
  PROVE  /\ Sent \in Nat
         /\ AccessMemory => Sent' = Sent + 1
         /\ \A addr \in Addresses, data \in DataPatterns, is_write \in BOOLEAN :
              RecvRequest(addr, data, is_write) => Sent' = Sent
         /\ Serve => Sent' = Sent
<1>1. Sent \in Nat
  BY CounterNames DEF Inv0, TypeOK, Stats, Sent
<1> USE CounterNames DEF OnlyCounts, Sent
<1>2. AccessMemory => Sent' = Sent + 1
  BY RequestCounters
<1>3. ASSUME NEW addr \in Addresses, NEW data \in DataPatterns, NEW is_write \in BOOLEAN,
             RecvRequest(addr, data, is_write)
      PROVE  Sent' = Sent
  BY <1>3, RequestCounters
<1>4. HardFaultError \/ VRTFaultError => Sent' = Sent
  BY RequestCounters
<1>5. ASSUME \/ CorrectColumn \/ MaskedColumn \/ ClassifyColumn
             \/ NumberRow \/ FaultColumn
      PROVE  Sent' = Sent
  BY <1>5, ColumnCounters
<1>6. ASSUME ClassifyRequest \/ JudgeRequest \/ PrintRow \/ PrintFaultTrace
      PROVE  Sent' = Sent
  BY <1>6, VerdictCounters DEF BLCounters
<1> QED
  BY <1>1, <1>2, <1>3, <1>4, <1>5, <1>6 DEF Serve, CheckFaultMask

(* Every step keeps the count of the round. *)
LEMMA LengthStep ==
  SimInv /\ RoundInv /\ LengthInv /\ [SimNext]_simVars => LengthInv'
<1> SUFFICES ASSUME SimInv, RoundInv, LengthInv, [SimNext]_simVars PROVE LengthInv'
  OBVIOUS
<1>0. /\ pc \in [Actors -> Labels] /\ repeat_round \in Rounds
      /\ stats_file \in [Rounds -> StatsFiles]
      /\ Inv0 /\ StartRound \in Nat /\ repeat_round \in Nat /\ Rounds \subseteq Nat
      /\ pc["main"] # "serve" => rpc = "idle"
  BY RoundTypes
<1>s. /\ sweep_pos \in Nat /\ sweep_pos <= Len(Sweep) /\ Sent \in Nat /\ opts' = opts
      /\ opts.num_request \in Nat /\ Len(Sweep) \in Nat /\ Len(Sweep) > 0
      /\ opts.generator_system \in {"SequentialGenerator", "RandomGenerator"}
  <2>1. opts \in Options /\ sweep_pos \in 0 .. Len(Sweep)
    BY DEF SimInv, SimTypeOK
  <2> QED
    BY <1>0, <2>1, RoundNumbers, SentByCall, FilesKept
<1>t. Target' = Target
  BY <1>s DEF Target
<1> USE DEF At, Goto, End, Running, Actors, procVars, roundVars
<1>1. ASSUME repeat_round' = repeat_round,
             \A r \in Rounds : r # repeat_round => stats_file'[r] = stats_file[r]
      PROVE  /\ \A r \in Rounds : (Counted(r) /\ r < repeat_round)' =>
                  stats_file'[r].stat.executed_request_num = Target'
             /\ Ctd' <=> Ctd
  <2>1. ASSUME NEW r \in Rounds, Counted(r), r < repeat_round
        PROVE  stats_file'[r].stat.executed_request_num = Target
    <3>1. r # repeat_round
      BY <1>0, <2>1
    <3> QED
      BY <1>1, <2>1, <3>1 DEF LengthInv
  <2> QED
    BY <1>1, <1>t, <2>1 DEF Ctd, Counted
<1>2. ASSUME UNCHANGED <<repeat_round, stats_file, sweep_pos, stat, rpc, pc>>
      PROVE  LengthInv'
  <2>1. Underway => Underway'
    BY <1>2, <1>s, <1>t DEF Underway, Reported, Sent
  <2> QED
    BY <1>1, <1>2, <2>1 DEF LengthInv
<1>3. CASE SetSignal \/ UninitialisedAccess \/ Kill \/ Exit \/ UNCHANGED simVars
  BY <1>2, <1>3 DEF SetSignal, UninitialisedAccess, Kill, Exit, simVars, vars, memVars, fileVars
<1>4. ASSUME pc'["handler"] # "off", pc'["main"] = pc["main"],
             UNCHANGED <<repeat_round, sweep_pos>>,
             \A r \in Rounds : r # repeat_round => stats_file'[r] = stats_file[r]
      PROVE  LengthInv'
  BY <1>1, <1>4 DEF LengthInv
<1>5. ASSUME NEW sig \in Signals, Signal(sig) PROVE LengthInv'
  <2>1. CASE UNCHANGED pc
    BY <1>2, <1>5, <2>1 DEF Signal, vars, memVars, fileVars
  <2>2. CASE pc' = [pc EXCEPT !["handler"] = "print_open"]
    BY <1>0, <1>4, <1>5, <2>2 DEF Signal, fileVars
  <2> QED
    BY <1>5, <2>1, <2>2 DEF Signal
<1>6. ASSUME PrintResult("handler") PROVE LengthInv'
  <2>1. /\ UNCHANGED <<repeat_round, sweep_pos>>
        /\ \A r \in Rounds : r # repeat_round => stats_file'[r] = stats_file[r]
    BY <1>0, <1>6 DEF PrintResult, OpenStats, WriteStats, ResetFaultTrace, ResetFaultResult,
                      ResetCounters, fileVars
  <2>2. pc'["main"] = pc["main"] /\ pc'["handler"] # "off"
    <3>1. CASE ResetCounters("handler")
      BY <1>0, <3>1, ResetMoves
    <3>2. CASE ~ResetCounters("handler")
      BY <1>0, <1>6, <3>2 DEF PrintResult, OpenStats, WriteStats, ResetFaultTrace,
                              ResetFaultResult
    <3> QED
      BY <3>1, <3>2
  <2> QED
    BY <1>4, <2>1, <2>2
\* A step of main within the round.
<1>7. ASSUME pc["handler"] = "off", repeat_round' = repeat_round,
             pc'["main"] \notin {"access", "serve"} => sweep_pos' = 0,
             \A r \in Rounds : r # repeat_round => stats_file'[r] = stats_file[r],
             Ctd /\ Underway => Underway'
      PROVE  LengthInv'
  BY <1>1, <1>7 DEF LengthInv
<1>8. CASE \/ SetSignalHandler \/ DeleteGenerator \/ DeleteUninitialised
           \/ WriteFaultMap \/ Delete
  <2>1. /\ pc["handler"] = "off" /\ pc["main"] \notin {"access", "serve"}
        /\ UNCHANGED <<repeat_round, sweep_pos, stats_file>>
        /\ pc'["main"] \in {"open_result", "delete_generator"} \cup EndLabels
    BY <1>0, <1>8 DEF SetSignalHandler, DeleteGenerator, DeleteUninitialised, WriteFaultMap,
                      Delete, EndLabels, fileVars
  <2>2. Underway'
    BY <2>1 DEF Underway, Reported, EndLabels
  <2> QED
    BY <1>7, <2>1, <2>2 DEF LengthInv
<1>9. CASE SetFaultResult \/ SetFaultTrace
  <2>1. /\ pc["handler"] = "off" /\ pc["main"] \in {"open_result", "open_trace"}
        /\ UNCHANGED <<repeat_round, sweep_pos, stats_file, stat, rpc>>
        /\ pc'["main"] \in {"open_result", "open_trace", "access"}
    BY <1>0, <1>9 DEF SetFaultResult, SetFaultTrace
  <2>2. Ctd => Sent = 0
    BY <2>1 DEF RoundInv, Progress, Cleared, Sent
  <2>3. sweep_pos = 0 /\ rpc = "idle"
    BY <1>0, <2>1 DEF LengthInv
  <2>4. Ctd => Underway'
    <3>1. Sent' = Sent
      BY <2>1 DEF Sent
    <3> QED
      BY <1>s, <2>1, <2>2, <2>3, <3>1 DEF Underway, Reported, One
  <2> QED
    BY <1>7, <2>1, <2>3, <2>4
<1>10. CASE CountAccess
  <2>1. /\ pc["main"] = "access" /\ pc'["main"] = "serve" /\ pc["handler"] = "off"
        /\ UNCHANGED <<repeat_round, stats_file, sweep_pos>>
        /\ rpc = "idle" /\ rpc' = "accepted"
    BY <1>0, <1>10 DEF CountAccess, AccessMemory, simUnchangedByRequest, fileVars
  <2>2. Sent' = Sent + 1
    BY <1>0, <1>10, SentByCall DEF CountAccess
  <2>3. Underway => Underway'
    BY <1>s, <2>1, <2>2 DEF Underway, Reported, One
  <2> QED
    BY <1>7, <2>1, <2>3
<1>11. CASE RandomAccess \/ SequentialAccess
  <2>1. /\ pc["main"] = "serve" /\ pc' = pc /\ pc["handler"] = "off"
        /\ UNCHANGED <<repeat_round, stats_file>>
    BY <1>0, <1>11 DEF RandomAccess, SequentialAccess, simUnchangedByRequest, fileVars
  <2>2. rpc = "accepted" /\ rpc' = "hard"
    BY <1>11, SweepCall DEF RandomAccess, RecvRequest
  <2>3. Sent' = Sent
    <3>1. ASSUME SequentialAccess PROVE Sent' = Sent
      BY <1>0, <3>1, SweepCall, SentByCall
    <3>2. ASSUME RandomAccess PROVE Sent' = Sent
      BY <1>0, <3>2, SentByCall DEF RandomAccess
    <3> QED
      BY <1>11, <3>1, <3>2
  <2>4. opts.generator_system = "SequentialGenerator" => sweep_pos' = sweep_pos + 1
    BY <1>11 DEF RandomAccess, SequentialAccess
  <2>5. Underway => Underway'
    BY <1>s, <2>1, <2>2, <2>3, <2>4 DEF Underway, Reported, One
  <2> QED
    BY <1>7, <2>1, <2>5
<1>12. CASE ServeRequest
  <2>1. /\ pc["main"] = "serve" /\ pc["handler"] = "off"
        /\ UNCHANGED <<repeat_round, stats_file, pc, sweep_pos>>
        /\ rpc # "accepted" /\ rpc' # "accepted"
    BY <1>0, <1>12, ServePlaces DEF ServeRequest, simUnchangedByRequest, fileVars
  <2>2. Sent' = Sent
    BY <1>0, <1>12, SentByCall DEF ServeRequest
  <2>3. Underway => Underway'
    BY <1>s, <2>1, <2>2 DEF Underway, Reported, One
  <2> QED
    BY <1>7, <2>1, <2>3
<1>13. CASE AfterRequest
  <2>1. /\ pc["main"] = "serve" /\ pc["handler"] = "off" /\ rpc = "idle"
        /\ UNCHANGED <<repeat_round, stats_file, stat, rpc>>
    BY <1>0, <1>13 DEF AfterRequest, simUnchangedByRequest, vars, memVars, fileVars
  <2>2. Sent' = Sent
    BY <2>1 DEF Sent
  <2>3. CASE EnoughRequests \/ SweepDone
    <3>1. pc'["main"] = "print_open" /\ sweep_pos' = 0
      BY <1>0, <1>13, <2>3 DEF AfterRequest
    <3>2. Underway => Sent = Target
      <4>1. CASE EnoughRequests
        BY <1>s, <2>1, <4>1 DEF Underway, EnoughRequests, Target, Sent, One
      <4>2. CASE SweepDone
        BY <1>s, <2>1, <4>2 DEF Underway, SweepDone, Target, Sent, One
      <4> QED
        BY <2>3, <4>1, <4>2
    <3>3. Underway => Underway'
      BY <1>t, <2>2, <3>1, <3>2 DEF Underway, Reported
    <3> QED
      BY <1>7, <2>1, <3>1, <3>3
  <2>4. CASE ~(EnoughRequests \/ SweepDone)
    <3>1. pc'["main"] = "access" /\ UNCHANGED sweep_pos
      BY <1>0, <1>13, <2>4 DEF AfterRequest
    <3>2. Underway => Underway'
      BY <1>s, <2>1, <2>2, <2>4, <3>1 DEF Underway, Reported, EnoughRequests, Sent, One
    <3> QED
      BY <1>7, <2>1, <3>1, <3>2
  <2> QED
    BY <2>3, <2>4
<1>14. CASE OpenStats("main")
  <2>1. /\ pc["main"] = "print_open" /\ pc["handler"] = "off"
        /\ UNCHANGED <<repeat_round, stat, sweep_pos>>
        /\ pc'["main"] \in {"print_open", "print_write"}
        /\ \A r \in Rounds : r # repeat_round => stats_file'[r] = stats_file[r]
    BY <1>0, <1>14 DEF OpenStats, vars
  <2>2. Underway => Underway'
    BY <1>t, <2>1 DEF Underway, Reported, Sent
  <2> QED
    BY <1>7, <2>1, <2>2 DEF LengthInv
<1>15. CASE WriteStats("main")
  <2>1. /\ pc["main"] = "print_write" /\ pc["handler"] = "off"
        /\ UNCHANGED <<repeat_round, stat, sweep_pos>>
        /\ pc'["main"] \in {"reset_trace", "reset_result"}
        /\ stats_file'[repeat_round] = [by |-> "main", stat |-> stat]
        /\ \A r \in Rounds : r # repeat_round => stats_file'[r] = stats_file[r]
    BY <1>0, <1>15 DEF WriteStats, vars
  <2>2. stats_file'[repeat_round].stat.executed_request_num = Sent
    BY <2>1 DEF Sent
  <2>3. Underway => Underway'
    BY <1>t, <2>1, <2>2 DEF Underway, Reported
  <2> QED
    BY <1>7, <2>1, <2>3 DEF LengthInv
<1>16. CASE ResetFaultTrace("main") \/ ResetFaultResult("main") \/ ResetCounters("main")
  <2>1. /\ Reported /\ pc["handler"] = "off" /\ UNCHANGED <<repeat_round, sweep_pos, stats_file>>
    BY <1>16 DEF ResetFaultTrace, ResetFaultResult, ResetCounters, Reported, fileVars
  <2>2. pc'["main"] \in {"reset_trace", "reset_result", "reset_stat", "next_round"}
    <3>1. CASE ResetCounters("main")
      BY <2>1, <3>1, ResetMoves DEF Reported
    <3>2. CASE ~ResetCounters("main")
      BY <1>0, <1>16, <3>2 DEF ResetFaultTrace, ResetFaultResult
    <3> QED
      BY <3>1, <3>2
  <2>3. Underway => Underway'
    BY <1>t, <2>1, <2>2 DEF Underway, Reported
  <2> QED
    BY <1>7, <2>1, <2>2, <2>3 DEF LengthInv, Reported
<1>17. CASE NextRound
  <2>1. /\ Reported /\ pc["handler"] = "off" /\ pc["main"] = "next_round"
        /\ UNCHANGED <<sweep_pos, stats_file>>
        /\ repeat_round' = repeat_round + 1
        /\ pc'["main"] \in {"open_result", "delete_generator"}
    BY <1>0, <1>17 DEF NextRound, Reported, fileVars
  <2>2. ASSUME NEW r \in Rounds, Counted(r), r < repeat_round + 1
        PROVE  stats_file'[r].stat.executed_request_num = Target'
    <3>1. CASE r = repeat_round
      BY <1>t, <2>1, <2>2, <3>1 DEF LengthInv, Underway, Ctd
    <3>2. CASE r # repeat_round
      BY <1>0, <1>t, <2>1, <2>2, <3>2 DEF LengthInv
    <3> QED
      BY <3>1, <3>2
  <2>3. Underway'
    BY <2>1 DEF Underway, Reported
  <2> QED
    BY <2>1, <2>2, <2>3 DEF LengthInv, Counted
<1> QED
  BY <1>3, <1>5, <1>6, <1>8, <1>9, <1>10, <1>11, <1>12, <1>13, <1>14, <1>15, <1>16, <1>17
  DEF SimNext, Main, Handler, Environment, PrintResult

(* A finished round has the requests asked for with -n, or those of the sweep *)
(* if there are fewer; in the first round that takes a Stat object whose      *)
(* counters were zero (the end-of-round tests of the generators).             *)
THEOREM RoundsAreFull == SimSpec => []RoundLength
<1>1. SimInv /\ LengthInv => RoundLength
  BY RoundNumbers DEF SimInv, SimTypeOK, LengthInv, RoundLength, FinishedRounds, Target
<1>2. SimSpec => []LengthInv
  BY LengthInit, LengthStep, EveryRound, PTL DEF SimSpec
<1> QED
  BY <1>1, <1>2, EveryRound, PTL


-----------------------------------------------------------------------------
(* The report of an interrupted round. *)

\* The files of rounds to come do not exist yet.
Ahead ==
  /\ \A r \in Rounds : r > repeat_round => result_file[r] = NoRows /\ trace_file[r] = NoRows
  /\ pc["main"] \in {"set_signal", "open_result"} \cup EndLabels =>
       result_file[repeat_round] = NoRows /\ trace_file[repeat_round] = NoRows
  /\ pc["main"] = "open_trace" => trace_file[repeat_round] = NoRows

\* What ResetStat has not reached is still what the report says.
Copied ==
  /\ pc["main"] \in {"reset_trace", "reset_result"}
       \/ (pc["main"] = "reset_stat" /\ cleared["main"] = 0) =>
       stats_file[repeat_round].stat = stat
  /\ pc["main"] = "reset_stat" =>
       stat.all_fault_bit_num \in {0, stats_file[repeat_round].stat.all_fault_bit_num}
  /\ pc["main"] \in EndLabels => (Ctd => Cleared)

\* The CSV and the trace file agree with the counters s, or will when closed.
RowsFiled(s) ==
  result_file[repeat_round] \in {NoRows, Closed(s.all_fault_bit_num - One(rpc = "row"))}
RowsBuffered(s) ==
  result_file[repeat_round] = Opened /\ result_rows = s.all_fault_bit_num - One(rpc = "row")
LinesFiled(s) ==
  trace_file[repeat_round] \in {NoRows, Closed(s.fault_request_num - One(rpc = "trace"))}
LinesBuffered(s) ==
  trace_file[repeat_round] = Opened /\ trace_lines = s.fault_request_num - One(rpc = "trace")

\* The handler, at place h, reports the counters s.
Settled(h, s) ==
  IF Clearing THEN ClearedReport(repeat_round, s)
  ELSE /\ s.executed_request_num =
            s.fault_request_num + s.correct_request_num + One(rpc \notin {"idle", "trace"})
       /\ RowsFiled(s) \/ (h \notin {"reset_stat", "exit"} /\ RowsBuffered(s))
       /\ FaultTraceOn =>
            LinesFiled(s) \/ (h \notin {"reset_result", "reset_stat", "exit"} /\ LinesBuffered(s))

AfterWrite == {"reset_trace", "reset_result", "reset_stat", "exit"}

\* The counters it has shown or will show.
Shown == IF pc["handler"] \in AfterWrite THEN stats_file[repeat_round].stat ELSE stat

HandlerInv ==
  /\ Ahead
  /\ pc["handler"] = "off" => Copied
  /\ pc["handler"] # "off" /\ Ctd => Settled(pc["handler"], Shown)
  /\ \A r \in Rounds :
       stats_file[r].by = "handler" => r = repeat_round /\ pc["handler"] \in AfterWrite
  /\ status = "exited" => pc["handler"] = "exit"

(* There is no report and no file at first. *)
LEMMA HandlerInit == SimInit => HandlerInv
BY RoundNumbers DEF SimInit, HandlerInv, Ahead, Copied, EndLabels, NoStats

(* Wherever a signal finds main, the counters and the files are in order. *)
LEMMA SignalFindsAccount ==
  ASSUME SimInv, RoundInv, HandlerInv, pc["handler"] = "off", Ctd
  PROVE  Settled("print_open", stat)
<1>0. /\ pc["main"] # "serve" => rpc = "idle"
      /\ result_rows \in Nat /\ trace_lines \in Nat
      /\ stat.executed_request_num \in Nat /\ stat.fault_request_num \in Nat
      /\ stat.correct_request_num \in Nat /\ stat.all_fault_bit_num \in Nat
      /\ cleared["main"] \in 0 .. 13
  BY RoundTypes, CounterNames DEF Inv0, TypeOK, Stats, Actors
<1>1. Progress /\ ClearedSoFar /\ Ahead /\ Copied
  BY DEF RoundInv, HandlerInv
<1>2. CASE pc["main"] \in {"set_signal", "open_result"} \cup EndLabels
  <2>1. Cleared
    <3>1. CASE pc["main"] = "set_signal"
      <4>1. repeat_round = StartRound
        BY <3>1 DEF RoundInv
      <4>2. ZeroStart
        BY <4>1, RoundNumbers DEF Ctd, Counted
      <4> QED
        BY <1>1, <3>1, <4>2 DEF ClearedSoFar
    <3>2. CASE pc["main"] = "open_result"
      BY <1>1, <3>2 DEF Progress
    <3>3. CASE pc["main"] \in EndLabels
      BY <1>1, <3>3 DEF Copied
    <3> QED
      BY <1>2, <3>1, <3>2, <3>3
  <2>2. rpc = "idle" /\ ~Clearing
    BY <1>0, <1>2 DEF Clearing, EndLabels
  <2>3. RowsFiled(stat) /\ LinesFiled(stat)
    BY <1>1, <1>2 DEF Ahead, RowsFiled, LinesFiled
  <2> QED
    BY <2>1, <2>2, <2>3 DEF Settled, Cleared, One
<1>3. CASE pc["main"] = "open_trace"
  <2>1. Cleared /\ result_rows = 0 /\ ResultOpen /\ rpc = "idle" /\ ~Clearing
    BY <1>0, <1>1, <1>3 DEF Progress, Clearing
  <2>2. RowsBuffered(stat) /\ LinesFiled(stat)
    BY <1>1, <1>3, <2>1 DEF Ahead, RowsBuffered, LinesFiled, ResultOpen, Cleared, One
  <2> QED
    BY <2>1, <2>2 DEF Settled, Cleared, One
<1>4. CASE pc["main"] \in {"access", "serve", "print_open", "print_write"}
  <2>1. Balanced /\ ResultOpen /\ TraceIs(Opened) /\ ~Clearing
    BY <1>1, <1>4 DEF Progress, Clearing
  <2>2. RowsBuffered(stat)
    <3>1. PICK a \in Nat : a = One(rpc = "row")
      BY DEF One
    <3>2. result_rows + a = stat.all_fault_bit_num
      BY <2>1, <3>1 DEF Balanced
    <3> QED
      BY <1>0, <2>1, <3>1, <3>2 DEF RowsBuffered, ResultOpen
  <2>3. ASSUME FaultTraceOn PROVE LinesBuffered(stat)
    <3>1. PICK a \in Nat : a = One(rpc = "trace")
      BY DEF One
    <3>2. trace_lines + a = stat.fault_request_num
      BY <2>1, <2>3, <3>1 DEF Balanced
    <3> QED
      BY <1>0, <2>1, <2>3, <3>1, <3>2 DEF LinesBuffered, TraceIs
  <2> QED
    BY <2>1, <2>2, <2>3 DEF Settled, Balanced
<1>5. CASE pc["main"] \in {"reset_trace", "reset_result"}
  <2>1. /\ ResultOpen /\ Written /\ rpc = "idle" /\ ~Clearing
        /\ stats_file[repeat_round].stat = stat
        /\ TraceIs(Opened) \/ TraceIs(Closed(trace_lines))
    BY <1>0, <1>1, <1>5 DEF Progress, Copied, Clearing
  <2>2. RowsBuffered(stat) /\ (FaultTraceOn => LinesBuffered(stat) \/ LinesFiled(stat))
    BY <1>0, <2>1 DEF Written, RowsBuffered, LinesBuffered, LinesFiled, ResultOpen, TraceIs, One
  <2> QED
    BY <1>0, <2>1, <2>2 DEF Settled, Written, One
<1>6. CASE pc["main"] = "reset_stat" /\ cleared["main"] = 0
  <2>1. /\ Consistent(repeat_round) /\ rpc = "idle" /\ ~Clearing
        /\ stats_file[repeat_round].stat = stat
    BY <1>0, <1>1, <1>6 DEF Progress, Copied, Clearing
  <2>2. RowsFiled(stat) /\ (FaultTraceOn => LinesFiled(stat))
    BY <1>0, <2>1 DEF Consistent, RowsFiled, LinesFiled, One
  <2> QED
    BY <1>0, <2>1, <2>2 DEF Settled, Consistent, One
<1>7. CASE Clearing
  <2>1. Consistent(repeat_round) /\ Complete(repeat_round)
    BY <1>1, <1>7 DEF Clearing, Progress
  <2>2. stat.executed_request_num = 0
    <3>1. CASE pc["main"] = "reset_stat" /\ cleared["main"] > 0
      <4>1. 1 \in 1 .. cleared["main"]
        BY <1>0, <3>1
      <4> QED
        BY <1>1, <3>1, <4>1, ResetOrderFacts DEF ClearedSoFar
    <3>2. CASE pc["main"] = "next_round"
      BY <1>1, <3>2 DEF ClearedSoFar, Cleared
    <3> QED
      BY <1>7, <3>1, <3>2 DEF Clearing
  <2>3. stat.all_fault_bit_num \in {0, stats_file[repeat_round].stat.all_fault_bit_num}
    BY <1>1, <1>7 DEF Clearing, ClearedSoFar, Cleared, Copied
  <2>4. result_file[repeat_round].rows = stats_file[repeat_round].stat.all_fault_bit_num
    BY <2>1 DEF Consistent, Closed
  <2> QED
    BY <1>7, <2>1, <2>2, <2>3, <2>4 DEF Settled, ClearedReport, Complete
<1> QED
  <2>1. pc["main"] \in {"set_signal"} \cup RoundLabels \cup EndLabels
    BY DEF SimInv, Control
  <2> QED
    BY <1>0, <1>2, <1>3, <1>4, <1>5, <1>6, <1>7, <2>1 DEF RoundLabels, PrintLabels, Clearing


(* Every step keeps what the handler reports in order. *)
LEMMA HandlerStep ==
  SimInv /\ StreamInv /\ RoundInv /\ HandlerInv /\ [SimNext]_simVars => HandlerInv'
<1> SUFFICES ASSUME SimInv, StreamInv, RoundInv, HandlerInv, [SimNext]_simVars
             PROVE  HandlerInv'
  OBVIOUS
<1> DEFINE SameFiles ==
      \A r \in Rounds : r # repeat_round =>
        /\ stats_file'[r] = stats_file[r]
        /\ result_file'[r] = result_file[r] /\ trace_file'[r] = trace_file[r]
<1>0. /\ pc \in [Actors -> Labels] /\ repeat_round \in Rounds
      /\ result_file \in [Rounds -> RowFiles] /\ trace_file \in [Rounds -> RowFiles]
      /\ stats_file \in [Rounds -> StatsFiles]
      /\ repeat_round \in Nat /\ Rounds \subseteq Nat
      /\ cleared \in [Actors -> 0 .. 13]
      /\ result_rows \in Nat /\ trace_lines \in Nat
  BY RoundTypes DEF Inv0, TypeOK
<1> USE DEF At, Goto, End, Running, Actors, procVars, roundVars
<1>1. ASSUME UNCHANGED <<stat, rpc, result_rows, trace_lines, pc, repeat_round, cleared,
                         stats_file, result_file, trace_file>>,
             status' = "exited" => pc["handler"] = "exit"
      PROVE  HandlerInv'
  <2>1. Ahead' /\ (Copied => Copied') /\ (Ctd' <=> Ctd)
    BY <1>1 DEF HandlerInv, Ahead, Copied, Cleared, Ctd, Counted
  <2>2. Shown' = Shown
    BY <1>1 DEF Shown
  <2>3. \A h : Settled(h, Shown) => Settled(h, Shown)'
    BY <1>1, <2>2
    DEF Settled, Clearing, ClearedReport, RowsFiled, RowsBuffered, LinesFiled, LinesBuffered
  <2> QED
    BY <1>1, <2>1, <2>3 DEF HandlerInv
<1>2. CASE SetSignal \/ UninitialisedAccess \/ Kill \/ Exit \/ UNCHANGED simVars
  <2>1. status' = "exited" => pc["handler"] = "exit"
    BY <1>2 DEF SetSignal, UninitialisedAccess, Kill, Exit, simVars, HandlerInv
  <2> QED
    BY <1>1, <1>2, <2>1
    DEF SetSignal, UninitialisedAccess, Kill, Exit, simVars, vars, memVars, reportVars, fileVars
<1>3. ASSUME NEW sig \in Signals, Signal(sig) PROVE HandlerInv'
  <2>1. /\ pc["handler"] = "off" /\ status' = status /\ status = "running"
        /\ UNCHANGED <<stat, rpc, result_rows, trace_lines, repeat_round, cleared, stats_file,
                       result_file, trace_file>>
    BY <1>3 DEF Signal, IgnoreSignal, SimInv, Control, vars, memVars, reportVars, fileVars
  <2>2. CASE UNCHANGED pc
    BY <1>1, <2>1, <2>2
  <2>3. CASE pc' = [pc EXCEPT !["handler"] = "print_open"]
    <3>1. pc'["main"] = pc["main"] /\ pc'["handler"] = "print_open"
      BY <1>0, <2>3
    <3>2. Ctd => Settled("print_open", stat)
      BY <2>1, SignalFindsAccount
    <3>3. Ahead'
      BY <1>0, <2>1, <3>1 DEF HandlerInv, Ahead
    <3>4. Shown' = stat /\ (Ctd' <=> Ctd)
      BY <2>1, <3>1 DEF Shown, AfterWrite, Ctd, Counted
    <3>5. Ctd' => Settled(pc["handler"], Shown)'
      BY <2>1, <3>1, <3>2, <3>4
      DEF Settled, Clearing, ClearedReport, RowsFiled, RowsBuffered, LinesFiled, LinesBuffered
    <3>6. \A r \in Rounds : stats_file'[r].by # "handler"
      BY <2>1 DEF HandlerInv, AfterWrite
    <3> QED
      BY <1>0, <2>1, <3>1, <3>3, <3>5, <3>6 DEF HandlerInv, AfterWrite
  <2> QED
    BY <1>3, <2>2, <2>3 DEF Signal
\* A step of the handler that goes on.
<1>4. ASSUME pc'["main"] = pc["main"], UNCHANGED <<repeat_round, status>>, status = "running",
             SameFiles,
             result_file[repeat_round] = NoRows => result_file'[repeat_round] = NoRows,
             trace_file[repeat_round] = NoRows => trace_file'[repeat_round] = NoRows,
             pc'["handler"] # "off",
             pc["handler"] \in AfterWrite => pc'["handler"] \in AfterWrite,
             stats_file'[repeat_round].by = "handler" => pc'["handler"] \in AfterWrite,
             Ctd => Settled(pc["handler"], Shown)'
      PROVE  HandlerInv'
  <2>1. Ahead'
    BY <1>0, <1>4 DEF HandlerInv, Ahead
  <2>2. \A r \in Rounds :
          stats_file'[r].by = "handler" => r = repeat_round' /\ pc'["handler"] \in AfterWrite
    BY <1>0, <1>4 DEF HandlerInv
  <2>3. Ctd' <=> Ctd
    BY <1>4 DEF Ctd, Counted
  <2> QED
    BY <1>4, <2>1, <2>2, <2>3 DEF HandlerInv
<1>5. CASE OpenStats("handler")
  <2>1. /\ pc["handler"] = "print_open" /\ status = "running"
        /\ UNCHANGED <<stat, rpc, result_rows, trace_lines, repeat_round, cleared,
                       result_file, trace_file>>
    BY <1>5 DEF OpenStats, vars, memVars, reportVars
  <2>2. Ctd => Settled("print_open", stat)
    BY <2>1 DEF HandlerInv, Shown, AfterWrite
  <2>3. CASE /\ stats_file' = [stats_file EXCEPT ![repeat_round] =
                                  [by |-> "open", stat |-> NoStats.stat]]
             /\ pc' = [pc EXCEPT !["handler"] = "print_write"]
             /\ UNCHANGED status
    <3>1. /\ pc'["main"] = pc["main"] /\ pc'["handler"] = "print_write"
          /\ stats_file'[repeat_round].by = "open"
          /\ \A r \in Rounds : r # repeat_round => stats_file'[r] = stats_file[r]
      BY <1>0, <2>3
    <3>2. Shown' = stat
      BY <2>1, <3>1 DEF Shown, AfterWrite
    <3>3. Ctd => Settled(pc["handler"], Shown)'
      BY <2>1, <2>2, <3>1, <3>2
      DEF Settled, Clearing, ClearedReport, RowsFiled, RowsBuffered, LinesFiled, LinesBuffered
    <3> QED
      BY <1>4, <2>1, <2>3, <3>1, <3>3 DEF AfterWrite
  <2>4. CASE UNCHANGED <<pc, stats_file>> /\ status' # "exited"
    BY <1>1, <2>1, <2>4
  <2> QED
    BY <1>5, <2>3, <2>4 DEF OpenStats
<1>6. CASE WriteStats("handler")
  <2>1. /\ pc["handler"] = "print_write" /\ status = "running" /\ UNCHANGED status
        /\ UNCHANGED <<stat, rpc, result_rows, trace_lines, repeat_round, cleared,
                       result_file, trace_file>>
    BY <1>6 DEF WriteStats, vars, memVars, reportVars
  <2>2. Ctd => Settled("print_write", stat)
    BY <2>1 DEF HandlerInv, Shown, AfterWrite
  <2>3. /\ pc'["main"] = pc["main"]
        /\ pc'["handler"] = IF FaultTraceOn THEN "reset_trace" ELSE "reset_result"
        /\ stats_file'[repeat_round].stat = stat
        /\ \A r \in Rounds : r # repeat_round => stats_file'[r] = stats_file[r]
    BY <1>0, <1>6 DEF WriteStats
  <2>4. Shown' = stat
    BY <2>1, <2>3 DEF Shown, AfterWrite
  <2>5. Ctd => Settled(pc["handler"], Shown)'
    BY <2>1, <2>2, <2>3, <2>4
    DEF Settled, Clearing, ClearedReport, RowsFiled, RowsBuffered, LinesFiled, LinesBuffered
  <2> QED
    BY <1>4, <2>1, <2>3, <2>5 DEF AfterWrite
<1> DEFINE s == stats_file[repeat_round].stat
<1>7. CASE ResetFaultTrace("handler")
  <2>1. /\ pc["handler"] = "reset_trace" /\ pc'["handler"] = "reset_result"
        /\ pc'["main"] = pc["main"] /\ status = "running" /\ UNCHANGED status
        /\ UNCHANGED <<rpc, result_rows, trace_lines, repeat_round, cleared, stats_file,
                       result_file>>
        /\ trace_file' = ClosedFile(trace_file, trace_lines)
    BY <1>0, <1>7 DEF ResetFaultTrace, vars, memVars, reportVars
  <2>2. Ctd => Settled("reset_trace", s)
    BY <2>1 DEF HandlerInv, Shown, AfterWrite
  <2>3. /\ \A r \in Rounds : r # repeat_round => trace_file'[r] = trace_file[r]
        /\ trace_file[repeat_round] = Opened =>
             trace_file'[repeat_round] = Closed(trace_lines)
        /\ trace_file[repeat_round] = NoRows => UNCHANGED trace_file
        /\ \A n : trace_file[repeat_round] = Closed(n) => UNCHANGED trace_file
    BY <1>0, <2>1 DEF ClosedFile, Opened, Closed, NoRows
  <2>4. Shown' = s
    BY <2>1 DEF Shown, AfterWrite
  <2>5. LinesFiled(s) \/ LinesBuffered(s) =>
          trace_file'[repeat_round] \in {NoRows, Closed(s.fault_request_num - One(rpc = "trace"))}
    BY <2>3 DEF LinesFiled, LinesBuffered
  <2>6. Ctd => Settled(pc["handler"], Shown)'
    BY <2>1, <2>2, <2>4, <2>5
    DEF Settled, Clearing, ClearedReport, RowsFiled, RowsBuffered, LinesFiled
  <2> QED
    BY <1>4, <2>1, <2>3, <2>6 DEF AfterWrite
<1>8. CASE ResetFaultResult("handler")
  <2>1. /\ pc["handler"] = "reset_result" /\ pc'["handler"] = "reset_stat"
        /\ pc'["main"] = pc["main"] /\ status = "running" /\ UNCHANGED status
        /\ UNCHANGED <<rpc, result_rows, trace_lines, repeat_round, cleared, stats_file,
                       trace_file>>
        /\ result_file' = ClosedFile(result_file, result_rows)
    BY <1>0, <1>8 DEF ResetFaultResult, vars, memVars, reportVars
  <2>2. Ctd => Settled("reset_result", s)
    BY <2>1 DEF HandlerInv, Shown, AfterWrite
  <2>3. /\ \A r \in Rounds : r # repeat_round => result_file'[r] = result_file[r]
        /\ result_file[repeat_round] = Opened =>
             result_file'[repeat_round] = Closed(result_rows)
        /\ result_file[repeat_round] = NoRows => UNCHANGED result_file
        /\ result_file[repeat_round].state = "closed" => UNCHANGED result_file
    BY <1>0, <2>1 DEF ClosedFile, Opened, Closed, NoRows
  <2>4. Shown' = s
    BY <2>1 DEF Shown, AfterWrite
  <2>5. RowsFiled(s) \/ RowsBuffered(s) =>
          result_file'[repeat_round] \in {NoRows, Closed(s.all_fault_bit_num - One(rpc = "row"))}
    BY <2>3 DEF RowsFiled, RowsBuffered, Closed
  <2>6. ClearedReport(repeat_round, s) => UNCHANGED result_file
    BY <2>3 DEF ClearedReport
  <2>7. Ctd => Settled(pc["handler"], Shown)'
    BY <2>1, <2>2, <2>4, <2>5, <2>6
    DEF Settled, Clearing, ClearedReport, RowsFiled, LinesFiled
  <2> QED
    BY <1>4, <2>1, <2>3, <2>7 DEF AfterWrite
<1>9. CASE ResetCounters("handler")
  <2>0. At("handler", "reset_stat")
    BY <1>9 DEF ResetCounters
  <2>1. /\ pc["handler"] = "reset_stat" /\ pc'["handler"] \in {"reset_stat", "exit"}
        /\ pc'["main"] = pc["main"] /\ status = "running" /\ UNCHANGED status
        /\ cleared'["main"] = cleared["main"]
        /\ UNCHANGED <<rpc, result_rows, trace_lines, repeat_round, stats_file, result_file,
                       trace_file>>
    BY <1>9, <2>0, ResetMoves DEF memVars, reportVars, fileVars
  <2>2. Ctd => Settled("reset_stat", s)
    BY <2>1 DEF HandlerInv, Shown, AfterWrite
  <2>3. Shown' = s
    BY <2>1 DEF Shown, AfterWrite
  <2>4. Ctd => Settled(pc["handler"], Shown)'
    BY <2>1, <2>2, <2>3
    DEF Settled, Clearing, ClearedReport, RowsFiled, LinesFiled
  <2> QED
    BY <1>4, <2>1, <2>4 DEF AfterWrite
<1> HIDE DEF s
\* A step of main.
<1>10. ASSUME pc["handler"] = "off", pc'["handler"] = "off", status' # "exited",
              stats_file'[repeat_round].by # "handler",
              \A r \in Rounds : r # repeat_round => stats_file'[r] = stats_file[r],
              Ahead', Copied'
       PROVE  HandlerInv'
  <2>1. \A r \in Rounds : stats_file'[r].by # "handler"
    BY <1>10 DEF HandlerInv, AfterWrite
  <2> QED
    BY <1>0, <1>10, <2>1 DEF HandlerInv
\* ... within a round.
<1>11. ASSUME repeat_round' = repeat_round, SameFiles,
              pc'["main"] \in {"set_signal", "open_result"} \cup EndLabels =>
                result_file'[repeat_round] = NoRows /\ trace_file'[repeat_round] = NoRows,
              pc'["main"] = "open_trace" => trace_file'[repeat_round] = NoRows
       PROVE  Ahead'
  BY <1>0, <1>11 DEF HandlerInv, Ahead
<1>12. pc["handler"] = "off" => \A r \in Rounds : stats_file[r].by # "handler"
  BY DEF HandlerInv, AfterWrite
<1>13. CASE \/ SetSignalHandler \/ DeleteGenerator \/ DeleteUninitialised
            \/ WriteFaultMap \/ Delete
  <2>1. /\ pc["handler"] = "off" /\ pc'["handler"] = "off" /\ status' # "exited"
        /\ pc["main"] \in {"set_signal"} \cup EndLabels
        /\ pc'["main"] \in {"open_result"} \cup EndLabels
        /\ UNCHANGED <<stat, repeat_round, stats_file, result_file, trace_file>>
    BY <1>0, <1>13
    DEF SetSignalHandler, DeleteGenerator, DeleteUninitialised, WriteFaultMap, Delete,
        EndLabels, vars, fileVars
  <2>2. Ctd => Cleared
    <3>1. CASE pc["main"] = "set_signal"
      BY <1>0, <2>1, <3>1 DEF RoundInv, ClearedSoFar, Ctd, Counted
    <3>2. CASE pc["main"] \in EndLabels
      BY <2>1, <3>2 DEF HandlerInv, Copied
    <3> QED
      BY <2>1, <3>1, <3>2
  <2>3. Copied'
    BY <2>1, <2>2 DEF Copied, Cleared, Ctd, Counted, EndLabels
  <2>4. Ahead'
    BY <1>11, <2>1 DEF HandlerInv, Ahead, EndLabels
  <2> QED
    BY <1>0, <1>10, <1>12, <2>1, <2>3, <2>4
<1>14. CASE SetFaultResult \/ SetFaultTrace
  <2>1. /\ pc["handler"] = "off" /\ pc'["handler"] = "off" /\ status' # "exited"
        /\ UNCHANGED <<repeat_round, stat, cleared, stats_file>>
        /\ SameFiles
        /\ \/ pc'["main"] = "open_trace" /\ pc["main"] = "open_result" /\ UNCHANGED trace_file
           \/ pc'["main"] = "access"
           \/ UNCHANGED <<pc, result_file, trace_file>>
    <3>1. CASE SetFaultResult
      BY <1>0, <3>1 DEF SetFaultResult
    <3>2. CASE SetFaultTrace
      BY <1>0, <3>2 DEF SetFaultTrace
    <3> QED
      BY <1>14, <3>1, <3>2
  <2>2. pc["main"] \in {"open_result", "open_trace"}
    BY <1>14 DEF SetFaultResult, SetFaultTrace
  <2>3. Copied'
    BY <2>1, <2>2 DEF Copied, EndLabels
  <2>4. Ahead'
    BY <1>11, <2>1, <2>2 DEF EndLabels, HandlerInv, Ahead
  <2> QED
    BY <1>0, <1>10, <1>12, <2>1, <2>3, <2>4
<1>15. CASE \/ CountAccess \/ RandomAccess \/ SequentialAccess \/ ServeRequest
            \/ AfterRequest
  <2>1. /\ pc["handler"] = "off" /\ pc'["handler"] = "off" /\ status' # "exited"
        /\ pc'["main"] \in {"access", "serve", "print_open"}
        /\ UNCHANGED <<repeat_round, stats_file, result_file, trace_file>>
    BY <1>0, <1>15 DEF CountAccess, RandomAccess, SequentialAccess, ServeRequest,
                       AfterRequest, simUnchangedByRequest, fileVars
  <2>2. Copied' /\ Ahead'
    BY <1>11, <2>1 DEF Copied, EndLabels
  <2> QED
    BY <1>0, <1>10, <1>12, <2>1, <2>2
<1>16. CASE OpenStats("main")
  <2>1. /\ pc["handler"] = "off" /\ pc'["handler"] = "off" /\ status' # "exited"
        /\ pc'["main"] \in {"print_open", "print_write"}
        /\ UNCHANGED <<repeat_round, result_file, trace_file>>
        /\ \A r \in Rounds : r # repeat_round => stats_file'[r] = stats_file[r]
        /\ \/ UNCHANGED stats_file
           \/ stats_file'[repeat_round] = [by |-> "open", stat |-> NoStats.stat]
    BY <1>0, <1>16 DEF OpenStats
  <2>2. stats_file'[repeat_round].by # "handler"
    BY <1>0, <1>12, <2>1
  <2>3. Copied' /\ Ahead'
    BY <1>11, <2>1 DEF Copied, EndLabels
  <2> QED
    BY <1>0, <1>10, <2>1, <2>2, <2>3
<1>17. CASE WriteStats("main")
  <2>1. /\ pc["handler"] = "off" /\ pc'["handler"] = "off" /\ status' # "exited"
        /\ pc'["main"] \in {"reset_trace", "reset_result"}
        /\ UNCHANGED <<stat, repeat_round, result_file, trace_file>>
        /\ stats_file'[repeat_round] = [by |-> "main", stat |-> stat]
        /\ \A r \in Rounds : r # repeat_round => stats_file'[r] = stats_file[r]
    BY <1>0, <1>17 DEF WriteStats, vars
  <2>2. Copied' /\ Ahead'
    BY <1>11, <2>1 DEF Copied, EndLabels
  <2> QED
    BY <1>0, <1>10, <2>1, <2>2
<1>18. CASE ResetFaultTrace("main") \/ ResetFaultResult("main")
  <2>1. /\ pc["handler"] = "off" /\ pc'["handler"] = "off" /\ status' # "exited"
        /\ pc["main"] \in {"reset_trace", "reset_result"}
        /\ pc'["main"] \in {"reset_result", "reset_stat"}
        /\ UNCHANGED <<stat, repeat_round, stats_file>>
        /\ SameFiles
    BY <1>0, <1>18 DEF ResetFaultTrace, ResetFaultResult, ClosedFile, vars
  <2>2. stats_file[repeat_round].stat = stat
    BY <2>1 DEF HandlerInv, Copied
  <2>3. Copied'
    BY <2>1, <2>2 DEF Copied, EndLabels
  <2>4. Ahead'
    BY <1>11, <2>1 DEF EndLabels
  <2> QED
    BY <1>0, <1>10, <1>12, <2>1, <2>3, <2>4
<1>19. CASE ResetCounters("main")
  <2>0. At("main", "reset_stat")
    BY <1>19 DEF ResetCounters
  <2>1. /\ pc["handler"] = "off" /\ pc'["handler"] = "off" /\ status' # "exited"
        /\ pc["main"] = "reset_stat"
        /\ cleared["main"] + 1 \in 1 .. 14
        /\ stat' = [stat EXCEPT ![ResetOrder[cleared["main"] + 1]] = 0]
        /\ pc'["main"] = "next_round"
             \/ (pc'["main"] = "reset_stat" /\ cleared'["main"] = cleared["main"] + 1)
        /\ UNCHANGED <<repeat_round, stats_file, result_file, trace_file>>
    BY <1>19, <2>0, ResetMoves DEF fileVars
  <2>2. stat'.all_fault_bit_num \in {0, stat.all_fault_bit_num}
    <3>1. stat \in [Counters -> Nat] /\ "all_fault_bit_num" \in Counters
      BY RoundTypes, CounterNames DEF Inv0, TypeOK, Stats
    <3> QED
      BY <2>1, <3>1
  <2>3. stat.all_fault_bit_num \in {0, stats_file[repeat_round].stat.all_fault_bit_num}
    BY <2>1 DEF HandlerInv, Copied
  <2>4. Copied'
    <3>1. pc'["main"] = "reset_stat" => cleared'["main"] # 0
      BY <1>0, <2>1
    <3> QED
      BY <2>1, <2>2, <2>3, <3>1 DEF Copied, EndLabels
  <2>5. Ahead'
    BY <1>11, <2>1 DEF EndLabels
  <2> QED
    BY <1>0, <1>10, <1>12, <2>1, <2>4, <2>5
<1>20. CASE NextRound
  <2>1. /\ pc["main"] = "next_round" /\ pc["handler"] = "off" /\ pc'["handler"] = "off"
        /\ status' # "exited"
        /\ pc'["main"] \in {"open_result", "delete_generator"}
        /\ repeat_round' = repeat_round + 1
        /\ UNCHANGED <<stat, stats_file, result_file, trace_file>>
    BY <1>0, <1>20 DEF NextRound, vars, fileVars
  <2>2. repeat_round' \in Rounds
    BY PlacesKept
  <2>3. Ahead'
    BY <1>0, <2>1, <2>2 DEF HandlerInv, Ahead
  <2>4. Cleared
    BY <2>1 DEF RoundInv, ClearedSoFar
  <2>5. Copied'
    BY <2>1, <2>4 DEF Copied, Cleared
  <2> QED
    BY <1>0, <1>10, <1>12, <2>1, <2>3, <2>5
<1> HIDE DEF SameFiles
<1> QED
  BY <1>2, <1>3, <1>5, <1>6, <1>7, <1>8, <1>9, <1>13, <1>14, <1>15, <1>16, <1>17, <1>18,
     <1>19, <1>20
  DEF SimNext, Main, Handler, Environment, PrintResult

(* The report of an interrupted round is about that round, misses at most the *)
(* request in progress and agrees with the CSV and the trace file but for the *)
(* row or line being written; if main was clearing the counters of a finished *)
(* round, the report is what was left of them (signal_event_handler against   *)
(* the loop of main).                                                         *)
THEOREM HandlerReportsTheRound == SimSpec => []HandlerReport
<1>1. SimInv /\ HandlerInv => HandlerReport
  <2> SUFFICES ASSUME SimInv, HandlerInv, NEW r \in Rounds, stats_file[r].by = "handler"
               PROVE  /\ r = repeat_round
                      /\ Counted(r) =>
                           IF Clearing THEN ClearedReport(r, stats_file[r].stat)
                                       ELSE InterruptedReport(r, stats_file[r].stat)
    BY DEF HandlerReport
  <2>1. r = repeat_round /\ pc["handler"] \in AfterWrite
    BY DEF HandlerInv
  <2>2. Counted(r) => Settled(pc["handler"], stats_file[r].stat)
    BY <2>1 DEF HandlerInv, Shown, Ctd, AfterWrite
  <2>3. status = "exited" => pc["handler"] = "exit"
    BY DEF HandlerInv
  <2> QED
    BY <2>1, <2>2, <2>3 DEF Settled, InterruptedReport, RowsFiled, LinesFiled
<1>2. SimSpec => []HandlerInv
  BY HandlerInit, HandlerStep, EveryRound, Streams, PTL DEF SimSpec
<1> QED
  BY <1>1, <1>2, EveryRound, PTL

=============================================================================
