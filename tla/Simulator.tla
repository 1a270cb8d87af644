------------------------------ MODULE Simulator ------------------------------
(***************************************************************************)
(* The whole process: main's campaign of rounds around MemorySystem, the   *)
(* signal handler that reports and exits, and the files they leave.        *)
(*                                                                         *)
(* There is one thread.  A signal suspends main wherever it is, and main   *)
(* does not move again before the handler has ended the process; both run  *)
(* SignalHandler::print_result on the same Stat and the same streams, so   *)
(* its steps are parameterised by who runs them (self).                    *)
(***************************************************************************)
EXTENDS MemorySystem

CONSTANTS
  CommandLines,     \* options the program may be started with
  Sweep,            \* addresses in the order SequentialGenerator visits them
  StartRound,       \* -s
  MaxRounds,        \* bound: the largest -d
  InitialStats,     \* contents of the Stat object new Stat leaves
  Signals,          \* the catchable signals main registers
  OpenMayFail       \* an output file may be impossible to open

Rounds == StartRound .. StartRound + MaxRounds

\* -n (0 means no limit), -d, the generator of the .ini file, and whether -t
\* and -w were given.
Options == [num_request : Nat, rounds : 0 .. MaxRounds,
            generator_system : {"SequentialGenerator", "RandomGenerator"},
            trace_file : BOOLEAN, faultmap_write : BOOLEAN]

ASSUME CampaignAssumption ==
  /\ CommandLines \subseteq Options
  /\ Sweep \in Seq(Addresses) /\ Sweep # <<>>
  /\ StartRound \in Nat /\ MaxRounds \in Nat
  /\ OpenMayFail \in BOOLEAN
  /\ InitialStats \subseteq Stats

VARIABLES
  opts,          \* the options of this run
  pc,            \* where main and the handler are
  status,        \* "running", or how the process ended
  registered,    \* signals with signal_handler installed
  user_handler,  \* p_user_signal_handler is set
  is_sig_term,   \* g_is_sig_term
  repeat_round,  \* stat->repeat_round
  sweep_pos,     \* requests SequentialGenerator's loops have sent this round
  cleared,       \* assignments of ResetStat done, by who runs it
  stats_open,    \* stat_.writer_ is open
  stats_file,    \* _Round_r_Stats.txt: who wrote it last, and the counters
  result_file,   \* _Round_r_FaultResult.csv
  trace_file,    \* _Round_r_FaultTrace.txt
  map_file       \* the file given with -w

procVars == <<opts, registered, user_handler, is_sig_term>>
fileVars == <<stats_open, stats_file, result_file, trace_file, map_file>>
roundVars == <<repeat_round, sweep_pos, cleared>>
simVars  == <<vars, pc, status, procVars, roundVars, fileVars>>

\* main's local repeat_round, after the addition of -s.
Limit == StartRound + opts.rounds

Actors == {"main", "handler"}

\* main is suspended while the handler runs.
Running(self) ==
  status = "running" /\ (self = "handler" <=> pc["handler"] # "off")
At(self, label)   == Running(self) /\ pc[self] = label
Goto(self, label) == pc' = [pc EXCEPT ![self] = label]
End(how) == status' = how

NoStats == [by |-> "nobody", stat |-> [c \in Counters |-> 0]]
NoRows  == [state |-> "absent", rows |-> 0]
Opened  == [state |-> "open", rows |-> 0]   \* contents still in the buffer
Closed(n) == [state |-> "closed", rows |-> n]

SimInit ==
  /\ MemInit
  /\ stat \in InitialStats
  /\ opts \in CommandLines
  /\ pc = [main |-> "set_signal", handler |-> "off"]
  /\ status = "running"
  /\ registered = {} /\ user_handler = FALSE /\ is_sig_term = FALSE
  /\ repeat_round = StartRound
  /\ sweep_pos = 0
  /\ cleared = [self \in Actors |-> 0]
  /\ stats_open = FALSE
  /\ stats_file = [r \in Rounds |-> NoStats]
  /\ result_file = [r \in Rounds |-> NoRows]
  /\ trace_file = [r \in Rounds |-> NoRows]
  /\ map_file = "absent"

-----------------------------------------------------------------------------
(* Start-up: main registers each signal, then the function to call. *)

SetSignal ==
  /\ At("main", "set_signal")
  /\ \E sig \in Signals \ registered : registered' = registered \cup {sig}
  /\ UNCHANGED <<vars, opts, pc, status, user_handler, is_sig_term, roundVars,
                 fileVars>>

\* The last call of the group, then the test of the round loop.
SetSignalHandler ==
  /\ At("main", "set_signal")
  /\ registered = Signals
  /\ user_handler' = TRUE
  /\ Goto("main", IF repeat_round < Limit THEN "open_result" ELSE "delete_generator")
  /\ UNCHANGED <<vars, opts, status, registered, is_sig_term, roundVars,
                 fileVars>>

-----------------------------------------------------------------------------
(* One round. *)

\* SetFaultResult: AbruptExit when the file cannot be opened.
SetFaultResult ==
  /\ At("main", "open_result")
  /\ \/ /\ result_file' = [result_file EXCEPT ![repeat_round] = Opened]
        /\ result_rows' = 0
        /\ Goto("main", IF FaultTraceOn THEN "open_trace" ELSE "access")
        /\ UNCHANGED status
     \/ /\ OpenMayFail
        /\ End("aborted")
        /\ UNCHANGED <<pc, result_file, result_rows>>
  /\ UNCHANGED <<stat, arrayVars, burstVars, rpc, loopVars, trace_lines,
                 procVars, roundVars, stats_open, stats_file, trace_file,
                 map_file>>

\* SetFaultTrace, when the configuration asks for a trace.
SetFaultTrace ==
  /\ At("main", "open_trace")
  /\ \/ /\ trace_file' = [trace_file EXCEPT ![repeat_round] = Opened]
        /\ trace_lines' = 0
        /\ Goto("main", "access")
        /\ UNCHANGED status
     \/ /\ OpenMayFail
        /\ End("aborted")
        /\ UNCHANGED <<pc, trace_file, trace_lines>>
  /\ UNCHANGED <<stat, arrayVars, burstVars, rpc, loopVars, result_rows,
                 procVars, roundVars, stats_open, stats_file, result_file,
                 map_file>>

simUnchangedByRequest ==
  <<status, procVars, repeat_round, cleared, fileVars>>

\* AccessMemory of either generator calls the one of the base class first.
CountAccess ==
  /\ ~opts.trace_file
  /\ At("main", "access")
  /\ opts.generator_system = "RandomGenerator" /\ opts.num_request = 0 =>
       stat.executed_request_num < MaxRequests
  /\ AccessMemory
  /\ Goto("main", "serve")
  /\ UNCHANGED <<simUnchangedByRequest, sweep_pos>>

\* RandomGenerator's request.
RandomAccess ==
  /\ opts.generator_system = "RandomGenerator"
  /\ At("main", "serve")
  /\ \E addr \in Addresses, data \in DataPatterns, is_write \in BOOLEAN :
       RecvRequest(addr, data, is_write)
  /\ UNCHANGED <<pc, simUnchangedByRequest, sweep_pos>>

\* The body of SequentialGenerator's loops, one coordinate after the other.
SequentialAccess ==
  /\ opts.generator_system = "SequentialGenerator"
  /\ At("main", "serve")
  /\ \E data \in DataPatterns, is_write \in BOOLEAN :
       RecvRequest(Sweep[sweep_pos + 1], data, is_write)
  /\ sweep_pos' = sweep_pos + 1
  /\ UNCHANGED <<pc, simUnchangedByRequest>>

\* -t: no generator was constructed and main calls through the raw pointer.
UninitialisedAccess ==
  /\ opts.trace_file
  /\ At("main", "access")
  /\ End("crashed")
  /\ UNCHANGED <<vars, pc, procVars, roundVars, fileVars>>

ServeRequest ==
  /\ At("main", "serve")
  /\ Serve
  /\ UNCHANGED <<pc, sweep_pos, simUnchangedByRequest>>

\* The end-of-round test both generators make after every request.
EnoughRequests ==
  opts.num_request # 0 /\ stat.executed_request_num >= opts.num_request

(* Mutant: the innermost loop stops one coordinate early. *)
SweepDoneEarly ==
  opts.generator_system = "SequentialGenerator" /\ sweep_pos + 1 >= Len(Sweep)

\* The loops of SequentialGenerator have run out.
SweepDone ==
  opts.generator_system = "SequentialGenerator" /\ sweep_pos = Len(Sweep)

AfterRequest ==
  /\ At("main", "serve")
  /\ rpc = "idle"
  /\ IF EnoughRequests \/ SweepDone
       THEN sweep_pos' = 0 /\ Goto("main", "print_open")
       ELSE Goto("main", "access") /\ UNCHANGED sweep_pos
  /\ UNCHANGED <<vars, simUnchangedByRequest>>

-----------------------------------------------------------------------------
(* print_result, by main at the end of a round or by the handler anywhere.  *)

\* PrintStat opens the stats file.  Its stream is one object: if the handler
\* got in while main had it open, the second open fails.  After delete stat
\* the handler works on freed memory: it may crash, fail or find it intact.
StatFreed == pc["main"] \in {"delete_config", "return"}

OpenStats(self) ==
  /\ At(self, "print_open")
  /\ \/ /\ ~stats_open
        /\ stats_open' = TRUE
        /\ stats_file' = [stats_file EXCEPT ![repeat_round] =
                            [by |-> "open", stat |-> NoStats.stat]]
        /\ Goto(self, "print_write")
        /\ UNCHANGED status
     \/ /\ stats_open \/ OpenMayFail \/ StatFreed
        /\ End("aborted")
        /\ UNCHANGED <<pc, stats_open, stats_file>>
     \/ /\ StatFreed
        /\ End("crashed")
        /\ UNCHANGED <<pc, stats_open, stats_file>>
  /\ UNCHANGED <<vars, procVars, roundVars, result_file, trace_file, map_file>>

(* Mutant: the stream is left open. *)
StatsStillOpen == TRUE

\* writer_.close() at the end of PrintStat.
StatsClosed == FALSE

\* The insertions of PrintStat, and its close.
WriteStats(self) ==
  /\ At(self, "print_write")
  /\ stats_file' = [stats_file EXCEPT ![repeat_round] = [by |-> self, stat |-> stat]]
  /\ stats_open' = StatsClosed
  /\ Goto(self, IF FaultTraceOn THEN "reset_trace" ELSE "reset_result")
  /\ UNCHANGED <<vars, status, procVars, roundVars, result_file, trace_file,
                 map_file>>

\* Closing a stream flushes it; closing a closed one changes no file.
ClosedFile(file, n) ==
  IF file[repeat_round].state = "open"
    THEN [file EXCEPT ![repeat_round] = Closed(n)]
    ELSE file

ResetFaultTrace(self) ==
  /\ At(self, "reset_trace")
  /\ trace_file' = ClosedFile(trace_file, trace_lines)
  /\ Goto(self, "reset_result")
  /\ UNCHANGED <<vars, status, procVars, roundVars, stats_open, stats_file,
                 result_file, map_file>>

ResetFaultResult(self) ==
  /\ At(self, "reset_result")
  /\ result_file' = ClosedFile(result_file, result_rows)
  /\ Goto(self, "reset_stat")
  /\ UNCHANGED <<vars, status, procVars, roundVars, stats_open, stats_file,
                 trace_file, map_file>>

\* Stat::ResetStat, the last call of print_result, one counter at a time.
ResetCounters(self) ==
  /\ At(self, "reset_stat")
  /\ stat' = [stat EXCEPT ![ResetOrder[cleared[self] + 1]] = 0]
  /\ IF cleared[self] + 1 < Len(ResetOrder)
       THEN cleared' = [cleared EXCEPT ![self] = @ + 1] /\ UNCHANGED pc
       ELSE /\ cleared' = [cleared EXCEPT ![self] = 0]
            /\ Goto(self, IF self = "main" THEN "next_round" ELSE "exit")
  /\ UNCHANGED <<memVars, status, procVars, repeat_round, sweep_pos, fileVars>>

PrintResult(self) ==
  \/ OpenStats(self)
  \/ WriteStats(self)
  \/ ResetFaultTrace(self)
  \/ ResetFaultResult(self)
  \/ ResetCounters(self)

(* Mutant: the loop's test is one round too low. *)
AnotherRoundTooLow == repeat_round + 2 < Limit

(* Mutant: the loop's test comes before repeat_round++. *)
AnotherRoundUntested == repeat_round < Limit

\* The test of the loop after repeat_round++.
AnotherRound == repeat_round + 1 < Limit

(* Mutant: repeat_round++ is missing. *)
NextRoundNoIncrement ==
  /\ At("main", "next_round")
  /\ Goto("main", IF AnotherRound THEN "open_result" ELSE "delete_generator")
  /\ UNCHANGED <<vars, status, procVars, roundVars, fileVars>>

\* repeat_round++ and the test of the loop.
NextRound ==
  /\ At("main", "next_round")
  /\ repeat_round' = repeat_round + 1
  /\ Goto("main", IF AnotherRound THEN "open_result" ELSE "delete_generator")
  /\ UNCHANGED <<vars, status, procVars, sweep_pos, cleared, fileVars>>

-----------------------------------------------------------------------------
(* The end of main.  Deleting the generator deletes the memory system and   *)
(* its fault model, whose destructor stores the fault map if -w was given.  *)

DeleteGenerator ==
  /\ ~opts.trace_file
  /\ At("main", "delete_generator")
  /\ \/ /\ ~opts.faultmap_write
        /\ Goto("main", "delete_stat")
        /\ UNCHANGED <<status, map_file>>
     \/ /\ opts.faultmap_write
        /\ map_file' = "partial"
        /\ Goto("main", "write_map")
        /\ UNCHANGED status
     \/ /\ opts.faultmap_write /\ OpenMayFail
        /\ End("aborted")
        /\ UNCHANGED <<pc, map_file>>
  /\ UNCHANGED <<vars, procVars, roundVars, stats_open, stats_file, result_file,
                 trace_file>>

\* With -t and no rounds main gets here too, and deletes a pointer that was
\* never set: nothing happens if it is null, anything else is no generator.
DeleteUninitialised ==
  /\ opts.trace_file
  /\ At("main", "delete_generator")
  /\ \/ Goto("main", "delete_stat") /\ UNCHANGED status
     \/ End("crashed") /\ UNCHANGED pc
  /\ UNCHANGED <<vars, procVars, roundVars, fileVars>>

WriteFaultMap ==
  /\ At("main", "write_map")
  /\ map_file' = "complete"
  /\ Goto("main", "delete_stat")
  /\ UNCHANGED <<vars, status, procVars, roundVars, stats_open, stats_file,
                 result_file, trace_file>>

\* delete stat, delete config, and the return that ends the process.
Delete ==
  /\ \/ At("main", "delete_stat") /\ Goto("main", "delete_config") /\ UNCHANGED status
     \/ At("main", "delete_config") /\ Goto("main", "return") /\ UNCHANGED status
     \/ At("main", "return") /\ End("returned") /\ UNCHANGED pc
  /\ UNCHANGED <<vars, procVars, roundVars, fileVars>>

-----------------------------------------------------------------------------
(* Signals. *)

(* Mutant: the handler does not look at g_is_sig_term. *)
IgnoredNever == FALSE

\* The early return of SignalHandler::signal_handler.
IgnoreSignal == is_sig_term

\* A registered signal runs signal_handler.  The first one sets g_is_sig_term;
\* signal_event_handler is entered if main has got to set_signal_handler.
Signal(sig) ==
  /\ status = "running"
  /\ sig \in registered
  /\ ~IgnoreSignal
  /\ is_sig_term' = TRUE
  /\ pc' = IF user_handler THEN [pc EXCEPT !["handler"] = "print_open"] ELSE pc
  /\ UNCHANGED <<vars, opts, status, registered, user_handler, roundVars,
                 fileVars>>

\* SIGKILL, whose registration fails, or a signal that is not registered yet.
Kill ==
  /\ status = "running"
  /\ End("killed")
  /\ UNCHANGED <<vars, pc, procVars, roundVars, fileVars>>

\* exit(0) at the end of signal_event_handler.
Exit ==
  /\ At("handler", "exit")
  /\ End("exited")
  /\ UNCHANGED <<vars, pc, procVars, roundVars, fileVars>>

-----------------------------------------------------------------------------
Main ==
  \/ SetSignal \/ SetSignalHandler
  \/ SetFaultResult \/ SetFaultTrace
  \/ CountAccess \/ RandomAccess \/ SequentialAccess \/ UninitialisedAccess
  \/ ServeRequest \/ AfterRequest
  \/ PrintResult("main")
  \/ NextRound
  \/ DeleteGenerator \/ DeleteUninitialised \/ WriteFaultMap \/ Delete

Handler == PrintResult("handler") \/ Exit

Environment == (\E sig \in Signals : Signal(sig)) \/ Kill

SimNext == Main \/ Handler \/ Environment

SimSpec == SimInit /\ [][SimNext]_simVars

\* The one thread keeps running as long as it can: nothing in the program
\* waits.  Signals may never come.
FairSpec == SimSpec /\ WF_simVars(Main) /\ WF_simVars(Handler)

-----------------------------------------------------------------------------
Labels == {"set_signal", "open_result", "open_trace", "access", "serve",
           "print_open", "print_write", "reset_trace", "reset_result",
           "reset_stat", "next_round", "delete_generator", "write_map",
           "delete_stat", "delete_config", "return", "off", "exit"}

(* Types of the variables. *)
SimTypeOK ==
  /\ TypeOK
  /\ opts \in Options
  /\ pc \in [Actors -> Labels]
  /\ status \in {"running", "returned", "exited", "aborted", "crashed", "killed"}
  /\ registered \subseteq Signals
  /\ user_handler \in BOOLEAN /\ is_sig_term \in BOOLEAN
  /\ repeat_round \in Rounds
  /\ sweep_pos \in 0 .. Len(Sweep)
  /\ cleared \in [Actors -> 0 .. Len(ResetOrder) - 1]
  /\ stats_open \in BOOLEAN
  /\ stats_file \in
       [Rounds -> [by : {"nobody", "open", "main", "handler"}, stat : Stats]]
  /\ result_file \in [Rounds -> [state : {"absent", "open", "closed"}, rows : Nat]]
  /\ trace_file \in [Rounds -> [state : {"absent", "open", "closed"}, rows : Nat]]
  /\ map_file \in {"absent", "partial", "complete"}

\* The three files of round r are complete and tell the same story.
Consistent(r) ==
  LET s == stats_file[r].stat
  IN /\ stats_file[r].by = "main"
     /\ s.executed_request_num = s.fault_request_num + s.correct_request_num
     /\ result_file[r] = Closed(s.all_fault_bit_num)
     /\ FaultTraceOn => trace_file[r] = Closed(s.fault_request_num)

FinishedRounds == StartRound .. repeat_round - 1

(* Once main has gone on to the next round, the files of the finished one   *)
(* are complete, agree with each other and stay so, whatever signals do     *)
(* (main's loop, print_result).                                             *)
CompletedRounds == \A r \in FinishedRounds : Consistent(r)

(* Stat's constructor leaves the counters uninitialised: whatever they      *)
(* held, every round but the first is consistent, because print_result      *)
(* resets them, one by one.                                                 *)
GarbageWashedOut == \A r \in FinishedRounds : r > StartRound => Consistent(r)

\* new Stat found zeros in the counters ResetStat clears; only the first round
\* depends on it.
ZeroStart == \A s \in InitialStats : \A c \in Counters \ BLCounters : s[c] = 0
Counted(r) == r > StartRound \/ ZeroStart

(* A finished round executed the requests asked for with -n; a sequential   *)
(* sweep ends the round early when the memory has fewer columns.  In the    *)
(* first round that takes a Stat object that was zero (generators, stat.cc).*)
RoundLength ==
  \A r \in FinishedRounds :
    Counted(r) =>
      stats_file[r].stat.executed_request_num =
        IF opts.generator_system = "SequentialGenerator"
             /\ (opts.num_request = 0 \/ opts.num_request > Len(Sweep))
          THEN Len(Sweep) ELSE opts.num_request

\* main has begun to clear the counters of a round it has not left yet.
Clearing ==
  \/ pc["main"] = "reset_stat" /\ cleared["main"] > 0
  \/ pc["main"] = "next_round"

\* The counters of round r, wherever the round was interrupted, and the files
\* the handler left.
InterruptedReport(r, s) ==
  /\ s.executed_request_num =
       s.fault_request_num + s.correct_request_num + One(rpc \notin {"idle", "trace"})
  /\ status = "exited" =>
       /\ result_file[r] \in {NoRows, Closed(s.all_fault_bit_num - One(rpc = "row"))}
       /\ FaultTraceOn =>
            trace_file[r] \in {NoRows, Closed(s.fault_request_num - One(rpc = "trace"))}

\* main was clearing: the requests are zero already, the rest of the report is
\* cleared as far as main had got, the CSV file is the finished round's.
ClearedReport(r, s) ==
  /\ s.executed_request_num = 0
  /\ result_file[r].state = "closed"
  /\ s.all_fault_bit_num \in {0, result_file[r].rows}

(* The report of an interrupted round is about that round, misses at most   *)
(* the request in progress, and agrees with the CSV and the trace file the  *)
(* handler left but for a row or line it cut off - unless the signal came   *)
(* while main cleared the counters of the finished round, or before         *)
(* repeat_round++: then the finished round's report is overwritten with     *)
(* half-cleared counters (signal_event_handler against main's loop).        *)
HandlerReport ==
  \A r \in Rounds :
    stats_file[r].by = "handler" =>
      /\ r = repeat_round
      /\ Counted(r) =>
           IF Clearing THEN ClearedReport(r, stats_file[r].stat)
                       ELSE InterruptedReport(r, stats_file[r].stat)

(* A stats file main has written is replaced only by the handler, and only  *)
(* while main has not left print_result and repeat_round++ of that round.   *)
FinishedReportKept ==
  [][\A r \in Rounds :
       stats_file[r].by = "main" /\ stats_file'[r] # stats_file[r] =>
         /\ r = repeat_round
         /\ pc["handler"] = "print_open"
         /\ pc["main"] \in {"reset_trace", "reset_result", "reset_stat",
                            "next_round"}]_simVars

(* With writable output files the process aborts in two places only: a      *)
(* signal inside PrintStat, whose stream cannot be opened twice, and a      *)
(* signal after delete stat.                                                *)
AbortedOnlyByReentry ==
  status = "aborted" /\ ~OpenMayFail =>
    /\ pc["handler"] = "print_open"
    /\ pc["main"] \in {"print_write", "delete_config", "return"}

\* The files of round r are written by main and closed.
Complete(r) ==
  /\ stats_file[r].by = "main"
  /\ result_file[r].state = "closed"
  /\ FaultTraceOn => trace_file[r].state = "closed"

(* When main returns by itself every round asked for has its files, which   *)
(* agree where the counters started from zero, and the fault map is stored, *)
(* if -w was given and there was a generator; with -t it returns only if no *)
(* round was asked for.                                                     *)
ReturnedMeansAllDone ==
  status = "returned" =>
    /\ \A r \in StartRound .. Limit - 1 :
         Complete(r) /\ (Counted(r) => Consistent(r))
    /\ opts.trace_file => opts.rounds = 0
    /\ opts.faultmap_write /\ ~opts.trace_file => map_file = "complete"

(* A campaign comes to an end unless its rounds are endless by request (-n 0 *)
(* with RandomGenerator): the thread runs, and no other loop of main or of   *)
(* the handler can go on for ever.                                           *)
Termination ==
  opts.num_request # 0 \/ opts.generator_system = "SequentialGenerator"
    => <>(status # "running")

(* A signal that reached the handler ends the process, even out of an       *)
(* endless round (-n 0 with RandomGenerator) and however many follow.       *)
SignalEndsProcess == pc["handler"] # "off" ~> status # "running"

(* Doc claim, stat.cc:81-84: the four classes of the round's stats file     *)
(* count the requests of that round with 1, 2, 3 or more lost bits.         *)
ClassesOfTheRound ==
  \A r \in FinishedRounds :
    LET s == stats_file[r].stat
    IN s.single_fault_in_BL_num + s.double_fault_in_BL_num
         + s.triple_fault_in_BL_num + s.others_fault_in_BL_num
       = s.fault_request_num
=============================================================================
