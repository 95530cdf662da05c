----------------------------- MODULE MCExecution -----------------------------
(* What a program does while it runs, for TLC: it reads tables in batches  *)
(* and writes streams, or it is compiled and asks for input and the time;  *)
(* and what is planned before it runs: the resources it may use, decided   *)
(* and kept.  A behaviour is of one of them.                               *)
EXTENDS Batches, TLC

CONSTANTS tableA, tableB
CONSTANTS Answers, Refused, MaxInputs, MaxReadings, PipeSize, Longest
VARIABLES text, policy, provided, phase, ref, stdin, thread, unsent, child, stdout, output, interaction
Used == {"input", "utc", "branch", "print", "seal", "argc", "inline"}
(* Every program of few calls, and longer ones that fill both pipes.       *)
Texts == (UNION {[1..n -> Used] : n \in 0..Longest}) \union
  {<<"print", "print", "input", "input", "print", "seal">>, <<"inline", "input", "branch", "input", "seal">>,
   <<"input", "input", "branch", "branch", "print", "inline", "seal">>}
R == INSTANCE Replay WITH Sources <- Texts, program <- text, writer <- thread
ASSUME CompiledConstants == R!ReplayConstants
compiled == <<text, policy, provided, phase, ref, stdin, thread, unsent, child, stdout, output, interaction>>
CONSTANTS Unknown, Absent, Unlimited, Word, MaxBytes, RamLow, RamHigh, DeviceLow, DiskLow, DiskHigh, Slack
CONSTANTS Seen, Asked            \* what kernels show, and requests
Plans == INSTANCE AiPlan
ASSUME PlanConstants == Plans!PlanConstants /\ (\A k \in Seen : Plans!IsKernel(k)) /\ \A r \in Asked : Plans!IsRequest(r)
VARIABLES what, kernel, asked, stage
planned == <<kernel, asked, stage>>

MCTable == (tableA :> <<1, 2, 3, 3, 2, 1>>) @@ (tableB :> <<2, 2, 4, 1>>)

Group(max, high, usage) == [max |-> max, high |-> high, usage |-> usage]
Mount == Group(Absent, Absent, Unknown)
MCGroups == {<<g, Mount>> : g \in {Group(Unlimited, Unlimited, 9), Group(120, 110, 20), Group(100, Unlimited, 60),
                                   Group(120, Absent, Unknown), Group(Word, Absent, 0), Mount}}
              \union {<<Group(Unlimited, 130, 10), Group(90, Absent, 30), Mount>>}
Card(total, used) == [total |-> total, used |-> used]
AnyKernel == [meminfo : {Unknown, <<200, 150>>, <<200, 75>>}, membership : {"v2", "legacy", "none"}, standard : BOOLEAN,
              groups : MCGroups, rlimit : {Unknown, 160}, virtual : {Unknown, 30}, disk : {Unknown, 90}, threads : {4},
              cards : {[c \in {"card0"} |-> x] : x \in {Card(90, 20), Card(90, Unknown)}}]
MCSeen == {k \in AnyKernel : /\ k.standard \/ k.membership = "v2"
                             /\ k.membership # "v2" => Len(k.groups) = 3
                             /\ k.rlimit = Unknown => k.virtual = 30}
Small == [device |-> "cpu", method |-> "full", params |-> 2, trainable |-> 2, bits |-> 16, batch |-> 1, sequence |-> 1,
          activation |-> 1, attention |-> 1, accumulation |-> 1, runtime |-> 1, host |-> 1, quantization |-> 0, extra |-> 1,
          reserve_ram |-> 0, reserve_device |-> 0, reserve_disk |-> 0, percent |-> 50, headroom |-> 20,
          max_memory |-> Unknown, max_device |-> Unknown, max_disk |-> Unknown]
MCAsked == {[Small EXCEPT !.device = d, !.host = n, !.batch = b] : d \in {"cpu", "card0", "card1"}, n \in {0, 3}, b \in {1, 9}}
  \union {[Small EXCEPT !.bits = 32], [Small EXCEPT !.method = "lora", !.trainable = 1],
          [Small EXCEPT !.method = "qlora", !.bits = 4, !.quantization = 1, !.device = "card0"], [Small EXCEPT !.runtime = 250],
          [Small EXCEPT !.max_memory = 55], [Small EXCEPT !.max_memory = 30], [Small EXCEPT !.max_disk = 60], [Small EXCEPT !.bits = 8]}
(* A machine whose cards share the memory, as the macOS probe reports it.  *)
Shared(h) ==
  LET unified == [unified |-> TRUE, total |-> h.total, available |-> h.available,
                  recommended |-> IF Plans!Known(h.total) THEN h.total \div 2 ELSE Unknown]
  IN [h EXCEPT !.devices = [d \in DOMAIN h.devices |-> unified]]

-----------------------------------------------------------------------------
NoProgram ==
  /\ text = << >> /\ policy = "none" /\ provided = << >> /\ phase = "none" /\ ref = << >> /\ stdin = << >>
  /\ thread = "idle" /\ unsent = << >> /\ child = << >> /\ stdout = << >> /\ output = << >> /\ interaction = << >>
NoPlan == kernel = << >> /\ asked = << >> /\ stage = 0
MCInit == /\ Init
          /\ \/ what = "batches" /\ NoProgram /\ NoPlan
             \/ what = "compiled" /\ R!Init /\ NoPlan
             \/ what = "plan" /\ NoProgram /\ kernel \in Seen /\ asked \in Asked /\ stage = 0

Batch == what = "batches" /\ Next /\ UNCHANGED <<what, compiled, planned>>
Read == what = "batches" /\ (\E h \in DOMAIN readers : ReadOn(h)) /\ UNCHANGED <<what, compiled, planned>>
Compiled(A) == what = "compiled" /\ A /\ UNCHANGED <<what, vars, planned>>
(* The plan is decided, and the files of its bundle are saved one by one.  *)
Decide == stage = 0 /\ stage' = 1
Save == stage \in 1..4 /\ Plans!Plan(Plans!Observe(kernel), asked) # "error" /\ stage' = stage + 1
Planned == what = "plan" /\ (Decide \/ Save) /\ UNCHANGED <<what, kernel, asked, vars, compiled>>
MCNext == Batch \/ Compiled(R!Next) \/ Planned
all == <<what, vars, compiled, planned>>
MCSpec == MCInit /\ [][MCNext]_all
(* The read loop goes on, and so do the child and the threads of the run.  *)
MCFairSpec == /\ MCSpec /\ WF_all(Read)
             /\ WF_all(Compiled(R!ChildStep)) /\ WF_all(Compiled(R!Write))
             /\ WF_all(Compiled(R!Collect)) /\ WF_all(Compiled(R!Decide))

-----------------------------------------------------------------------------
(* A program passes only with everything read and written, and what any    *)
(* program did before it stopped leaves evidence that is valid.            *)
BatchEvidence == PassIsComplete /\ EvidenceValid

(* A compiled run that passes gave the native program what the reference   *)
(* was given, and keeps it (goblin_input, Clock::capture, Clock::finish).  *)
PassIsReplayed == what = "compiled" => R!PassIsReplayed

(* Without blocks of Rust a native program fails only where the reference  *)
(* failed.                                                                 *)
FaithfulRunsPass == what = "compiled" => R!FaithfulRunsPass

(* An admitted plan fits into what the kernel's limits leave (ram_budget,  *)
(* cgroup_limits, plan), and less knowledge or room, more work or a lower  *)
(* ceiling never admits; a bundle that verifies is complete and holds the  *)
(* plan for its machine and request (save_bundle, verify_bundle).          *)
Admitted ==
  [][what = "plan" =>
       LET h == Plans!Observe(kernel)
       IN /\ stage = 0 => /\ Plans!FitsTheMachine(kernel, asked)
                          /\ \A g \in {h, Shared(h)} : Plans!NeverAdmittedByLess(g, asked)
          /\ Plans!BundleIsThePlan(h, asked, stage' - 1, Shared(h))]_all

(* The native part of a run ends.                                          *)
RunEnds == phase = "native" ~> phase \in {"passed", "failed", "none"}
=============================================================================
