------------------------------- MODULE Replay ----------------------------------
(***************************************************************************)
(* A compiled run that asks and looks at the clock: the interpreter runs   *)
(* the program first, and the native program is then given the same        *)
(* answers through a pipe and the same readings through a file             *)
(* (interaction.rs, clock.rs, and the compiled part of run_file).  A       *)
(* program is a sequence of calls; "branch" looks at the clock in a mode   *)
(* that depends on the last answer, and "inline" is a block of Rust of the *)
(* user, which only the native program runs and which reads a line.        *)
(***************************************************************************)
EXTENDS Naturals, Sequences

CONSTANTS
  Sources,       \* the programs
  Answers,       \* what a user may type in one line
  Refused,       \* the answers that are too long or hold a line break
  MaxInputs,     \* 1,024 calls of input
  MaxReadings,   \* 16,384 readings of the clock
  PipeSize       \* lines a pipe holds

Calls == {"input", "local", "utc", "branch", "print", "seal", "argc", "inline"}
ReplayConstants == Sources \subseteq Seq(Calls) /\ {MaxInputs, MaxReadings, PipeSize} \subseteq Nat

NoAnswer == "end of input"
Policies == {"disabled", "interactive", "provided"}

VARIABLES
  program, policy, provided,
  phase,         \* "reference", "native", "passed", "failed"
  ref,           \* the interpreter: next call, events, readings, stdout, seals, arguments_accessed
  stdin, writer, unsent,      \* the pipe to the child and the thread that fills it
  child,         \* the native program: next call, answers, readings, stdout, seals, state
  stdout, output,             \* the pipe from the child, and what was read from it
  interaction    \* the evidence of the run: whether interaction.json is kept, and its events

vars == <<program, policy, provided, phase, ref, stdin, writer, unsent, child, stdout, output, interaction>>
NewReference == [at |-> 1, answers |-> << >>, readings |-> << >>, said |-> << >>, seals |-> << >>,
                 events |-> << >>, accessed |-> FALSE]
NewChild == [at |-> 1, answers |-> << >>, readings |-> << >>, said |-> << >>, seals |-> << >>, state |-> "off"]

Init ==
  /\ program \in Sources /\ policy \in Policies
  /\ provided \in (IF policy = "provided" THEN {<<a>> : a \in Answers \ Refused} ELSE {<< >>})
  /\ phase = "reference" /\ ref = NewReference
  /\ stdin = << >> /\ writer = "idle" /\ unsent = << >>
  /\ child = NewChild /\ stdout = << >> /\ output = << >>
  /\ interaction = [kept |-> FALSE, events |-> << >>]

Last(s) == IF s = << >> THEN "nothing" ELSE s[Len(s)]
Mode(call, answers) == IF call = "branch" THEN (IF Last(answers) = "a" THEN "utc" ELSE "local") ELSE call
Clocks == {"local", "utc", "branch"}
Uses(calls) == \E i \in DOMAIN program : program[i] \in calls

-----------------------------------------------------------------------------
(* Evaluation: interaction.input, interaction.argc, clock.capture.         *)
Call == IF ref.at <= Len(program) THEN program[ref.at] ELSE "none"
NoChild == UNCHANGED <<stdin, writer, unsent, child, stdout, output>>
EvidenceNeeded(r) == r.accessed \/ r.events # << >>
End(p, r) ==
  /\ phase' = p /\ ref' = r
  /\ interaction' = [kept |-> EvidenceNeeded(r), events |-> IF EvidenceNeeded(r) THEN r.events ELSE << >>]
Goes(r) == phase' = "reference" /\ ref' = [r EXCEPT !.at = @ + 1] /\ UNCHANGED interaction
Heard(answer) == [ref EXCEPT !.events = Append(@, answer), !.answers = IF answer = NoAnswer THEN @ ELSE Append(@, answer)]
Typed == CASE policy = "provided" -> {IF Len(ref.events) < Len(provided) THEN provided[Len(ref.events) + 1] ELSE NoAnswer}
           [] policy = "interactive" -> Answers \union {NoAnswer}
           [] OTHER -> {}

Ask ==
  /\ phase = "reference" /\ Call = "input" /\ UNCHANGED <<program, policy, provided>> /\ NoChild
  /\ IF Len(ref.events) >= MaxInputs \/ policy = "disabled" THEN End("failed", ref)
     ELSE \E answer \in Typed :
            CASE answer \in Refused -> End("failed", ref)
              [] answer = NoAnswer -> End("failed", Heard(answer))
              [] OTHER -> Goes(Heard(answer))
Reading(index, mode) == [index |-> index, mode |-> mode]
LookAtClock ==
  /\ phase = "reference" /\ Call \in Clocks /\ UNCHANGED <<program, policy, provided>> /\ NoChild
  /\ LET index == Len(ref.readings) IN
     IF index >= MaxReadings THEN End("failed", ref)
     ELSE Goes([ref EXCEPT !.readings = Append(@, Reading(index, Mode(Call, ref.answers)))])
Other ==
  /\ phase = "reference" /\ Call \in {"print", "seal", "argc", "inline"} /\ UNCHANGED <<program, policy, provided>> /\ NoChild
  /\ Goes(CASE Call = "print" -> [ref EXCEPT !.said = Append(@, Last(ref.answers))]
            [] Call = "seal" -> [ref EXCEPT !.seals = Append(@, Last(ref.answers))]
            [] Call = "argc" -> [ref EXCEPT !.accessed = TRUE]
            [] OTHER -> ref)

(* The child is started with the readings in a file and its input piped.   *)
Spawn ==
  /\ phase = "reference" /\ Call = "none"
  /\ phase' = "native" /\ child' = [child EXCEPT !.state = "running"]
  /\ writer' = "writing" /\ unsent' = ref.answers
  /\ UNCHANGED <<program, policy, provided, ref, stdin, stdout, output, interaction>>

-----------------------------------------------------------------------------
Running == phase = "native" /\ child.state = "running"
Child(c) == child' = c /\ UNCHANGED <<program, policy, provided, phase, ref, writer, unsent, output, interaction>>
Exit(code) == Child([child EXCEPT !.state = code]) /\ UNCHANGED <<stdin, stdout>>
Next1(c) == [c EXCEPT !.at = @ + 1]
NativeCall == IF child.at <= Len(program) THEN program[child.at] ELSE "none"
Drained == stdin = << >> /\ writer \notin {"writing"}

(* goblin_input.  Mutant: at the end of its input a call answers.          *)
AtEndAnswered == Child(Next1([child EXCEPT !.answers = Append(@, "nothing")])) /\ UNCHANGED <<stdin, stdout>>
AtEnd == Exit("error")
(* Mutant: the last call that is allowed is refused.                       *)
MoreButOne(n) == n + 1 < MaxInputs
More(n) == n < MaxInputs
NativeAsk ==
  /\ Running /\ NativeCall = "input"
  /\ CASE ~More(Len(child.answers)) -> Exit("error")
       [] More(Len(child.answers)) /\ stdin # << >> ->
            /\ Child(Next1([child EXCEPT !.answers = Append(@, Head(stdin))]))
            /\ stdin' = Tail(stdin) /\ UNCHANGED stdout
       [] OTHER -> Drained /\ AtEnd
(* Clock::capture with a replay, and Clock::finish.                        *)
Replayed(mode) ==
  LET index == Len(child.readings) IN
  index < MaxReadings /\ index < Len(ref.readings) /\ ref.readings[index + 1].mode = mode
NativeLook ==
  /\ Running /\ NativeCall \in Clocks
  /\ IF Replayed(Mode(NativeCall, child.answers))
     THEN /\ Child(Next1([child EXCEPT !.readings = Append(@, ref.readings[Len(@) + 1])]))
          /\ UNCHANGED <<stdin, stdout>>
     ELSE Exit("error")
NativePrint ==
  /\ Running /\ NativeCall = "print" /\ Len(stdout) < PipeSize
  /\ Child(Next1([child EXCEPT !.said = Append(@, Last(child.answers))]))
  /\ stdout' = Append(stdout, Last(child.answers)) /\ UNCHANGED stdin
NativeOther ==
  /\ Running /\ NativeCall \in {"seal", "argc"}
  /\ Child(Next1(IF NativeCall = "seal" THEN [child EXCEPT !.seals = Append(@, Last(child.answers))] ELSE child))
  /\ UNCHANGED <<stdin, stdout>>
NativeEnd ==
  /\ Running /\ NativeCall = "none"
  /\ Exit(IF Uses(Clocks) /\ Len(child.readings) # Len(ref.readings) THEN "error" ELSE "success")
(* The user's block takes a line, or finds none.                           *)
Inline ==
  /\ Running /\ NativeCall = "inline" /\ (stdin # << >> \/ Drained)
  /\ Child(Next1(child)) /\ stdin' = (IF stdin = << >> THEN stdin ELSE Tail(stdin)) /\ UNCHANGED stdout
ChildStep == NativeAsk \/ NativeLook \/ NativePrint \/ NativeOther \/ NativeEnd \/ Inline

(* The thread that writes the answers: it fails when the child is gone.    *)
Write ==
  /\ phase = "native" /\ writer = "writing"
  /\ CASE unsent = << >> -> writer' = "done" /\ UNCHANGED <<stdin, unsent>>
       [] unsent # << >> /\ child.state # "running" -> writer' = "broken" /\ UNCHANGED <<stdin, unsent>>
       [] OTHER -> /\ Len(stdin) < PipeSize
                   /\ stdin' = Append(stdin, Head(unsent)) /\ unsent' = Tail(unsent) /\ UNCHANGED writer
  /\ UNCHANGED <<program, policy, provided, phase, ref, child, stdout, output, interaction>>

(* wait_with_output.  Mutant: it begins when the answers are written.      *)
ReadableLate == stdout # << >> /\ writer # "writing"
Readable == stdout # << >>
Collect ==
  /\ phase = "native" /\ Readable
  /\ output' = Append(output, Head(stdout)) /\ stdout' = Tail(stdout)
  /\ UNCHANGED <<program, policy, provided, phase, ref, stdin, writer, unsent, child, interaction>>
(* The exit status, then the writer, then what the child left behind.      *)
Same ==
  /\ Uses(Clocks) => child.readings = ref.readings
  /\ ~Uses({"inline"}) => output = ref.said
  /\ child.seals = ref.seals
Decide ==
  /\ phase = "native" /\ child.state \notin {"off", "running"} /\ stdout = << >>
  /\ child.state = "error" \/ writer \in {"done", "broken"}
  /\ End(IF child.state = "success" /\ writer = "done" /\ Same THEN "passed" ELSE "failed", ref)
  /\ UNCHANGED <<program, policy, provided>> /\ NoChild

Ended == phase \in {"passed", "failed"}
Next == Ask \/ LookAtClock \/ Other \/ Spawn \/ ChildStep \/ Write \/ Collect \/ Decide
Spec == Init /\ [][Next]_vars /\ WF_vars(ChildStep) /\ WF_vars(Write) /\ WF_vars(Collect) /\ WF_vars(Decide)

-----------------------------------------------------------------------------
TypeOK ==
  /\ phase \in {"reference", "native", "passed", "failed"} /\ writer \in {"idle", "writing", "done", "broken"}
  /\ child.state \in {"off", "running", "success", "error"} /\ Len(stdin) <= PipeSize /\ Len(stdout) <= PipeSize

(* A compiled run that passes gave its native program exactly the answers  *)
(* and readings of the reference, whatever a block of Rust took from its   *)
(* input, and keeps every answer any of the two was given (goblin_input,   *)
(* Clock::capture, Clock::finish, evidence_needed).                        *)
PassIsReplayed ==
  /\ phase = "passed" => child.answers = ref.answers /\ child.readings = ref.readings
  /\ Ended /\ ref.answers # << >> => interaction.kept /\ SubSeq(interaction.events, 1, Len(ref.answers)) = ref.answers

(* A program without blocks of Rust whose reference ran to its end passes: *)
(* no limit, order of writing and reading, or full pipe makes the native   *)
(* program fail where the reference did not.                               *)
FaithfulRunsPass == phase = "failed" /\ child.state # "off" => Uses({"inline"})

(* The native part of a run ends: the child, the writer and the reader of  *)
(* its output never wait for one another in a circle.                      *)
RunEnds == phase = "native" ~> Ended
=============================================================================
