-------------------------------- MODULE CommandLine --------------------------------
(***************************************************************************)
(* main (main.c): the walk over the arguments up to --program, the options *)
(* looked for at fixed places behind it, and what is reported at the end.  *)
(*                                                                         *)
(* Opening the file, the curses library and start are at the points where  *)
(* main calls them: stage names the next of them.                          *)
(***************************************************************************)
EXTENDS Integers, Sequences

CONSTANTS
  Path,       \* the argument that names a file one can open
  Millis      \* what strtol makes of the arguments that are numbers

VARIABLES
  argv,       \* the arguments, argv[0] as its first element
  i,          \* main's index
  ui_on,
  delay,      \* milliseconds, 0 without the option
  stage,      \* what main, or what it has called, does next
  report      \* the messages printed, each named after its return code

clivars == <<argv, i, ui_on, delay, stage, report>>

CliInit(command) ==
  /\ argv = command /\ i = 0 /\ ui_on = TRUE /\ delay = 0
  /\ stage = "arguments" /\ report = <<>>

argc == Len(argv)
Arg(n) == argv[n + 1]

(* One iteration of the loop. *)
Help ==
  /\ stage = "arguments" /\ i < argc /\ Arg(i) \in {"-h", "--help"}
  /\ stage' = "exit" /\ report' = <<"HELP">>
  /\ UNCHANGED <<argv, i, ui_on, delay>>

TakesProgram == Arg(i) = "--program" /\ i + 1 < argc

NextArgument ==
  /\ stage = "arguments" /\ i < argc /\ Arg(i) \notin {"-h", "--help"}
  /\ ui_on' = (ui_on \/ Arg(i) = "--ui")
  /\ i' = i + 1
  /\ stage' = IF TakesProgram THEN "open" ELSE stage
  /\ UNCHANGED <<argv, delay, report>>

NoProgram ==
  /\ stage = "arguments" /\ i >= argc
  /\ stage' = "exit"
  /\ UNCHANGED <<argv, i, ui_on, delay, report>>

(* create_program: one that cannot be opened ends main. *)
CannotOpen ==
  /\ stage = "open" /\ Arg(i) # Path
  /\ stage' = "exit" /\ report' = <<"COULD_NOT_LOAD">>
  /\ UNCHANGED <<argv, i, ui_on, delay>>

Opened ==
  /\ stage = "open" /\ Arg(i) = Path
  /\ stage' = "options"
  /\ UNCHANGED <<argv, i, ui_on, delay, report>>

(* Where main looks for --delay: behind the path it steps over one         *)
(* argument, whether or not it is --ui, and then over one more place.      *)
AfterPath == IF i + 1 < argc THEN i + 1 ELSE i

(* Mistake for the mutation runs: any argument in that place will do.      *)
DelayAt_Any(n) == n + 1 < argc

DelayAt(n) == n + 1 < argc /\ Arg(n) = "--delay"

strtol(word) == IF word \in DOMAIN Millis THEN Millis[word] ELSE 0

Options ==
  /\ stage = "options"
  /\ ui_on' = (ui_on \/ (i + 1 < argc /\ Arg(i + 1) = "--ui"))
  /\ IF ui_on'
     THEN /\ delay' = IF DelayAt(AfterPath + 1) THEN strtol(Arg(AfterPath + 2)) ELSE delay
          /\ i' = IF DelayAt(AfterPath + 1) THEN AfterPath + 2 ELSE AfterPath + 1
          /\ stage' = "ui"
     ELSE /\ i' = AfterPath
          /\ stage' = "start"
          /\ UNCHANGED delay
  /\ UNCHANGED <<argv, report>>

(* The switch over start's result: one case falls through to the next, and *)
(* some results, MACHINE_FAILURE among them, have none.                    *)
Reported == {"MACHINE_TURN_OFF", "BUS_READ_FAILURE", "BUS_WRITE_FAILURE", "BAD_DECODE",
             "BAD_EXECUTION", "UNIMPLEMENTED_INSTRUCTION", "INVALID_EFFECTIVE_ADDRESS"}

Messages(status) ==
  IF status = "FAILED_SEGBOUND_CHECK"
  THEN <<"FAILED_SEGBOUND_CHECK", "INVALID_EFFECTIVE_ADDRESS">>
  ELSE IF status \in Reported THEN <<status>> ELSE <<>>

Report(status) == stage' = "exit" /\ report' = Messages(status)

-----------------------------------------------------------------------------
(* The delay the user gives in the order of the help text, the UI option   *)
(* first, reaches the UI; and there is never a delay without the option    *)
(* before a number.                                                        *)
Asked(n) ==
  /\ n + 4 <= argc
  /\ argv[n] = "--program" /\ argv[n + 1] = Path
  /\ argv[n + 2] = "--ui" /\ argv[n + 3] = "--delay"
  /\ \A m \in 1..n-1 : argv[m] # "--program"

DelayAsGiven ==
  stage \notin {"arguments", "open", "options", "crashed", "exit"} =>
    /\ \A n \in 1..argc : Asked(n) => delay = strtol(argv[n + 4])
    /\ delay # 0 => \E n \in 1..argc-1 : argv[n] = "--delay" /\ delay = strtol(argv[n + 1])

===============================================================================
