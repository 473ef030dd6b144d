---------------------------------- MODULE Cli ----------------------------------
(***************************************************************************)
(* The command line (edtf-cli main.rs): one command over many inputs, from *)
(* the arguments or line by line from stdin, and one exit code at the end. *)
(*                                                                         *)
(* What a command makes of one input is the business of the libraries:     *)
(* here an input is accepted by a command or it is not.  validate,         *)
(* canonical, level and info accept what the parser accepts and differ in  *)
(* the line they print only, so validate stands for them.  The reader of   *)
(* stdout may go away at any time; stderr stays.                           *)
(***************************************************************************)
EXTENDS Naturals, Sequences, FiniteSets

CONSTANTS Inputs,           \* the inputs that are lines of text
          Edtf, Julian,     \* those that are EDTF, and Julian dates
          Blank, Dash,      \* the empty input, and "-"
          Torn,             \* a line of stdin that cannot be read
          MaxInputs         \* bound: inputs to one call

ASSUME InputsAssumption == /\ Edtf \subseteq Inputs /\ Julian \subseteq Inputs
                           /\ {Blank, Dash} \subseteq Inputs \ (Edtf \cup Julian)
                           /\ Blank # Dash /\ Torn \notin Inputs
                           /\ MaxInputs \in Nat

Commands == {"help", "validate", "from-julian", "relation", "other"}

VARIABLES cmd, args, stdin, \* what the call is given
          todo,             \* the inputs not yet handled
          ok,               \* no input has failed so far
          out,              \* what was answered on stdout
          complaints,       \* what was complained about on stderr
          stdout,           \* whether anyone reads stdout
          exit              \* the exit code, once there is one

given == <<cmd, args, stdin>>
call_vars == <<cmd, args, stdin, todo, ok, out, complaints, stdout, exit>>

-----------------------------------------------------------------------------
accepts(command, l) == l \in (IF command = "from-julian" THEN Julian ELSE Edtf)

(* Without arguments, or with "-" alone, a command reads stdin. *)
from_stdin(a) == a \in {<<>>, <<Dash>>}

(* Mutant of skipped: an empty argument is passed over as well.            *)
skipped_always(a, l) == l = Blank
skipped(a, l) == l = Blank /\ from_stdin(a)

(* Mutant of still_ok: the last input decides.                             *)
still_ok_last(before, handled) == handled
still_ok(before, handled) == before /\ handled

code(success) == IF success THEN "SUCCESS" ELSE "FAILURE"

-----------------------------------------------------------------------------
(* What a call is given is a sequence of any length up to the bound.       *)
Calls(inputs) == UNION {[1..n -> inputs] : n \in 0..MaxInputs}

CallInit ==
  /\ cmd \in Commands
  /\ args \in Calls(Inputs)
  /\ stdin \in IF from_stdin(args) /\ cmd \in {"validate", "from-julian"}
               THEN Calls(Inputs \cup {Torn}) ELSE {<<>>}
  /\ todo = IF from_stdin(args) THEN stdin ELSE args
  /\ ok = TRUE /\ out = <<>> /\ complaints = <<>>
  /\ stdout \in {"read", "gone"} /\ exit = "none"

Running(commands) == exit = "none" /\ cmd \in commands
Looping == Running({"validate", "from-julian"})

(* Usage on stdout; on stderr for a command nobody knows.  A print to a    *)
(* stdout nobody reads panics, the loop's writeln gives an error.          *)
Help == /\ Running({"help"})
        /\ exit' = IF stdout = "read" THEN "SUCCESS" ELSE "PANIC"
        /\ UNCHANGED <<given, todo, ok, out, complaints, stdout>>

UnknownCommand == /\ Running({"other"})
                  /\ exit' = "FAILURE"
                  /\ UNCHANGED <<given, todo, ok, out, complaints, stdout>>

(* One turn of the loop.  An answer that cannot be written fails the run,  *)
(* without a complaint.                                                    *)
Skip == /\ Looping /\ todo # <<>> /\ skipped(args, Head(todo))
        /\ todo' = Tail(todo)
        /\ UNCHANGED <<given, ok, out, complaints, stdout, exit>>

Handle(l) == /\ Looping /\ todo # <<>> /\ Head(todo) = l /\ ~skipped(args, l) /\ l # Torn
             /\ todo' = Tail(todo)
             /\ UNCHANGED <<given, stdout, exit>>

Answer == \E l \in Inputs :
            /\ Handle(l) /\ accepts(cmd, l)
            /\ out' = IF stdout = "read" THEN Append(out, l) ELSE out
            /\ ok' = still_ok(ok, stdout = "read")
            /\ UNCHANGED complaints

Complain == \E l \in Inputs :
              /\ Handle(l) /\ ~accepts(cmd, l)
              /\ complaints' = Append(complaints, l)
              /\ ok' = still_ok(ok, FALSE)
              /\ UNCHANGED out

(* A line that cannot be read ends the run at once. *)
ReadFails == /\ Looping /\ todo # <<>> /\ Head(todo) = Torn
             /\ complaints' = Append(complaints, Torn)
             /\ exit' = "FAILURE"
             /\ UNCHANGED <<given, todo, ok, out, stdout>>

LoopEnds == /\ Looping /\ todo = <<>>
            /\ exit' = code(ok)
            /\ UNCHANGED <<given, todo, ok, out, complaints, stdout>>

(* relation: two arguments, never stdin; both are parsed, and complained   *)
(* about, before either failure ends the call.                             *)
rejected_of(a) == SelectSeq(a, LAMBDA l : ~accepts(cmd, l))

Relate ==
  /\ Running({"relation"})
  /\ \/ /\ Len(args) # 2
        /\ exit' = "FAILURE" /\ UNCHANGED <<out, complaints>>
     \/ /\ Len(args) = 2 /\ rejected_of(args) # <<>>
        /\ complaints' = rejected_of(args)
        /\ exit' = "FAILURE" /\ UNCHANGED out
     \/ /\ Len(args) = 2 /\ rejected_of(args) = <<>> /\ stdout = "read"
        /\ out' = args
        /\ exit' = "SUCCESS" /\ UNCHANGED complaints
     \/ /\ Len(args) = 2 /\ rejected_of(args) = <<>> /\ stdout = "gone"
        /\ exit' = "PANIC" /\ UNCHANGED <<out, complaints>>
  /\ UNCHANGED <<given, todo, ok, stdout>>

(* Whoever reads stdout goes away (`| head`). *)
ReaderLeaves == /\ exit = "none" /\ stdout = "read"
                /\ stdout' = "gone"
                /\ UNCHANGED <<given, todo, ok, out, complaints, exit>>

Exited == exit # "none" /\ UNCHANGED call_vars

CallNext == \/ Help \/ UnknownCommand \/ Relate
            \/ Skip \/ Answer \/ Complain \/ ReadFails \/ LoopEnds
            \/ ReaderLeaves \/ Exited

CallSpec == CallInit /\ [][CallNext]_call_vars

-----------------------------------------------------------------------------
(* The sequence t is made of what s has at these places, in their order.   *)
Selects(t, s, places) ==
  /\ Len(t) = Cardinality(places)
  /\ \A i \in places : t[Cardinality({j \in places : j <= i})] = s[i]

Looped == cmd \in {"validate", "from-julian"}
Requests == IF from_stdin(args) THEN stdin ELSE args

(* What a call that loops is asked about: every argument, or every line of *)
(* stdin that is not blank; and what it reaches, up to the first that      *)
(* cannot be read.                                                         *)
Asked == {i \in DOMAIN Requests : from_stdin(args) => Requests[i] # Blank}
ReachedPlaces == {i \in Asked : \A j \in 1..(i - 1) : Requests[j] # Torn}

(* "exit 0 only if every input is valid" (main.rs:79), and only then: a    *)
(* run succeeds if and only if everything it was asked about was answered, *)
(* wherever among the inputs a bad one stood and whenever the reader left. *)
ExitTellsAll ==
  exit # "none" /\ Looped =>
    /\ exit = "SUCCESS" <=> Selects(out, Requests, Asked)
    /\ exit # "PANIC"

(* One bad input stops no other: each is answered or complained about as   *)
(* it would be alone, in order, up to the end or to a line that cannot be  *)
(* read.  Who leaves early still misses no complaint.                      *)
OneByOne ==
  exit # "none" /\ Looped =>
    /\ stdout = "read" => Selects(out, Requests, {i \in ReachedPlaces : accepts(cmd, Requests[i])})
    /\ Selects(complaints, Requests, {i \in ReachedPlaces : ~accepts(cmd, Requests[i])})
=============================================================================
