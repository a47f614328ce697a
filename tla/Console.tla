-------------------------------- MODULE Console --------------------------------
(***************************************************************************)
(* user/console.c with the libc calls it makes (fork, fork_wait, exec,     *)
(* waitp, exit), on the kernel of module Kernel: the first process reads   *)
(* lines, forks a child for each command, which executes the program       *)
(* named, and waits for it, or does not when the line says "fork".         *)
(*                                                                         *)
(* As in DiningPhilosophers the pc of a context is a label, a step goes    *)
(* from one label to the next one, and the timer may strike between two.   *)
(* A line is a sequence of words.  The buffers input and args are on the   *)
(* one stack that the console and its children share, so a child parses    *)
(* what is there when it gets to run.  What else parent and child write    *)
(* over each other on that stack is not modelled; a program is one step    *)
(* that exits.                                                             *)
(***************************************************************************)
EXTENDS Kernel, Sequences

CONSTANTS
  Programs,  \* progs[], each standing for its own entry point
  Lines,     \* what the user types
  KeepRoom   \* bound: a line is typed only while a pid is free

(* Where a process is in console.c, by its next system call or wait.       *)
Labels == {"prompt", "gets", "handle_cmd", "forked", "fork_waited", "waitp", "asked"}

ASSUME ConsoleAssumption ==
  /\ Programs \subseteq Code /\ Labels \subseteq Code
  /\ Programs \cap Labels = {}
  /\ Console = "prompt"
  /\ Lines \subseteq Seq(STRING)
  /\ KeepRoom \in BOOLEAN

VARIABLES
  input,   \* main_console's input
  pid,     \* cmd_fork's pid in the console, 0 outside of it
  forked   \* a "fork" command has been given

shell == <<input, pid, forked>>
cvars == <<vars, shell>>

(* main_console's args, which parse_cmd fills from input.                  *)
args == IF input = <<>> THEN <<>> ELSE Tail(input)

At(label) == frame.pc = label

(* The machine as the program leaves it for label, before a call.          *)
Onto(label) == [Now EXCEPT !.frame.pc = label]

(* What load finds for the first of words; parse_cmd leaves prog as it is, *)
(* uninitialised, when there is none.                                      *)
Loaded(words) ==
  IF words = <<>> THEN Programs \cup {Null}
  ELSE {IF Head(words) \in Programs THEN Head(words) ELSE Null}

ConsoleInit ==
  /\ Init
  /\ input = <<>>
  /\ pid = 0
  /\ forked = FALSE

-----------------------------------------------------------------------------
(* main_console                                                            *)

Prompt ==
  /\ At("prompt")
  /\ input' = <<>>
  /\ Becomes(Onto("gets"))
  /\ UNCHANGED <<pid, forked>>

Gets ==
  /\ At("gets")
  /\ KeepRoom => FreePids(Now) # {}
  /\ \E typed \in Lines :
       /\ input' = typed
       /\ Becomes(Onto(IF typed = <<>> THEN "prompt" ELSE "handle_cmd"))
  /\ UNCHANGED <<pid, forked>>

UnknownCommand ==
  /\ At("handle_cmd")
  /\ Head(input) \notin Programs \cup {"fork", "shutdown"}
  /\ Becomes(Onto("prompt"))
  /\ UNCHANGED shell

Shutdown ==
  /\ At("handle_cmd") /\ Head(input) = "shutdown"
  /\ Becomes(SysExit(Now, 0))
  /\ UNCHANGED shell

-----------------------------------------------------------------------------
(* cmd_fork                                                                *)

ForkForeground ==
  /\ At("handle_cmd") /\ Head(input) \in Programs
  /\ Becomes(SysFork(Onto("forked")))
  /\ UNCHANGED shell

ForkBackground ==
  /\ At("handle_cmd") /\ Head(input) = "fork"
  /\ Becomes(SysForkWait(Onto("fork_waited")))
  /\ forked' = TRUE
  /\ UNCHANGED <<input, pid>>

(* The child.  Behind exec lies the parent's code.                         *)
ExecForeground ==
  /\ At("forked") /\ frame.r0 = 0
  /\ \E addr \in Loaded(input) : Becomes(SysExec(Onto("waitp"), addr, TRUE, 0))
  /\ UNCHANGED shell

(* A variant with a fault, to test the properties: exec of a program that  *)
(* is not there returns.                                                   *)
ExecBackgroundReturning ==
  /\ At("fork_waited") /\ frame.r0 = 0
  /\ \E addr \in Loaded(args) :
       Becomes(IF addr = Null THEN Returned(Onto("prompt"), -1)
                              ELSE SysExec(Now, addr, FALSE, 0))
  /\ UNCHANGED shell

ExecBackground ==
  /\ At("fork_waited") /\ frame.r0 = 0
  /\ \E addr \in Loaded(args) : Becomes(SysExec(Onto("prompt"), addr, FALSE, 0))
  /\ UNCHANGED shell

(* The parent.                                                             *)
KeepPid ==
  /\ At("forked") /\ frame.r0 # 0
  /\ pid' = frame.r0
  /\ Becomes(Onto("waitp"))
  /\ UNCHANGED <<input, forked>>

LeaveRunning ==
  /\ At("fork_waited") /\ frame.r0 # 0
  /\ Becomes(Onto("prompt"))
  /\ UNCHANGED shell

(* waitp asks, and yields for as long as the answer is -1.                 *)
AskForResult ==
  /\ At("waitp") /\ pid \in Pid
  /\ Becomes(Returned(SysWait(Onto("asked"), current, pid),
                      WaitResult(Now, current, pid)))
  /\ UNCHANGED shell

(* After a fork that failed: the memory in front of the table may look     *)
(* like a process to wait for, or not.                                     *)
AskForNobody ==
  /\ At("waitp") /\ pid = -1
  /\ \E r \in {-1, -2} : Becomes(Returned(Onto("asked"), r))
  /\ UNCHANGED shell

AskAgain ==
  /\ At("asked") /\ frame.r0 = -1
  /\ Becomes(SysYield(Onto("waitp")))
  /\ UNCHANGED shell

(* Faulty variant: waitp without its loop.                                 *)
AnsweredAtOnce ==
  /\ At("asked")
  /\ pid' = 0
  /\ Becomes(Onto("prompt"))
  /\ UNCHANGED <<input, forked>>

Answered ==
  /\ At("asked") /\ frame.r0 # -1
  /\ pid' = 0
  /\ Becomes(Onto("prompt"))
  /\ UNCHANGED <<input, forked>>

-----------------------------------------------------------------------------
(* A program that was executed runs to its end.                            *)
Finish ==
  /\ frame.pc \in Programs
  /\ \E x \in Results : Becomes(SysExit(Now, x))
  /\ UNCHANGED shell

Program ==
  /\ Running
  /\ \/ Prompt \/ UnknownCommand \/ Shutdown
     \/ ForkForeground \/ ForkBackground \/ ExecForeground \/ ExecBackground
     \/ KeepPid \/ LeaveRunning \/ AskForResult \/ AskForNobody \/ AskAgain \/ Answered
     \/ Finish

ConsoleNext == Program \/ Gets \/ (Tick /\ UNCHANGED shell)

ConsoleSpec == ConsoleInit /\ [][ConsoleNext]_cvars

(* Who has a step to take and gets the processor again and again takes     *)
(* steps again and again (see DinnerFairness); the user need not type.     *)
ConsoleFairness ==
  \A p \in Pid :
    []<>(Running /\ current = p /\ ~At("gets"))
      => []<><<Program /\ current = p>>_cvars

FairConsoleSpec == ConsoleSpec /\ WF_cvars(Tick /\ UNCHANGED shell) /\ ConsoleFairness

-----------------------------------------------------------------------------
(* What the console promises                                               *)

Children == ActivePids(Now) \ {1}

(* Of the console's code a child only ever runs the part that executes its *)
(* program: a command with no program ends it, and does not leave a second *)
(* console behind exec (console.c:90-101, system_calls.c:115-136).         *)
OneConsole ==
  \A p \in Children : UserCtx(p).pc \in {"forked", "fork_waited"} \cup Programs

(* Until the first "fork", no program runs but the one typed last, and the *)
(* console is back at the prompt only when it has ended (console.c:82-116, *)
(* libc.c:373-385).                                                        *)
ForegroundFirst ==
  ~forked =>
    /\ \A p \in Children : UserCtx(p).pc \in {"forked"} \cup {input[i] : i \in DOMAIN input}
    /\ Active(Now, 1) /\ UserCtx(1).pc \in {"prompt", "gets", "handle_cmd"} => Children = {}

(* The buffers still hold the command when the child it was forked for     *)
(* comes to parse them (console.c:90-96, 130-141).                         *)
BuffersKept ==
  \A p \in Children :
    UserCtx(p).pc \in {"forked", "fork_waited"}
      => /\ input # <<>>
         /\ UserCtx(p).pc = "fork_waited" <=> Head(input) = "fork"

(* The wait for a program in the foreground is refused only when it has    *)
(* ended already ("-2 is error", libc.c:368; processes.c:194-231).         *)
WaitsAccepted ==
  At("asked") /\ frame.r0 = -2 /\ pid \in Pid => ~Active(Now, pid)

(* After every command the console asks for the next one, or has ended     *)
(* (console.c:129-149).                                                    *)
PromptComesBack ==
  (Active(Now, 1) /\ UserCtx(1).pc # "gets") ~> (UserCtx(1).pc = "gets" \/ ~Active(Now, 1))
=============================================================================
