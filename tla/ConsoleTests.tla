--------------------------- MODULE ConsoleTests ---------------------------
(***************************************************************************)
(* The console test programs of userprog/progtest.cc: ConsoleTest, which  *)
(* drives the raw Console with its own readAvail and writeDone            *)
(* semaphores, and SynchConsoleTest, which calls SynchGetChar and          *)
(* SynchPutChar of a SynchConsole.  Both echo what they read, writing a   *)
(* '<' before the first character of each line and a '>' before its      *)
(* '\n'.  One kernel thread, Main, runs the test chosen in Init.           *)
(*                                                                         *)
(* The device, its interrupts and the variables of SynchConsole are       *)
(* reused: a behaviour runs one test on a fresh console, so readAvail and *)
(* writeDone stand for the test's semaphores when it is ConsoleTest.      *)
(* prog is the test's place in its loop, ch its local ch, flag its local  *)
(* flag, and pending the characters the current iteration still writes.  *)
(***************************************************************************)
EXTENDS SynchConsole, SequencesExt

CONSTANTS
  Main,    \* the kernel thread that runs the test
  Tests    \* the tests a behaviour may run

ASSUME Threads = {Main} /\ Ops[Main] = {}
ASSUME Tests \subseteq {"ConsoleTest", "SynchConsoleTest"}

VARIABLES test, prog, ch, flag, pending

testVars == <<test, prog, ch, flag, pending>>
allVars == <<vars, testVars>>

\* The console is created, then "int flag = 0" and the loop.
TestInit ==
  /\ Init
  /\ test \in Tests
  /\ prog = "get" /\ ch = "none" /\ flag = 0 /\ pending = << >>

-----------------------------------------------------------------------------
\* Mutation of FlagAfter: flag is not reset after the '>'.
FlagNoReset(c, f) == IF c = "eof" THEN f ELSE 1

\* flag after the two tests of the loop body: set to 1 with the '<', and
\* back to 0 with the '>' of a '\n' (ch == 10).
FlagAfter(c, f) ==
  CASE c = "eof" -> f
    [] c = "nl"  -> 0
    [] OTHER     -> 1

\* Mutation of EchoChars: no "if (ch != EOF)" around the writes.
EchoCharsNoEof(c, f) ==
  (IF f = 0 THEN <<"lt">> ELSE << >>)
  \o (IF c = "nl" THEN <<"gt">> ELSE << >>) \o <<c>>

\* The characters one turn of the loop writes after reading c with flag f:
\* the '<' (flag == 0), the '>' (flag == 1 and a '\n'), then c itself;
\* nothing for EOF.
EchoChars(c, f) ==
  IF c = "eof" THEN << >>
  ELSE (IF f = 0 THEN <<"lt">> ELSE << >>)
       \o (IF c = "nl" THEN <<"gt">> ELSE << >>) \o <<c>>

\* SynchConsoleTest writes a '>' after echoing a 'q'.
QuitChars(c) ==
  IF test = "SynchConsoleTest" /\ c = "q" THEN <<"gt">> ELSE << >>

\* Mutation of Quits: SynchConsoleTest's 'q' test dropped.
QuitsNever(c) == test = "ConsoleTest" /\ c \in {"q", "eof"}

\* The return test at the end of the loop body: ConsoleTest returns on 'q'
\* or EOF, SynchConsoleTest on 'q' only.
Quits(c) ==
  IF test = "ConsoleTest" THEN c \in {"q", "eof"} ELSE c = "q"

\* The body of the loop after ch was read, up to its first PutChar.
Echo(c) ==
  /\ ch' = c
  /\ pending' = EchoChars(c, flag) \o QuitChars(c)
  /\ flag' = FlagAfter(c, flag)
  /\ prog' = "put"

-----------------------------------------------------------------------------
(***************************************************************************)
(* ConsoleTest: readAvail->P(); ch = console->GetChar(); then for each     *)
(* character written, console->PutChar(c); writeDone->P().                *)
(***************************************************************************)
ConsoleGet ==
  /\ test = "ConsoleTest" /\ prog = "get"
  /\ readAvail > 0
  /\ readAvail' = readAvail - 1
  /\ incoming' = 0
  /\ LET v == IF incoming = AtEnd THEN "eof" ELSE ToInt(Input[incoming])
     IN  /\ got' = IF incoming = AtEnd THEN got
                   ELSE Append(got, [t |-> Main, k |-> 0, pos |-> incoming,
                                     v |-> v, str |-> FALSE])
         /\ Echo(v)
  /\ UNCHANGED <<semPut, semGet, semPutString, semGetString, writeDone,
                 putBusy, nextIn, out, pc, loc, calls, aborted, test>>

\* Mutation of ConsolePut: no writeDone->P() after the '<'.
ConsolePutNoWaitLt ==
  /\ test = "ConsoleTest" /\ prog = "put" /\ pending # << >>
  /\ IF putBusy
     THEN aborted' = TRUE /\ UNCHANGED <<out, putBusy>>
     ELSE /\ out' = Append(out, [t |-> Main, k |-> 0, c |-> Head(pending),
                                 str |-> FALSE])
          /\ putBusy' = TRUE
          /\ UNCHANGED aborted
  /\ pending' = Tail(pending)
  /\ prog' = IF Head(pending) = "lt" THEN "put" ELSE "wd"
  /\ UNCHANGED <<semPut, semGet, semPutString, semGetString, writeDone,
                 readAvail, incoming, nextIn, got, pc, loc, calls, test, ch,
                 flag>>

\* console->PutChar(c), with the console's ASSERT(putBusy == FALSE).
ConsolePut ==
  /\ test = "ConsoleTest" /\ prog = "put" /\ pending # << >>
  /\ IF putBusy
     THEN aborted' = TRUE /\ UNCHANGED <<out, putBusy>>
     ELSE /\ out' = Append(out, [t |-> Main, k |-> 0, c |-> Head(pending),
                                 str |-> FALSE])
          /\ putBusy' = TRUE
          /\ UNCHANGED aborted
  /\ pending' = Tail(pending)
  /\ prog' = "wd"
  /\ UNCHANGED <<semPut, semGet, semPutString, semGetString, writeDone,
                 readAvail, incoming, nextIn, got, pc, loc, calls, test, ch,
                 flag>>

ConsoleWaitDone ==
  /\ test = "ConsoleTest" /\ prog = "wd"
  /\ writeDone > 0
  /\ writeDone' = writeDone - 1
  /\ prog' = "put"
  /\ UNCHANGED <<semPut, semGet, semPutString, semGetString, readAvail,
                 putBusy, incoming, nextIn, out, got, pc, loc, calls, aborted,
                 test, ch, flag, pending>>

-----------------------------------------------------------------------------
(***************************************************************************)
(* SynchConsoleTest: ch = SynchGetChar(), then SynchPutChar for each      *)
(* character written; the calls run the actions of SynchConsole on Main. *)
(***************************************************************************)
SynchTestGet ==
  /\ test = "SynchConsoleTest" /\ prog = "get" /\ pc[Main] = "idle"
  /\ Set(Main, [NoLocals EXCEPT !.op = "getchar"]) /\ Goto(Main, "gc_p")
  /\ prog' = "got"
  /\ UNCHANGED <<semPut, semGet, semPutString, semGetString, writeDone,
                 readAvail, putBusy, incoming, nextIn, out, got, calls,
                 aborted, test, ch, flag, pending>>

\* SynchGetChar has returned its value in loc.ch.
SynchTestGot ==
  /\ test = "SynchConsoleTest" /\ prog = "got" /\ pc[Main] = "idle"
  /\ Echo(loc[Main].ch)
  /\ UNCHANGED <<vars, test>>

SynchTestPut ==
  /\ test = "SynchConsoleTest" /\ prog = "put" /\ pc[Main] = "idle"
  /\ pending # << >>
  /\ Set(Main, [NoLocals EXCEPT !.op = "putchar", !.ch = Head(pending)])
  /\ Goto(Main, "pc_p")
  /\ pending' = Tail(pending)
  /\ UNCHANGED <<semPut, semGet, semPutString, semGetString, writeDone,
                 readAvail, putBusy, incoming, nextIn, out, got, calls,
                 aborted, test, prog, ch, flag>>

\* The actions of SynchConsole that SynchGetChar and SynchPutChar take.
SynchCall ==
  /\ test = "SynchConsoleTest"
  /\ \/ SynchPutCharP(Main) \/ ConsolePutChar(Main)
     \/ SynchPutCharWait(Main) \/ SynchPutCharV(Main)
     \/ SynchGetCharP(Main) \/ SynchGetCharWait(Main) \/ SynchGetCharRead(Main)
  /\ UNCHANGED testVars

-----------------------------------------------------------------------------
\* The end of the loop body, after its last write: return, or read again.
LoopEnd ==
  /\ prog = "put" /\ pending = << >> /\ pc[Main] = "idle"
  /\ prog' = IF Quits(ch) THEN "ret" ELSE "get"
  /\ UNCHANGED <<vars, test, ch, flag, pending>>

TestStep ==
  \/ ConsoleGet \/ ConsolePut \/ ConsoleWaitDone
  \/ SynchTestGet \/ SynchTestGot \/ SynchTestPut \/ SynchCall
  \/ LoopEnd

Device == (WriteDone \/ ReadAvail) /\ UNCHANGED testVars

\* The test has returned; the kernel goes on without the console.
Returned == prog = "ret"

TestNext ==
  \/ TestStep
  \/ Device
  \/ Returned /\ UNCHANGED allVars

\* Main runs whenever it is ready, and the console raises each interrupt a
\* fixed time after scheduling it.
TestSpec == TestInit /\ [][TestNext]_allVars
              /\ WF_allVars(TestStep)
              /\ WF_allVars(WriteDone /\ UNCHANGED testVars)
              /\ WF_allVars(ReadAvail /\ UNCHANGED testVars)

-----------------------------------------------------------------------------
Progs == {"get", "got", "put", "wd", "ret"}
Chars == {"x", "nl", "q", "lt", "gt"}

TestTypeOK ==
  /\ TypeOK
  /\ test \in Tests /\ prog \in Progs /\ flag \in {0, 1}
  /\ ch \in Chars \cup {"none", "eof"}
  /\ pending \in Seq(Chars)
  /\ \A i \in DOMAIN out : out[i].c \in Chars

Written == [i \in DOMAIN out |-> out[i].c]
IsBracket(c) == c \in {"lt", "gt"}
IsText(c) == ~IsBracket(c)
\* The bytes the test has read, EOF (and 0xFF read as EOF) left out.
ReadText == SelectSeq([i \in DOMAIN got |-> got[i].v], LAMBDA v : v # "eof")

(***************************************************************************)
(* The echo is framed: the output without its brackets is the input read  *)
(* so far, in order, and all of it once the loop is back at its head;     *)
(* brackets alternate '<', '>', starting with '<'; and every '\n' written *)
(* comes right after a '>'.  It is kept by the two flag tests of the      *)
(* loop body of either test.                                               *)
(***************************************************************************)
EchoFramed ==
  LET text == SelectSeq(Written, IsText)
      br   == SelectSeq(Written, IsBracket)
  IN  /\ IsPrefix(text, ReadText)
      /\ prog \in {"get", "ret"} => text = ReadText
      /\ \A i \in DOMAIN br : br[i] = IF i % 2 = 1 THEN "lt" ELSE "gt"
      /\ \A i \in DOMAIN Written :
           Written[i] = "nl" => i > 1 /\ Written[i - 1] = "gt"

(***************************************************************************)
(* The test returns: ConsoleTest at the first 'q' or EOF, SynchConsoleTest *)
(* at the first 'q' it reads.  Every PutChar is followed by the wait for   *)
(* its WriteDone, and every read by a ReadAvail, so the loop never blocks. *)
(***************************************************************************)
TestReturns == <>Returned
=============================================================================
