---------------------------- MODULE SynchConsole ----------------------------
(***************************************************************************)
(* userprog/synchconsole.cc and the console system calls of               *)
(* userprog/exception.cc (PutChar, PutString, PutInt, GetChar, GetString, *)
(* GetInt) with several user threads calling them at once.                 *)
(*                                                                         *)
(* semPut, semGet, semPutString and semGetString are Semaphores of value  *)
(* 1 used as locks: each is its holder, or NoThread.  writeDone and       *)
(* readAvail count the console's interrupts.  A thread switches only      *)
(* inside a Semaphore operation, so every step of a thread ends with one  *)
(* P or V.  A P on a taken lock or a zero count is a guard: the woken     *)
(* thread re-tests the value, exactly as Semaphore::P loops.              *)
(*                                                                         *)
(* The console device (machine/console.cc, not in the repository) is the  *)
(* environment: it takes one character at a time for output and raises   *)
(* WriteDone after it; it reads one character ahead of the readers and    *)
(* raises ReadAvail for it, and at the end of the input it raises         *)
(* ReadAvail with feof() true, once per reader, as the feof branch of     *)
(* SynchGetChar presumes.                                                  *)
(*                                                                         *)
(* Characters are abstracted to "x" (any ordinary byte), "nl", "nul",    *)
(* "q" (the byte progtest's echo loops stop at) and "ff" (the byte 0xFF); *)
(* a kernel string is its length.  A getchar call keeps the value it      *)
(* returned in loc.ch.                                                     *)
(***************************************************************************)
EXTENDS Integers, Sequences, FiniteSets

CONSTANTS
  Threads,        \* user threads (model values)
  NoThread,       \* holder of a free lock
  MaxStringSize,  \* MAX_STRING_SIZE (threads/system.h): kernel buffer bytes
  Input,          \* the bytes of the console's input file
  UserStrings,    \* lengths of the strings user programs pass to PutString
  GetSizes,       \* sizes user programs pass to GetString
  IntValues,      \* integers user programs pass to PutInt
  Ops,            \* thread -> the console calls its program makes
  MaxCalls        \* calls one thread makes

ASSUME NoThread \notin Threads /\ MaxStringSize >= 2
ASSUME Input \in Seq({"x", "nl", "ff", "q"}) /\ IntValues \subseteq Int
ASSUME Ops \in [Threads -> SUBSET {"putchar", "putstring", "putint",
                                   "getchar", "getstring", "getint"}]

\* incoming: 0 when the console holds no byte, i in 1..Len(Input) when it
\* holds the i-th, AtEnd when it has signalled the end of the input.
AtEnd == Len(Input) + 1

VARIABLES
  semPut, semGet, semPutString, semGetString,
  writeDone, readAvail,
  putBusy,     \* the console is writing a character (WriteDone pending)
  incoming,    \* see AtEnd
  nextIn,      \* position of the next input byte the console will read
  out,         \* characters written, in order: [t, k, c, str]
  got,         \* input bytes read by SynchGetChar, in order: [t, k, pos, v, str]
  pc, loc, calls,
  aborted      \* the console's ASSERT(putBusy == FALSE) failed

vars == <<semPut, semGet, semPutString, semGetString, writeDone, readAvail,
          putBusy, incoming, nextIn, out, got, pc, loc, calls, aborted>>

NoLocals == [op |-> "none", k |-> 0, len |-> 0, i |-> 0, n |-> 0,
             ch |-> "none", caller |-> "sys", widx |-> -1]

Init ==
  /\ semPut = NoThread /\ semGet = NoThread
  /\ semPutString = NoThread /\ semGetString = NoThread
  /\ writeDone = 0 /\ readAvail = 0
  /\ putBusy = FALSE /\ incoming = 0 /\ nextIn = 1
  /\ out = << >> /\ got = << >>
  /\ pc = [t \in Threads |-> "idle"]
  /\ loc = [t \in Threads |-> NoLocals]
  /\ calls = [t \in Threads |-> 0]
  /\ aborted = FALSE

\* (int) of a char: the byte 0xFF sign-extends to -1, the value of EOF.
ToInt(c) == IF c = "ff" THEN "eof" ELSE c

\* copyStringFromMachine(from, to, size): copy bytes until the NUL or size
\* bytes, then to[i] = '\0'.  Returns the kernel string's length, which is
\* also the index of the NUL written.
CopyStringFromMachine(userLen, size) == IF userLen < size THEN userLen ELSE size

RECURSIVE Digits(_)
\* The number of decimal digits of n >= 0; "%d" writes at least one.
Digits(n) == IF n < 10 THEN 1 ELSE 1 + Digits(n \div 10)

\* The length of "%d" of n: a '-' for a negative n, then the digits of |n|.
DecimalLength(n) == IF n < 0 THEN 1 + Digits(-n) ELSE Digits(n)

\* SynchPutInt(n): snprintf(buf, MAX_STRING_SIZE, "%d", n) keeps at most
\* MAX_STRING_SIZE - 1 characters and writes the '\0' after them; buf then
\* goes to SynchPutString.
SynchPutInt(l, n) ==
  LET len == IF DecimalLength(n) < MaxStringSize - 1 THEN DecimalLength(n)
             ELSE MaxStringSize - 1
  IN  [l EXCEPT !.op = "putint", !.len = len, !.widx = len]

\* SynchGetInt(n): SynchGetString(buf, MAX_STRING_SIZE); the value sscanf
\* parses goes to user memory, which the model leaves out.
SynchGetInt(l) == [l EXCEPT !.op = "getint", !.n = MaxStringSize]

\* The character SynchPutString passes to SynchPutChar at position i: the
\* loop stops at the NUL or at MAX_STRING_SIZE - 1, then a '\0' is written.
PutStringChar(l) ==
  IF l.i < l.len /\ l.i < MaxStringSize - 1 THEN "x" ELSE "nul"

Set(t, l) == loc' = [loc EXCEPT ![t] = l]
Goto(t, p) == pc' = [pc EXCEPT ![t] = p]

-----------------------------------------------------------------------------
(***************************************************************************)
(* ExceptionHandler: a console system call.  PutChar passes the register  *)
(* as a char; PutString copies the user string into a new char            *)
(* [MAX_STRING_SIZE]; PutInt and GetInt go through SynchPutInt and       *)
(* SynchGetInt; GetString passes the user's size.                          *)
(***************************************************************************)
Syscall(t) ==
  /\ pc[t] = "idle"
  /\ calls[t] < MaxCalls
  /\ calls' = [calls EXCEPT ![t] = @ + 1]
  /\ LET l == [NoLocals EXCEPT !.k = calls[t] + 1] IN
     \E op \in Ops[t] :
       \/ /\ op = "putchar"
          /\ Set(t, [l EXCEPT !.op = op, !.ch = "x"]) /\ Goto(t, "pc_p")
       \/ /\ op = "putstring"
          /\ \E u \in UserStrings :
               LET len == CopyStringFromMachine(u, MaxStringSize)
               IN  Set(t, [l EXCEPT !.op = op, !.len = len, !.widx = len])
          /\ Goto(t, "ps_p")
       \/ /\ op = "putint"
          /\ \E n \in IntValues : Set(t, SynchPutInt(l, n))
          /\ Goto(t, "ps_p")
       \/ /\ op = "getchar"
          /\ Set(t, [l EXCEPT !.op = op]) /\ Goto(t, "gc_p")
       \/ /\ op = "getstring"
          /\ \E n \in GetSizes : Set(t, [l EXCEPT !.op = op, !.n = n])
          /\ Goto(t, "gs_p")
       \/ /\ op = "getint"
          /\ Set(t, SynchGetInt(l)) /\ Goto(t, "gs_p")
  /\ UNCHANGED <<semPut, semGet, semPutString, semGetString, writeDone,
                 readAvail, putBusy, incoming, nextIn, out, got, aborted>>

-----------------------------------------------------------------------------
(***************************************************************************)
(* SynchPutString: semPutString->P(), then SynchPutChar for each           *)
(* character and the final '\0', then semPutString->V().                  *)
(***************************************************************************)
\* Mutation of SynchPutStringP: semPutString not taken.
SynchPutStringNoLock(t) ==
  /\ pc[t] = "ps_p"
  /\ Set(t, [loc[t] EXCEPT !.i = 0, !.caller = "ps",
                           !.ch = PutStringChar([loc[t] EXCEPT !.i = 0])])
  /\ Goto(t, "pc_p")
  /\ UNCHANGED <<semPut, semGet, semPutString, semGetString, writeDone,
                 readAvail, putBusy, incoming, nextIn, out, got, calls, aborted>>

SynchPutStringP(t) ==
  /\ pc[t] = "ps_p"
  /\ semPutString = NoThread
  /\ semPutString' = t
  /\ Set(t, [loc[t] EXCEPT !.i = 0, !.caller = "ps",
                           !.ch = PutStringChar([loc[t] EXCEPT !.i = 0])])
  /\ Goto(t, "pc_p")
  /\ UNCHANGED <<semPut, semGet, semGetString, writeDone, readAvail, putBusy,
                 incoming, nextIn, out, got, calls, aborted>>

SynchPutStringV(t) ==
  /\ pc[t] = "ps_v"
  /\ semPutString' = NoThread
  /\ Goto(t, "idle")
  /\ UNCHANGED <<semPut, semGet, semGetString, writeDone, readAvail, putBusy,
                 incoming, nextIn, out, got, loc, calls, aborted>>

(***************************************************************************)
(* SynchPutChar: semPut->P(); console->PutChar(ch); writeDone->P();        *)
(* semPut->V().                                                            *)
(***************************************************************************)
SynchPutCharP(t) ==
  /\ pc[t] = "pc_p"
  /\ semPut = NoThread
  /\ semPut' = t
  /\ Goto(t, "pc_put")
  /\ UNCHANGED <<semGet, semPutString, semGetString, writeDone, readAvail,
                 putBusy, incoming, nextIn, out, got, loc, calls, aborted>>

\* console->PutChar(ch), then writeDone->P() finds the count zero.
ConsolePutChar(t) ==
  /\ pc[t] = "pc_put"
  /\ IF putBusy
     THEN aborted' = TRUE /\ UNCHANGED <<out, putBusy>>
     ELSE /\ out' = Append(out, [t |-> t, k |-> loc[t].k, c |-> loc[t].ch,
                                 str |-> loc[t].caller = "ps"])
          /\ putBusy' = TRUE
          /\ UNCHANGED aborted
  /\ Goto(t, "pc_w")
  /\ UNCHANGED <<semPut, semGet, semPutString, semGetString, writeDone,
                 readAvail, incoming, nextIn, got, loc, calls>>

\* Mutation of SynchPutCharWait: semPut->V() before writeDone->P().
SynchPutCharEarlyV(t) ==
  /\ pc[t] = "pc_w"
  /\ semPut' = NoThread
  /\ Goto(t, "pc_v")
  /\ UNCHANGED <<semGet, semPutString, semGetString, writeDone, readAvail,
                 putBusy, incoming, nextIn, out, got, loc, calls, aborted>>

SynchPutCharWait(t) ==
  /\ pc[t] = "pc_w"
  /\ writeDone > 0
  /\ writeDone' = writeDone - 1
  /\ Goto(t, "pc_v")
  /\ UNCHANGED <<semPut, semGet, semPutString, semGetString, readAvail,
                 putBusy, incoming, nextIn, out, got, loc, calls, aborted>>

\* semPut->V() and the return: to the system call, or to the loop of
\* SynchPutString (i++, the loop test, the next character or the end).
SynchPutCharV(t) ==
  /\ pc[t] = "pc_v"
  /\ semPut' = NoThread
  /\ LET l == [loc[t] EXCEPT !.i = @ + 1] IN
     IF loc[t].caller = "sys" THEN Goto(t, "idle") /\ UNCHANGED loc
     ELSE IF loc[t].ch = "nul" THEN Goto(t, "ps_v") /\ UNCHANGED loc
     ELSE Set(t, [l EXCEPT !.ch = PutStringChar(l)]) /\ Goto(t, "pc_p")
  /\ UNCHANGED <<semGet, semPutString, semGetString, writeDone, readAvail,
                 putBusy, incoming, nextIn, out, got, calls, aborted>>

-----------------------------------------------------------------------------
(***************************************************************************)
(* SynchGetString: semGetString->P(); for i < n-1: s[i] = SynchGetChar(), *)
(* stopping at EOF, '\n' or '\0'; s[i] = '\0'; semGetString->V().  widx   *)
(* is the index of the kernel buffer last written.                         *)
(***************************************************************************)
\* Mutation of SynchGetStringP: semGetString not taken.
SynchGetStringNoLock(t) ==
  /\ pc[t] = "gs_p"
  /\ IF 0 < loc[t].n - 1
     THEN Set(t, [loc[t] EXCEPT !.i = 0, !.caller = "gs"]) /\ Goto(t, "gc_p")
     ELSE Set(t, [loc[t] EXCEPT !.i = 0, !.widx = 0]) /\ Goto(t, "gs_v")
  /\ UNCHANGED <<semPut, semGet, semPutString, semGetString, writeDone,
                 readAvail, putBusy, incoming, nextIn, out, got, calls, aborted>>

SynchGetStringP(t) ==
  /\ pc[t] = "gs_p"
  /\ semGetString = NoThread
  /\ semGetString' = t
  /\ IF 0 < loc[t].n - 1
     THEN Set(t, [loc[t] EXCEPT !.i = 0, !.caller = "gs"]) /\ Goto(t, "gc_p")
     ELSE Set(t, [loc[t] EXCEPT !.i = 0, !.widx = 0]) /\ Goto(t, "gs_v")
  /\ UNCHANGED <<semPut, semGet, semPutString, writeDone, readAvail, putBusy,
                 incoming, nextIn, out, got, calls, aborted>>

SynchGetStringV(t) ==
  /\ pc[t] = "gs_v"
  /\ semGetString' = NoThread
  /\ Goto(t, "idle")
  /\ UNCHANGED <<semPut, semGet, semPutString, writeDone, readAvail, putBusy,
                 incoming, nextIn, out, got, loc, calls, aborted>>

\* Mutation of GetStringNext: the loop does not stop at a '\n'.
GetStringNextPastNewline(t, l, v) ==
  LET j == l.i + 1 IN
  IF v \in {"eof", "nul"}
  THEN Set(t, [l EXCEPT !.widx = l.i]) /\ Goto(t, "gs_v")
  ELSE IF j < l.n - 1
  THEN Set(t, [l EXCEPT !.i = j, !.widx = l.i]) /\ Goto(t, "gc_p")
  ELSE Set(t, [l EXCEPT !.i = j, !.widx = j]) /\ Goto(t, "gs_v")

\* The loop body of SynchGetString after SynchGetChar returned v (a char
\* stored in s[i], so 0xFF compares equal to EOF).
GetStringNext(t, l, v) ==
  LET j == l.i + 1 IN
  IF v \in {"eof", "nl", "nul"}
  THEN Set(t, [l EXCEPT !.widx = l.i]) /\ Goto(t, "gs_v")
  ELSE IF j < l.n - 1
  THEN Set(t, [l EXCEPT !.i = j, !.widx = l.i]) /\ Goto(t, "gc_p")
  ELSE Set(t, [l EXCEPT !.i = j, !.widx = j]) /\ Goto(t, "gs_v")

(***************************************************************************)
(* SynchGetChar: semGet->P(); readAvail->P(); EOF if console->feof(),     *)
(* else console->GetChar(); semGet->V().                                   *)
(***************************************************************************)
SynchGetCharP(t) ==
  /\ pc[t] = "gc_p"
  /\ semGet = NoThread
  /\ semGet' = t
  /\ Goto(t, "gc_w")
  /\ UNCHANGED <<semPut, semPutString, semGetString, writeDone, readAvail,
                 putBusy, incoming, nextIn, out, got, loc, calls, aborted>>

\* Mutation of SynchGetCharWait: readAvail->P() taken for granted.
SynchGetCharNoWait(t) ==
  /\ pc[t] = "gc_w"
  /\ readAvail' = readAvail - 1
  /\ Goto(t, "gc_read")
  /\ UNCHANGED <<semPut, semGet, semPutString, semGetString, writeDone,
                 putBusy, incoming, nextIn, out, got, loc, calls, aborted>>

SynchGetCharWait(t) ==
  /\ pc[t] = "gc_w"
  /\ readAvail > 0
  /\ readAvail' = readAvail - 1
  /\ Goto(t, "gc_read")
  /\ UNCHANGED <<semPut, semGet, semPutString, semGetString, writeDone,
                 putBusy, incoming, nextIn, out, got, loc, calls, aborted>>

\* console->feof() or console->GetChar(), then the return: to the system
\* call, or to the loop of SynchGetString.
GetCharResult(t) ==
  /\ incoming' = 0
  /\ LET v == IF incoming = AtEnd THEN "eof" ELSE ToInt(Input[incoming])
     IN  /\ got' = IF incoming = AtEnd THEN got
                   ELSE Append(got, [t |-> t, k |-> loc[t].k, pos |-> incoming,
                                     v |-> v, str |-> loc[t].caller = "gs"])
         /\ IF loc[t].caller = "sys"
            THEN Goto(t, "idle") /\ Set(t, [loc[t] EXCEPT !.ch = v])
            ELSE GetStringNext(t, loc[t], v)
  /\ UNCHANGED <<semPut, semPutString, semGetString, writeDone, readAvail,
                 putBusy, nextIn, out, calls, aborted>>

\* Mutation of SynchGetCharRead: the EOF branch returns without semGet->V().
SynchGetCharEofKeepsLock(t) ==
  /\ pc[t] = "gc_read"
  /\ semGet' = IF incoming = AtEnd THEN semGet ELSE NoThread
  /\ GetCharResult(t)

SynchGetCharRead(t) ==
  /\ pc[t] = "gc_read"
  /\ semGet' = NoThread
  /\ GetCharResult(t)

-----------------------------------------------------------------------------
(***************************************************************************)
(* The console device.                                                     *)
(***************************************************************************)
WriteDone ==
  /\ putBusy
  /\ putBusy' = FALSE
  /\ writeDone' = writeDone + 1
  /\ UNCHANGED <<semPut, semGet, semPutString, semGetString, readAvail,
                 incoming, nextIn, out, got, pc, loc, calls, aborted>>

ReadAvail ==
  /\ incoming = 0
  /\ IF nextIn <= Len(Input)
     THEN incoming' = nextIn /\ nextIn' = nextIn + 1
     ELSE incoming' = AtEnd /\ UNCHANGED nextIn
  /\ readAvail' = readAvail + 1
  /\ UNCHANGED <<semPut, semGet, semPutString, semGetString, writeDone,
                 putBusy, out, got, pc, loc, calls, aborted>>

Step(t) ==
  \/ Syscall(t)
  \/ SynchPutStringP(t) \/ SynchPutStringV(t)
  \/ SynchPutCharP(t) \/ ConsolePutChar(t) \/ SynchPutCharWait(t) \/ SynchPutCharV(t)
  \/ SynchGetStringP(t) \/ SynchGetStringV(t)
  \/ SynchGetCharP(t) \/ SynchGetCharWait(t) \/ SynchGetCharRead(t)

\* Every program has made its calls and returned.
Finished == \A t \in Threads : pc[t] = "idle" /\ calls[t] = MaxCalls

Next ==
  \/ \E t \in Threads : Step(t)
  \/ WriteDone
  \/ ReadAvail
  \/ Finished /\ UNCHANGED vars

\* The scheduler runs every ready thread, and the console's interrupts
\* come a fixed time after they are scheduled.
Spec == Init /\ [][Next]_vars
          /\ \A t \in Threads : WF_vars(Step(t))
          /\ WF_vars(WriteDone) /\ WF_vars(ReadAvail)

-----------------------------------------------------------------------------
(***************************************************************************)
(* The refinement mapping to AbstractConsole.  A call in progress is the  *)
(* characters its thread still writes, from how many it has written (the  *)
(* index i of SynchPutString's loop, one more once ConsolePutChar is      *)
(* done), or the bytes it may still read (n - 1 less the index i of       *)
(* SynchGetString's loop).  writer and reader are the string calls that   *)
(* have written or read their first character; next is the position of   *)
(* the next input byte, one past those read.                              *)
(***************************************************************************)
PutOps == {"putchar", "putstring", "putint"}

\* The characters a write call writes: SynchPutString's up to its '\0'.
PutText(l) ==
  IF l.op = "putchar" THEN <<"x">>
  ELSE [i \in 1..CopyStringFromMachine(l.len, MaxStringSize - 1) |-> "x"] \o <<"nul">>

WrittenOf(t) ==
  LET d == IF pc[t] \in {"pc_w", "pc_v"} THEN 1 ELSE 0
  IN  CASE pc[t] = "ps_p" -> 0
        [] pc[t] = "ps_v" -> Len(PutText(loc[t]))
        [] OTHER          -> IF loc[t].caller = "sys" THEN d ELSE loc[t].i + d

\* n - 1 bytes for a string read, none when n <= 1.
ReadBudget(l) == IF l.op = "getchar" THEN 1 ELSE IF l.n > 1 THEN l.n - 1 ELSE 0

LeftOf(t) ==
  CASE pc[t] = "gs_v"             -> 0
    [] loc[t].caller = "gs"       -> ReadBudget(loc[t]) - loc[t].i
    [] OTHER                      -> ReadBudget(loc[t])

ReqOf(t) ==
  LET l == loc[t]
      text == PutText(l)
  IN  IF pc[t] = "idle"
      THEN [op |-> "none", k |-> 0, str |-> FALSE, todo |-> << >>, left |-> 0]
      ELSE IF l.op \in PutOps
      THEN [op |-> "put", k |-> l.k, str |-> l.op # "putchar",
            todo |-> SubSeq(text, WrittenOf(t) + 1, Len(text)), left |-> 0]
      ELSE [op |-> "get", k |-> l.k, str |-> l.op # "getchar",
            todo |-> << >>, left |-> LeftOf(t)]

StringWriting(t) ==
  pc[t] # "idle" /\ loc[t].op \in {"putstring", "putint"} /\ WrittenOf(t) > 0

StringReading(t) ==
  pc[t] # "idle" /\ loc[t].op \in {"getstring", "getint"}
  /\ ReadBudget(loc[t]) > LeftOf(t)

Holder(P(_)) == IF \E t \in Threads : P(t) THEN CHOOSE t \in Threads : P(t) ELSE NoThread

AC == INSTANCE AbstractConsole WITH
        req <- [t \in Threads |-> ReqOf(t)],
        writer <- Holder(StringWriting),
        reader <- Holder(StringReading),
        next <- Len(got) + 1

(***************************************************************************)
(* SynchConsole implements AbstractConsole: every step of the semaphores, *)
(* the console's interrupts and the loops of SynchPutString and           *)
(* SynchGetString is a step of the abstract console or leaves its state   *)
(* alone.  So each input byte goes to one caller, in order, EOF comes     *)
(* only at the end of the input, a string call writes or reads without   *)
(* another string call's characters in between and stops where puts and  *)
(* fgets stop, and every call returns.                                     *)
(***************************************************************************)
AbstractConsoleSpec == AC!Spec

-----------------------------------------------------------------------------
Pcs == {"idle", "ps_p", "ps_v", "pc_p", "pc_put", "pc_w", "pc_v",
        "gs_p", "gs_v", "gc_p", "gc_w", "gc_read"}

SameCall(a, b) == a.t = b.t /\ a.k = b.k

TypeOK ==
  /\ \A s \in {semPut, semGet, semPutString, semGetString} :
       s \in Threads \cup {NoThread}
  /\ writeDone \in 0..1 /\ readAvail \in 0..1
  /\ putBusy \in BOOLEAN /\ incoming \in 0..AtEnd /\ nextIn \in 1..AtEnd
  /\ pc \in [Threads -> Pcs]
  /\ calls \in [Threads -> 0..MaxCalls]

(***************************************************************************)
(* The console is never asked to write while a character is still being  *)
(* written (its ASSERT(putBusy == FALSE)): SynchPutChar keeps semPut      *)
(* until writeDone->P() has seen the WriteDone of its own character, for  *)
(* PutChar, PutString and PutInt callers alike.                           *)
(***************************************************************************)
PutNeverBusy == ~aborted

(***************************************************************************)
(* Strings are written whole: between two characters of one PutString or *)
(* PutInt call (its final '\0' included) the output holds no character of *)
(* another string call.  semPutString is held around the whole loop of    *)
(* SynchPutString, while semPut is released after every character.       *)
(***************************************************************************)
StringsWhole ==
  \A i, j \in DOMAIN out :
    i < j /\ out[i].str /\ SameCall(out[i], out[j]) =>
      \A m \in i..j : out[m].str => SameCall(out[m], out[i])

(***************************************************************************)
(* Lines are read whole: between two input bytes read by one GetString or  *)
(* GetInt call no other string call reads a byte; semGetString is held    *)
(* around the loop of SynchGetString.                                      *)
(***************************************************************************)
LinesWhole ==
  \A i, j \in DOMAIN got :
    i < j /\ got[i].str /\ SameCall(got[i], got[j]) =>
      \A m \in i..j : got[m].str => SameCall(got[m], got[i])

(***************************************************************************)
(* Every console call returns and every program finishes: no thread       *)
(* waits forever on semPut, semGet, the string locks, writeDone or         *)
(* readAvail.  SynchPutString takes semPut while holding semPutString and *)
(* nothing takes them in the other order; every return path of           *)
(* SynchGetChar, its EOF branch included, releases semGet.                 *)
(***************************************************************************)
Termination == <>Finished

(***************************************************************************)
(* The kernel buffers of the console calls (new char[MAX_STRING_SIZE] in  *)
(* exception.cc) are written only within their bounds: by                  *)
(* copyStringFromMachine for PutString, and by SynchGetString for          *)
(* GetString, whose size comes from the user's register.                   *)
(***************************************************************************)
KernelBufferInBounds == \A t \in Threads : loc[t].widx < MaxStringSize

(***************************************************************************)
(* A byte read from the input is returned as a character, never as EOF:   *)
(* synchconsole.h documents SynchGetChar as getchar(3S) and SynchGetString *)
(* as fgets(3S), which tell the byte 0xFF from the end of the input.       *)
(***************************************************************************)
EofOnlyAtEnd == \A i \in DOMAIN got : got[i].v # "eof"

=============================================================================
