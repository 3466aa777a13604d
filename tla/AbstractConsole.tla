--------------------------- MODULE AbstractConsole --------------------------
(***************************************************************************)
(* What SynchConsole promises its callers (synchconsole.h: putchar, puts,  *)
(* getchar and fgets of Unix), with no semaphores and no device: each      *)
(* character is written or read in one step; a string write (PutString,    *)
(* PutInt) writes its kernel string, at most MAX_STRING_SIZE - 1          *)
(* characters, then its '\0', and no other string write's character comes *)
(* between; a string read (GetString, GetInt) of size n takes at most      *)
(* n - 1 bytes, stops after an EOF, a '\n' or a '\0', and no other string *)
(* read takes a byte between; the bytes of the input are read once each,  *)
(* in order, and EOF is returned only once all of them are read.  Every   *)
(* call returns.                                                           *)
(*                                                                         *)
(* req[t] is the call thread t is making: the characters it still writes, *)
(* or the number of bytes it may still read; writer and reader are the    *)
(* string calls that have begun and not returned.                         *)
(***************************************************************************)
EXTENDS Integers, Sequences

CONSTANTS Threads, NoThread, MaxStringSize, Input, GetSizes, Ops, MaxCalls

VARIABLES out, got, calls, req, writer, reader, next

avars == <<out, got, calls, req, writer, reader, next>>

Idle == [op |-> "none", k |-> 0, str |-> FALSE, todo |-> << >>, left |-> 0]

\* The sizes a string read is made with: the user's, or GetInt's buffer.
ReadSizes == GetSizes \cup {MaxStringSize}

Xs(n) == [i \in 1..n |-> "x"]

Init ==
  /\ out = << >> /\ got = << >> /\ calls = [t \in Threads |-> 0]
  /\ req = [t \in Threads |-> Idle]
  /\ writer = NoThread /\ reader = NoThread /\ next = 1

\* A console call begins: its characters or its read budget are fixed.
Call(t) ==
  /\ req[t].op = "none" /\ calls[t] < MaxCalls
  /\ calls' = [calls EXCEPT ![t] = @ + 1]
  /\ LET r == [Idle EXCEPT !.k = calls[t] + 1] IN
     \E op \in Ops[t] :
       \/ op = "putchar" /\ req' = [req EXCEPT ![t] = [r EXCEPT !.op = "put", !.todo = <<"x">>]]
       \/ /\ op \in {"putstring", "putint"}
          /\ \E n \in 0..(MaxStringSize - 1) :
               req' = [req EXCEPT ![t] = [r EXCEPT !.op = "put", !.str = TRUE,
                                                   !.todo = Xs(n) \o <<"nul">>]]
       \/ op = "getchar" /\ req' = [req EXCEPT ![t] = [r EXCEPT !.op = "get", !.left = 1]]
       \/ /\ op \in {"getstring", "getint"}
          /\ \E n \in ReadSizes :
               req' = [req EXCEPT ![t] = [r EXCEPT !.op = "get", !.str = TRUE,
                                                   !.left = IF n > 1 THEN n - 1 ELSE 0]]
  /\ UNCHANGED <<out, got, writer, reader, next>>

\* One character of the call is written; a string write holds the output
\* for strings from its first character to its return.
Write(t) ==
  /\ req[t].op = "put" /\ req[t].todo # << >>
  /\ req[t].str => writer \in {NoThread, t}
  /\ writer' = IF req[t].str THEN t ELSE writer
  /\ out' = Append(out, [t |-> t, k |-> req[t].k, c |-> Head(req[t].todo),
                         str |-> req[t].str])
  /\ req' = [req EXCEPT ![t].todo = Tail(@)]
  /\ UNCHANGED <<got, calls, reader, next>>

\* The next input byte, or EOF past the end of the input; the byte 0xFF
\* comes back as EOF.  A character read returns with it.
Read(t) ==
  /\ req[t].op = "get" /\ req[t].left > 0
  /\ req[t].str => reader \in {NoThread, t}
  /\ reader' = IF req[t].str THEN t ELSE reader
  /\ LET v == IF next > Len(Input) THEN "eof"
              ELSE IF Input[next] = "ff" THEN "eof" ELSE Input[next]
         stop == v \in {"eof", "nl", "nul"}
     IN  /\ got' = IF next > Len(Input) THEN got
                   ELSE Append(got, [t |-> t, k |-> req[t].k, pos |-> next, v |-> v,
                                     str |-> req[t].str])
         /\ next' = IF next > Len(Input) THEN next ELSE next + 1
         /\ req' = [req EXCEPT ![t] =
                      IF ~@.str THEN Idle
                      ELSE [@ EXCEPT !.left = IF stop THEN 0 ELSE @ - 1]]
  /\ UNCHANGED <<out, calls, writer>>

\* A string call, or a character write, returns once it is done.
Return(t) ==
  /\ req[t].op # "none" /\ req[t].todo = << >> /\ req[t].left = 0
  /\ req' = [req EXCEPT ![t] = Idle]
  /\ writer' = IF writer = t THEN NoThread ELSE writer
  /\ reader' = IF reader = t THEN NoThread ELSE reader
  /\ UNCHANGED <<out, got, calls, next>>

AStep(t) == Call(t) \/ Write(t) \/ Read(t) \/ Return(t)

Next == \E t \in Threads : AStep(t)

\* Every call in progress goes on until it returns.
Spec == Init /\ [][Next]_avars
          /\ \A t \in Threads : WF_avars(Write(t) \/ Read(t) \/ Return(t))
=============================================================================
