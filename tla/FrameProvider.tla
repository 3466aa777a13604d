--------------------------- MODULE FrameProvider ---------------------------
(***************************************************************************)
(* FrameProvider (userprog/frameprovider.cc): a bitmap of the physical     *)
(* frames and GetEmptyFrame's three allocation strategies.  Everything    *)
(* here is an operator on the set of marked frames; Processes holds the   *)
(* map as its variable "allocated".  A result is the frame returned and   *)
(* the map after the call.                                                 *)
(***************************************************************************)
EXTENDS Integers, FiniteSets, FiniteSetsExt

CONSTANT NumPhysPages   \* numOfFrames of the constructor (NumPhysPages, machine.h)

Frames  == 0..(NumPhysPages - 1)
\* GetEmptyFrame's -1 on a full map, stored in an unsigned physicalPage.
NoFrame == -1

AS_ORDERED == 0
AS_RANDOM  == 1
AS_INVERSE == 2

Result(alloc, f) == [frame |-> f, alloc |-> alloc \cup ({f} \cap Frames)]

\* BitMap::Find: the first clear bit, marked; -1 on a full map.
Find(alloc) == IF Frames \subseteq alloc THEN NoFrame ELSE Min(Frames \ alloc)

(***************************************************************************)
(* AS_RANDOM from the frame r = rand() % numPages: the first free frame at *)
(* or above r; else the first free frame from 0.  The final test compares *)
(* i, which is numPages after the first loop, with selectedFrame, which   *)
(* is below numPages, so it never yields -1: on a full map the call       *)
(* returns r, a frame in use, without marking it.                         *)
(***************************************************************************)
GetEmptyFrameRandom(alloc, r) ==
  LET above == {i \in r..(NumPhysPages - 1) : i \notin alloc}
  IN  IF above # {} THEN Result(alloc, Min(above))
      ELSE IF Find(alloc) # NoFrame THEN Result(alloc, Find(alloc))
      ELSE [frame |-> r, alloc |-> alloc]

\* AS_INVERSE: the highest free frame, scanning down from numPages - 1.
GetEmptyFrameInverse(alloc) ==
  IF Frames \subseteq alloc THEN [frame |-> NoFrame, alloc |-> alloc]
  ELSE Result(alloc, Max(Frames \ alloc))

(***************************************************************************)
(* FrameProvider::GetEmptyFrame(allocationStrategie); r is the value of   *)
(* rand() % numPages, used by AS_RANDOM only.  An unknown strategy leaves *)
(* selectedFrame at 0 and returns frame 0 unmarked.  bzero of the chosen  *)
(* frame clears memory contents only.                                      *)
(***************************************************************************)
GetEmptyFrame(strategy, alloc, r) ==
  CASE strategy = AS_ORDERED -> Result(alloc, Find(alloc))
    [] strategy = AS_RANDOM  -> GetEmptyFrameRandom(alloc, r)
    [] strategy = AS_INVERSE -> GetEmptyFrameInverse(alloc)
    [] OTHER                 -> [frame |-> 0, alloc |-> alloc]

=============================================================================
