------------------------------ MODULE TransformRun ------------------------------
(***************************************************************************)
(* clTransformRun (lib/src/transform.c): prepares the transform, then cuts *)
(* a buffer of pixels into one slice per thread.  Each thread converts its *)
(* slice pixel by pixel into the destination buffer, which no lock guards. *)
(* Positions in the two buffers are counted in floats, as in the code.     *)
(***************************************************************************)
EXTENDS Task, Integers

CONSTANTS TaskLimit,    \* clTaskLimit(): the processors of the machine
          MaxPixels     \* bound on the sizes enumerated

ASSUME TransformAssumption ==
  /\ TaskLimit \in Nat \ {0}
  /\ Slots = 0 .. (TaskLimit - 1)
  /\ MaxPixels \in Nat

VARIABLES pc,
          jobs, pixelCount, srcChannels, dstChannels,   \* the arguments
          taskCount,
          i,            \* the loop variable
          infos,        \* infos[s]: the clTransformTask of slot s
          cursor,       \* cursor[s]: the pixels thread s has converted
          prepared,     \* clTransformPrepare has run
          writes        \* every <<float of dstPixels, value>> written

inputVars == <<jobs, pixelCount, srcChannels, dstChannels>>
vars == <<task, thread, pc, jobs, pixelCount, srcChannels, dstChannels,
          taskCount, i, infos, cursor, prepared, writes>>

\* clTransformFormatToChannelCount: XYZ and RGB have three channels, RGBA four.
ChannelCounts == {3, 4}

EmptyInfo == [inPixels |-> 0, outPixels |-> 0, pixelCount |-> 0]

TypeOK ==
  /\ TaskTypeOK
  /\ pc \in {"prepare", "inline", "spawn", "destroy", "done", "crashed"}
  /\ jobs \in 1 .. TaskLimit
  /\ pixelCount \in Nat
  /\ srcChannels \in ChannelCounts /\ dstChannels \in ChannelCounts
  /\ taskCount \in 0 .. jobs
  /\ i \in 0 .. TaskLimit
  /\ infos \in [Slots -> [inPixels: Nat, outPixels: Nat, pixelCount: Nat]]
  /\ cursor \in [Slots -> Nat]
  /\ prepared \in BOOLEAN

Init ==
  /\ TaskInit
  /\ pc = "prepare"
  /\ jobs \in 1 .. TaskLimit
  /\ pixelCount \in 0 .. MaxPixels
  /\ srcChannels \in ChannelCounts
  /\ dstChannels \in ChannelCounts
  /\ taskCount = 0
  /\ i = 0
  /\ infos = [s \in Slots |-> EmptyInfo]
  /\ cursor = [s \in Slots |-> 0]
  /\ prepared = FALSE
  /\ writes = {}

-----------------------------------------------------------------------------
(* clCCMMTransform: one pixel.  A color channel is named by the source pixel   *)
(* it was computed from; alpha is copied, or made opaque when there is none.   *)

Opaque == [pixel |-> -1, channel |-> 3]

Channel(src, c) ==
  IF c = 3 /\ srcChannels = 3 THEN Opaque ELSE [pixel |-> src, channel |-> c]

\* Converting the pixel at float src into the floats from dst on.
PixelWrites(src, dst) ==
  {<<dst + c, Channel(src, c)>> : c \in 0 .. (dstChannels - 1)}

\* The n-th pixel of the slice that info describes.
SlicePixel(info, n) ==
  PixelWrites(info.inPixels + n * srcChannels, info.outPixels + n * dstChannels)

WholeBuffer == [inPixels |-> 0, outPixels |-> 0, pixelCount |-> pixelCount]

AllPixels(info) == UNION {SlicePixel(info, n) : n \in 0 .. (info.pixelCount - 1)}

-----------------------------------------------------------------------------
(* The main thread *)

\* Mutant: one task too many.
OneMoreTask == IF jobs > pixelCount THEN pixelCount ELSE jobs + 1

MinTaskCount == IF jobs > pixelCount THEN pixelCount ELSE jobs

\* clTransformPrepare, then the task count.  With no pixel there is no task, and
\* pixelCount / taskCount divides by zero.
Prepare ==
  /\ pc = "prepare"
  /\ prepared' = TRUE
  /\ taskCount' = MinTaskCount
  /\ \/ MinTaskCount = 1 /\ pc' = "inline"
     \/ MinTaskCount > 1 /\ pc' = "spawn"
     \/ MinTaskCount = 0 /\ pc' = "crashed"
  /\ UNCHANGED <<task, thread, inputVars, i, infos, cursor, writes>>

\* "Don't bother making any new threads"
ConvertInline ==
  /\ pc = "inline"
  /\ writes' = writes \cup AllPixels(WholeBuffer)
  /\ pc' = "done"
  /\ UNCHANGED <<task, thread, inputVars, taskCount, i, infos, cursor, prepared>>

pixelsPerTask == pixelCount \div taskCount

lastTaskPixelCount == pixelCount - pixelsPerTask * (taskCount - 1)

\* Mutant: forgets the remainder of the division.
EvenSliceCount(s) == pixelsPerTask

SliceCount(s) == IF s = taskCount - 1 THEN lastTaskPixelCount ELSE pixelsPerTask

\* Mutant: advances the destination by the channels of the source.
SourceStrideSlice(s) ==
  [inPixels   |-> s * pixelsPerTask * srcChannels,
   outPixels  |-> s * pixelsPerTask * srcChannels,
   pixelCount |-> SliceCount(s)]

Slice(s) ==
  [inPixels   |-> s * pixelsPerTask * srcChannels,
   outPixels  |-> s * pixelsPerTask * dstChannels,
   pixelCount |-> SliceCount(s)]

\* Mutant: every task goes into the first slot.
SpawnIntoFirstSlot ==
  /\ pc = "spawn"
  /\ infos' = [infos EXCEPT ![i] = Slice(i)]
  /\ clTaskCreate(0)
  /\ IF i + 1 = taskCount
       THEN pc' = "destroy" /\ i' = 0
       ELSE i' = i + 1 /\ UNCHANGED pc
  /\ UNCHANGED <<inputVars, taskCount, cursor, prepared, writes>>

SpawnTask ==
  /\ pc = "spawn"
  /\ infos' = [infos EXCEPT ![i] = Slice(i)]
  /\ clTaskCreate(i)
  /\ IF i + 1 = taskCount
       THEN pc' = "destroy" /\ i' = 0
       ELSE i' = i + 1 /\ UNCHANGED pc
  /\ UNCHANGED <<inputVars, taskCount, cursor, prepared, writes>>

DestroyTask ==
  /\ pc = "destroy"
  /\ clTaskDestroy(i)
  /\ i' = i + 1
  /\ pc' = IF i + 1 = taskCount THEN "done" ELSE pc
  /\ UNCHANGED <<inputVars, taskCount, infos, cursor, prepared, writes>>

-----------------------------------------------------------------------------
(* The threads: transformTaskFunc(&infos[s]) *)

StartSlice(s) ==
  /\ ThreadStart(s)
  /\ cursor' = [cursor EXCEPT ![s] = 0]
  /\ UNCHANGED <<pc, inputVars, taskCount, i, infos, prepared, writes>>

ConvertPixel(s) ==
  /\ thread[s] = "running"
  /\ cursor[s] < infos[s].pixelCount
  /\ writes' = writes \cup SlicePixel(infos[s], cursor[s])
  /\ cursor' = [cursor EXCEPT ![s] = @ + 1]
  /\ UNCHANGED <<task, thread, pc, inputVars, taskCount, i, infos, prepared>>

FinishSlice(s) ==
  /\ cursor[s] = infos[s].pixelCount
  /\ ThreadExit(s)
  /\ UNCHANGED <<pc, inputVars, taskCount, i, infos, cursor, prepared, writes>>

-----------------------------------------------------------------------------

Main == Prepare \/ ConvertInline \/ SpawnTask \/ DestroyTask

Worker(s) == StartSlice(s) \/ ConvertPixel(s) \/ FinishSlice(s)

Ended == pc \in {"done", "crashed"} /\ UNCHANGED vars

Next == Main \/ (\E s \in Slots : Worker(s)) \/ Ended

\* The operating system schedules every runnable thread.
Spec == Init /\ [][Next]_vars

FairSpec == Spec /\ WF_vars(Main) /\ \A s \in Slots : WF_vars(Worker(s))

-----------------------------------------------------------------------------
(* Properties.  TaskSpec of Task is checked as well.                         *)

\* When clTransformRun returns, every float of the destination, and none beyond
\* it, holds the conversion of the source pixel of the same index, whatever the
\* number of threads and the remainder of the division; and no thread is left.
Converted ==
  pc = "done" =>
    /\ writes = AllPixels(WholeBuffer)
    /\ \A s \in Slots : task[s] = "freed" /\ thread[s] = "none"

\* The floats thread s may write.
OutFloats(s) ==
  infos[s].outPixels .. (infos[s].outPixels + infos[s].pixelCount * dstChannels - 1)

\* Threads alive at the same time never write the same float, stay within the
\* buffer, and only run on a prepared transform: no lock is needed.
NoRace ==
  \A s \in Slots :
    thread[s] # "none" =>
      /\ prepared
      /\ OutFloats(s) \subseteq 0 .. (pixelCount * dstChannels - 1)
      /\ \A t \in Slots \ {s} :
           thread[t] # "none" => OutFloats(s) \cap OutFloats(t) = {}

\* A call with pixels to convert returns: the division does not trap, and the
\* joins wait for threads that do finish.  (Without a pixel it traps.)
Returns == pixelCount > 0 ~> pc = "done"
=============================================================================
