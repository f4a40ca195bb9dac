---------------------------- MODULE Transform_proofs ----------------------------
(***************************************************************************)
(* Proofs about transforms.  TransformRun: how threads share the pixels of *)
(* a run, for any number of processors, of jobs and of pixels.             *)
(* TransformPrepare: what a run does to them, whatever the transform was   *)
(* prepared for, how often and in which order, for all profiles and        *)
(* luminances.                                                             *)
(***************************************************************************)
EXTENDS TransformRun, TransformPrepare, FiniteSetTheorems, TLAPS

-----------------------------------------------------------------------------
(* How a buffer is cut: arithmetic on pixel indices.                         *)

\* The first pixel of slice s, and the first beyond it.
First(s) == s * pixelsPerTask
Beyond(s) == First(s) + SliceCount(s)

\* What clTransformRun knows when it spawns threads.
Cut ==
  /\ pixelCount \in Nat /\ taskCount \in Nat
  /\ 1 <= taskCount /\ taskCount <= pixelCount
  /\ srcChannels \in ChannelCounts /\ dstChannels \in ChannelCounts

LEMMA Quotient ==
  ASSUME NEW n \in Nat, NEW k \in Nat, 1 <= k, k <= n
  PROVE  n \div k \in Nat /\ 1 <= n \div k /\ k * (n \div k) <= n
BY SMT

LEMMA IntervalsApart ==
  ASSUME NEW a \in Int, NEW b \in Int, NEW c \in Int, NEW d \in Int, b <= c
  PROVE  /\ (a .. (b - 1)) \cap (c .. (d - 1)) = {}
         /\ (c .. (d - 1)) \cap (a .. (b - 1)) = {}
OBVIOUS

LEMMA ProductMonotone ==
  ASSUME NEW a \in Nat, NEW b \in Nat, NEW k \in Nat, a <= b
  PROVE  a * k \in Nat /\ a * k <= b * k
<1>1. PICK d \in Nat : b = a + d
  BY b - a \in Nat
<1>2. b * k = a * k + d * k
  BY <1>1
<1>3. d * k \in Nat /\ a * k \in Nat
  BY <1>1
<1> QED
  BY <1>2, <1>3

LEMMA CutTypes ==
  ASSUME Cut
  PROVE  /\ pixelsPerTask \in Nat /\ 1 <= pixelsPerTask
         /\ (taskCount - 1) * pixelsPerTask + pixelsPerTask <= pixelCount
         /\ lastTaskPixelCount \in Nat /\ lastTaskPixelCount >= pixelsPerTask
         /\ (taskCount - 1) * pixelsPerTask + lastTaskPixelCount = pixelCount
<1> DEFINE k == taskCount - 1
<1>1. k \in Nat /\ taskCount = k + 1
  BY DEF Cut
<1>2. pixelsPerTask \in Nat /\ 1 <= pixelsPerTask /\ taskCount * pixelsPerTask <= pixelCount
  BY Quotient DEF Cut, pixelsPerTask
<1>3. taskCount * pixelsPerTask = k * pixelsPerTask + pixelsPerTask
  BY <1>1, <1>2
<1>4. k * pixelsPerTask \in Nat /\ pixelsPerTask * k = k * pixelsPerTask
  BY <1>1, <1>2
<1>5. lastTaskPixelCount = pixelCount - k * pixelsPerTask
  BY <1>4 DEF lastTaskPixelCount
<1> QED
  BY <1>2, <1>3, <1>4, <1>5 DEF Cut

\* Slices lie within the buffer, ...
LEMMA SliceWithin ==
  ASSUME Cut, NEW s \in Nat, s < taskCount
  PROVE  /\ First(s) \in Nat /\ SliceCount(s) \in Nat /\ 1 <= SliceCount(s)
         /\ Beyond(s) <= pixelCount
<1>1. /\ First(s) \in Nat
      /\ First(s) <= (taskCount - 1) * pixelsPerTask
  BY CutTypes, ProductMonotone, taskCount - 1 \in Nat, s <= taskCount - 1 DEF Cut, First
<1>2. CASE s = taskCount - 1
  BY <1>1, <1>2, CutTypes DEF Cut, First, Beyond, SliceCount
<1>3. CASE s # taskCount - 1
  BY <1>1, <1>3, CutTypes DEF Cut, Beyond, SliceCount
<1> QED
  BY <1>2, <1>3

\* ... do not overlap, ...
LEMMA SlicesDisjoint ==
  ASSUME Cut, NEW s \in Nat, NEW t \in Nat, s < t, t < taskCount
  PROVE  Beyond(s) <= First(t)
<1>1. SliceCount(s) = pixelsPerTask
  BY DEF Cut, SliceCount
<1>2. pixelsPerTask \in Nat
  BY CutTypes
<1>3. (s + 1) * pixelsPerTask <= t * pixelsPerTask
  BY <1>2, ProductMonotone, s + 1 \in Nat, s + 1 <= t
<1>4. (s + 1) * pixelsPerTask = s * pixelsPerTask + pixelsPerTask
  BY <1>2
<1> QED
  BY <1>1, <1>3, <1>4 DEF First, Beyond

\* ... and cover every pixel.
LEMMA SlicesCover ==
  ASSUME Cut, NEW k \in Nat, k < pixelCount
  PROVE  \E s \in 0 .. (taskCount - 1) : First(s) <= k /\ k < Beyond(s)
<1> DEFINE q == k \div pixelsPerTask
<1>1. pixelsPerTask \in Nat /\ 1 <= pixelsPerTask
  BY CutTypes
<1>2. q \in Nat /\ q * pixelsPerTask <= k /\ k < q * pixelsPerTask + pixelsPerTask
  BY <1>1, SMT
<1>3. CASE q < taskCount - 1
  <2>1. SliceCount(q) = pixelsPerTask
    BY <1>2, <1>3 DEF SliceCount, Cut
  <2>2. First(q) <= k /\ k < Beyond(q)
    BY <1>2, <2>1 DEF First, Beyond
  <2> QED
    BY <1>2, <1>3, <2>2 DEF Cut
<1>4. CASE q >= taskCount - 1
  <2> DEFINE l == taskCount - 1
  <2>1. l \in Nat /\ l * pixelsPerTask <= q * pixelsPerTask
    BY <1>1, <1>2, <1>4, ProductMonotone DEF Cut
  <2>2. Beyond(l) = pixelCount
    BY CutTypes DEF Beyond, First, SliceCount
  <2>3. First(l) <= k
    BY <1>1, <1>2, <2>1 DEF First
  <2> QED
    BY <2>1, <2>2, <2>3
<1> QED
  BY <1>2, <1>3, <1>4 DEF Cut
-----------------------------------------------------------------------------
(* The pixels of a slice are pixels of the whole buffer.                     *)

Pixel(k) == SlicePixel(WholeBuffer, k)

LEMMA PixelOfSlice ==
  ASSUME Cut, NEW s \in Nat, s < taskCount, NEW n \in Nat
  PROVE  SlicePixel(Slice(s), n) = Pixel(First(s) + n)
<1> DEFINE f == First(s)
<1>1. f \in Nat
  BY SliceWithin
<1>2. Slice(s).inPixels = f * srcChannels /\ Slice(s).outPixels = f * dstChannels
  BY DEF Slice, First
<1>3. /\ f * srcChannels + n * srcChannels = 0 + (f + n) * srcChannels
      /\ f * dstChannels + n * dstChannels = 0 + (f + n) * dstChannels
  BY <1>1 DEF Cut, ChannelCounts
<1> QED
  BY <1>2, <1>3, Zenon DEF SlicePixel, Pixel, WholeBuffer

LEMMA WholeIsAllPixels == AllPixels(WholeBuffer) = UNION {Pixel(k) : k \in 0 .. (pixelCount - 1)}
BY DEF AllPixels, Pixel, WholeBuffer

\* A pixel of a slice lies within the buffer.
LEMMA PixelWithin ==
  ASSUME Cut, NEW s \in Nat, s < taskCount, NEW n \in Nat, n < SliceCount(s)
  PROVE  SlicePixel(Slice(s), n) \subseteq AllPixels(WholeBuffer)
<1>1. First(s) + n \in 0 .. (pixelCount - 1)
  BY SliceWithin DEF Beyond, Cut
<1> QED
  BY <1>1, PixelOfSlice, WholeIsAllPixels

\* When every pixel of every slice is written, so is the whole buffer.
LEMMA SlicesFill ==
  ASSUME Cut, NEW W,
         \A s \in 0 .. (taskCount - 1) : \A n \in 0 .. (SliceCount(s) - 1) :
           SlicePixel(Slice(s), n) \subseteq W
  PROVE  AllPixels(WholeBuffer) \subseteq W
<1>1. SUFFICES ASSUME NEW k \in 0 .. (pixelCount - 1)
               PROVE  Pixel(k) \subseteq W
  BY WholeIsAllPixels
<1>2. PICK s \in 0 .. (taskCount - 1) : First(s) <= k /\ k < Beyond(s)
  BY SlicesCover DEF Cut
<1>3. s \in Nat /\ s < taskCount
  BY DEF Cut
<1> DEFINE n == k - First(s)
<1>4. First(s) \in Nat /\ SliceCount(s) \in Nat
  BY <1>3, SliceWithin
<1>5. n \in Nat /\ n \in 0 .. (SliceCount(s) - 1) /\ First(s) + n = k
  BY <1>2, <1>4 DEF Beyond
<1>6. SlicePixel(Slice(s), n) = Pixel(k)
  BY <1>3, <1>5, PixelOfSlice
<1> QED
  BY <1>5, <1>6

-----------------------------------------------------------------------------
(* The inductive invariant.                                                  *)

\* The slots whose thread has been created and not yet destroyed.
Alive(s) ==
  \/ pc = "spawn" /\ s < i
  \/ pc = "destroy" /\ i <= s /\ s < taskCount

SlotInv ==
  \A s \in Slots :
    IF Alive(s) THEN task[s] = "live" /\ thread[s] # "none" /\ infos[s] = Slice(s)
                ELSE task[s] = "freed" /\ thread[s] = "none"

LoopInv ==
  /\ pc # "prepare" => prepared
  /\ pc = "prepare" => i = 0
  /\ pc \in {"spawn", "destroy"} => Cut /\ i < taskCount

\* The threads of the slots below this one have been destroyed.
Destroyed(s) == pc = "destroy" /\ s < i

\* What the threads have left in the destination so far.
WriteInv ==
  /\ pc \in {"prepare", "inline"} => writes = {}
  /\ pc \in {"spawn", "destroy"} =>
       /\ writes \subseteq AllPixels(WholeBuffer)
       /\ \A s \in Slots :
            /\ thread[s] \in {"running", "exited"} =>
                 /\ cursor[s] <= SliceCount(s)
                 /\ \A n \in 0 .. (cursor[s] - 1) : SlicePixel(Slice(s), n) \subseteq writes
            /\ thread[s] = "exited" => cursor[s] = SliceCount(s)
            /\ Destroyed(s) =>
                 \A n \in 0 .. (SliceCount(s) - 1) : SlicePixel(Slice(s), n) \subseteq writes
  /\ pc = "done" => writes = AllPixels(WholeBuffer)

IInv == TypeOK /\ SlotInv /\ LoopInv /\ WriteInv
-----------------------------------------------------------------------------

\* Cut and the slices depend on variables that only Prepare changes.
LEMMA CutStable ==
  ASSUME UNCHANGED <<inputVars, taskCount>>
  PROVE  /\ Cut' = Cut
         /\ \A s : Slice(s)' = Slice(s) /\ SliceCount(s)' = SliceCount(s)
         /\ \A info, n : SlicePixel(info, n)' = SlicePixel(info, n)
         /\ AllPixels(WholeBuffer)' = AllPixels(WholeBuffer)
<1> USE DEF inputVars
<1>1. Cut' = Cut
  BY DEF Cut
<1>2. \A s : Slice(s)' = Slice(s) /\ SliceCount(s)' = SliceCount(s)
  BY DEF Slice, SliceCount, pixelsPerTask, lastTaskPixelCount
<1>3. \A info, n : SlicePixel(info, n)' = SlicePixel(info, n)
  BY DEF SlicePixel, PixelWrites, Channel
<1>4. AllPixels(WholeBuffer)' = AllPixels(WholeBuffer)
  BY DEF AllPixels, WholeBuffer, SlicePixel, PixelWrites, Channel
<1> QED
  BY <1>1, <1>2, <1>3, <1>4

LEMMA SliceTypes ==
  ASSUME Cut, NEW s \in Nat, s < taskCount
  PROVE  Slice(s) \in [inPixels: Nat, outPixels: Nat, pixelCount: Nat]
<1>1. First(s) \in Nat /\ SliceCount(s) \in Nat
  BY SliceWithin
<1>2. First(s) * srcChannels \in Nat /\ First(s) * dstChannels \in Nat
  BY <1>1 DEF Cut, ChannelCounts
<1> QED
  BY <1>1, <1>2 DEF Slice, First

LEMMA InitInv == Init => IInv
<1> SUFFICES ASSUME Init PROVE IInv
  OBVIOUS
<1> USE TransformAssumption
<1>1. TypeOK
  <2>1. prepared \in BOOLEAN
    BY Zenon DEF Init
  <2>2. infos \in [Slots -> [inPixels: Nat, outPixels: Nat, pixelCount: Nat]]
    BY DEF Init, EmptyInfo
  <2> QED
    BY <2>1, <2>2 DEF Init, TaskInit, TypeOK, TaskTypeOK
<1>2. SlotInv /\ LoopInv /\ WriteInv
  BY DEF Init, TaskInit, SlotInv, LoopInv, WriteInv, Alive
<1> QED
  BY <1>1, <1>2 DEF IInv

LEMMA PrepareStageInv == IInv /\ Prepare => IInv'
<1> SUFFICES ASSUME IInv, Prepare PROVE IInv'
  OBVIOUS
<1> USE TransformAssumption DEF IInv
<1>0. /\ pc = "prepare" /\ i = 0 /\ i' = 0 /\ writes = {} /\ writes' = {}
      /\ taskCount' = MinTaskCount
      /\ UNCHANGED <<task, thread, inputVars, infos, cursor>>
  BY DEF Prepare, LoopInv, WriteInv
<1>1. /\ MinTaskCount \in 0 .. jobs
      /\ MinTaskCount <= pixelCount
  BY DEF TypeOK, MinTaskCount
<1>2. TypeOK'
  BY <1>0, <1>1 DEF Prepare, TypeOK, TaskTypeOK, inputVars
<1>3. \A s \in Slots : task[s] = "freed" /\ thread[s] = "none"
  BY <1>0 DEF SlotInv, Alive
<1>4. SlotInv'
  BY <1>0, <1>3 DEF Prepare, SlotInv, Alive, TypeOK
<1>5. LoopInv'
  <2>1. prepared'
    BY Zenon DEF Prepare
  <2>2. /\ pc' \in {"spawn", "destroy"} => Cut' /\ i' < taskCount'
        /\ pc' # "prepare"
    BY <1>0, <1>1 DEF Prepare, Cut, inputVars, TypeOK
  <2> QED
    BY <2>1, <2>2 DEF LoopInv
<1>6. WriteInv'
  BY <1>0, <1>3 DEF Prepare, WriteInv, Destroyed, TypeOK
<1> QED
  BY <1>2, <1>4, <1>5, <1>6

LEMMA ConvertInlineInv == IInv /\ ConvertInline => IInv'
<1> SUFFICES ASSUME IInv, ConvertInline PROVE IInv'
  OBVIOUS
<1> USE DEF IInv
<1>0. UNCHANGED <<inputVars, taskCount>>
  BY DEF ConvertInline
<1>1. TypeOK'
  BY DEF ConvertInline, TypeOK, TaskTypeOK, inputVars
<1>2. SlotInv'
  BY DEF ConvertInline, SlotInv, Alive
<1>3. LoopInv'
  BY DEF ConvertInline, LoopInv
<1>4. writes' = AllPixels(WholeBuffer) /\ pc' = "done"
  BY DEF ConvertInline, WriteInv
<1>5. WriteInv'
  BY <1>0, <1>4, CutStable DEF WriteInv
<1> QED
  BY <1>1, <1>2, <1>3, <1>5

LEMMA SpawnTaskInv == IInv /\ SpawnTask => IInv'
<1> SUFFICES ASSUME IInv, SpawnTask PROVE IInv'
  OBVIOUS
<1> USE TransformAssumption DEF IInv
<1>0. /\ pc = "spawn" /\ Cut /\ i < taskCount /\ i \in Slots /\ i \in Nat
      /\ taskCount \in Nat /\ taskCount <= TaskLimit
      /\ UNCHANGED <<inputVars, taskCount, cursor, prepared, writes>>
      /\ infos' = [infos EXCEPT ![i] = Slice(i)]
      /\ task' = [task EXCEPT ![i] = "live"]
      /\ thread' = [thread EXCEPT ![i] = "created"]
  BY DEF SpawnTask, clTaskCreate, LoopInv, TypeOK
<1>1. \/ i + 1 = taskCount /\ pc' = "destroy" /\ i' = 0
      \/ i + 1 < taskCount /\ pc' = "spawn" /\ i' = i + 1
  BY <1>0 DEF SpawnTask
<1>2. TypeOK'
  <2>1. TaskTypeOK'
    BY <1>0 DEF TypeOK, TaskTypeOK
  <2>2. infos' \in [Slots -> [inPixels: Nat, outPixels: Nat, pixelCount: Nat]]
    BY <1>0, SliceTypes DEF TypeOK
  <2>3. /\ i' \in 0 .. TaskLimit
        /\ pc' \in {"prepare", "inline", "spawn", "destroy", "done", "crashed"}
    BY <1>0, <1>1
  <2> QED
    BY <1>0, <2>1, <2>2, <2>3 DEF TypeOK, inputVars
<1>3. Cut' /\ \A s : Slice(s)' = Slice(s) /\ SliceCount(s)' = SliceCount(s)
  BY <1>0, CutStable
<1>4. SlotInv'
  <2> SUFFICES ASSUME NEW s \in Slots
               PROVE  IF Alive(s)' THEN task'[s] = "live" /\ thread'[s] # "none" /\ infos'[s] = Slice(s)
                                  ELSE task'[s] = "freed" /\ thread'[s] = "none"
    BY <1>3 DEF SlotInv
  <2>1. Alive(s)' <=> s <= i
    BY <1>0, <1>1 DEF Alive
  <2>2. CASE s = i
    BY <1>0, <2>1, <2>2 DEF TypeOK, TaskTypeOK
  <2>3. CASE s # i
    <3>1. task'[s] = task[s] /\ thread'[s] = thread[s] /\ infos'[s] = infos[s]
      BY <1>0, <2>3 DEF TypeOK, TaskTypeOK
    <3>2. Alive(s) <=> s < i
      BY <1>0 DEF Alive
    <3> QED
      BY <1>0, <2>1, <2>3, <3>1, <3>2 DEF SlotInv
  <2> QED
    BY <2>2, <2>3
<1>5. LoopInv'
  BY <1>0, <1>1, <1>3 DEF LoopInv
<1>6. WriteInv'
  <2>1. /\ AllPixels(WholeBuffer)' = AllPixels(WholeBuffer)
        /\ \A info, n : SlicePixel(info, n)' = SlicePixel(info, n)
    BY <1>0, CutStable
  <2>2. ASSUME NEW s \in Slots
        PROVE  /\ thread'[s] \in {"running", "exited"} => thread[s] = thread'[s]
               /\ ~Destroyed(s)'
    <3>1. thread'[s] = "created" \/ thread'[s] = thread[s]
      BY <1>0 DEF TypeOK, TaskTypeOK
    <3>2. ~Destroyed(s)'
      BY <1>1 DEF Destroyed
    <3> QED
      BY <3>1, <3>2
  <2>3. /\ writes' \subseteq AllPixels(WholeBuffer)
        /\ \A s \in Slots :
            /\ thread'[s] \in {"running", "exited"} =>
                 /\ cursor'[s] <= SliceCount(s)
                 /\ \A n \in 0 .. (cursor'[s] - 1) : SlicePixel(Slice(s), n) \subseteq writes'
            /\ thread'[s] = "exited" => cursor'[s] = SliceCount(s)
    BY <1>0, <2>2 DEF WriteInv
  <2> QED
    BY <1>1, <1>3, <2>1, <2>2, <2>3 DEF WriteInv
<1> QED
  BY <1>2, <1>4, <1>5, <1>6
LEMMA DestroyTaskInv == IInv /\ DestroyTask => IInv'
<1> SUFFICES ASSUME IInv, DestroyTask PROVE IInv'
  OBVIOUS
<1> USE TransformAssumption DEF IInv
<1>0. /\ pc = "destroy" /\ Cut /\ i < taskCount /\ i \in Slots /\ i \in Nat
      /\ taskCount \in Nat /\ taskCount <= TaskLimit
      /\ i' = i + 1
      /\ UNCHANGED <<inputVars, taskCount, infos, cursor, prepared, writes>>
  BY DEF DestroyTask, LoopInv, TypeOK
<1>1. \/ i + 1 = taskCount /\ pc' = "done"
      \/ i + 1 < taskCount /\ pc' = "destroy"
  BY <1>0 DEF DestroyTask
<1>2. task[i] = "live" /\ thread[i] = "exited"
  BY <1>0 DEF SlotInv, Alive, DestroyTask, clTaskDestroy, CanJoin
<1>3. /\ task' = [task EXCEPT ![i] = "freed"]
      /\ thread' = [thread EXCEPT ![i] = "none"]
  BY <1>2 DEF DestroyTask, clTaskDestroy, JoinedThread
<1>4. TypeOK'
  <2>1. TaskTypeOK'
    BY <1>3 DEF TypeOK, TaskTypeOK
  <2>2. /\ i' \in 0 .. TaskLimit
        /\ pc' \in {"prepare", "inline", "spawn", "destroy", "done", "crashed"}
    BY <1>0, <1>1
  <2> QED
    BY <1>0, <2>1, <2>2 DEF TypeOK, inputVars
<1>5. /\ Cut'
      /\ \A s : Slice(s)' = Slice(s) /\ SliceCount(s)' = SliceCount(s)
      /\ \A info, n : SlicePixel(info, n)' = SlicePixel(info, n)
      /\ AllPixels(WholeBuffer)' = AllPixels(WholeBuffer)
  BY <1>0, CutStable
<1>6. SlotInv'
  <2> SUFFICES ASSUME NEW s \in Slots
               PROVE  IF Alive(s)' THEN task'[s] = "live" /\ thread'[s] # "none" /\ infos'[s] = Slice(s)
                                  ELSE task'[s] = "freed" /\ thread'[s] = "none"
    BY <1>5 DEF SlotInv
  <2>1. Alive(s)' <=> i + 1 <= s /\ s < taskCount
    BY <1>0, <1>1 DEF Alive
  <2>2. CASE s = i
    BY <1>0, <1>3, <2>1, <2>2 DEF TypeOK, TaskTypeOK
  <2>3. CASE s # i
    <3>1. task'[s] = task[s] /\ thread'[s] = thread[s] /\ infos'[s] = infos[s]
      BY <1>0, <1>3, <2>3 DEF TypeOK, TaskTypeOK
    <3>2. Alive(s) <=> i <= s /\ s < taskCount
      BY <1>0 DEF Alive
    <3> QED
      BY <1>0, <2>1, <2>3, <3>1, <3>2 DEF SlotInv
  <2> QED
    BY <2>2, <2>3
<1>7. LoopInv'
  BY <1>0, <1>1, <1>5 DEF LoopInv
<1>8. /\ writes \subseteq AllPixels(WholeBuffer)
      /\ \A s \in Slots :
           s < i + 1 => \A n \in 0 .. (SliceCount(s) - 1) : SlicePixel(Slice(s), n) \subseteq writes
  BY <1>0, <1>2 DEF WriteInv, Destroyed
<1>9. WriteInv'
  <2>1. ASSUME NEW s \in Slots
        PROVE  thread'[s] \in {"running", "exited"} => thread[s] = thread'[s]
    BY <1>3 DEF TypeOK, TaskTypeOK
  <2>2. CASE pc' = "destroy"
    <3>1. \A s \in Slots :
            /\ thread'[s] \in {"running", "exited"} =>
                 /\ cursor'[s] <= SliceCount(s)
                 /\ \A n \in 0 .. (cursor'[s] - 1) : SlicePixel(Slice(s), n) \subseteq writes'
            /\ thread'[s] = "exited" => cursor'[s] = SliceCount(s)
      BY <1>0, <2>1 DEF WriteInv
    <3>2. \A s \in Slots :
            Destroyed(s)' =>
              \A n \in 0 .. (SliceCount(s) - 1) : SlicePixel(Slice(s), n) \subseteq writes'
      BY <1>0, <1>8, <2>2 DEF Destroyed
    <3> QED
      BY <1>0, <1>5, <1>8, <2>2, <3>1, <3>2 DEF WriteInv
  <2>3. CASE pc' = "done"
    <3>1. \A s \in 0 .. (taskCount - 1) : \A n \in 0 .. (SliceCount(s) - 1) :
            SlicePixel(Slice(s), n) \subseteq writes
      BY <1>0, <1>1, <1>8, <2>3
    <3>2. AllPixels(WholeBuffer) \subseteq writes
      BY <1>0, <3>1, SlicesFill
    <3> QED
      BY <1>0, <1>5, <1>8, <2>3, <3>2 DEF WriteInv
  <2> QED
    BY <1>1, <2>2, <2>3
<1> QED
  BY <1>4, <1>6, <1>7, <1>9

\* What every step of a worker has in common: only threads that were created run.
LEMMA WorkerRuns ==
  ASSUME IInv, NEW s \in Slots, Worker(s)
  PROVE  /\ pc \in {"spawn", "destroy"} /\ Cut /\ Alive(s) /\ infos[s] = Slice(s)
         /\ s \in Nat /\ s < taskCount
         /\ SliceCount(s) \in Nat /\ infos[s].pixelCount = SliceCount(s)
         /\ thread'[s] # "none" /\ \A t \in Slots \ {s} : thread'[t] = thread[t]
         /\ UNCHANGED <<task, pc, inputVars, taskCount, i, infos, prepared>>
<1> USE TransformAssumption DEF IInv, TypeOK, TaskTypeOK
<1>1. thread[s] # "none"
  BY DEF Worker, StartSlice, ConvertPixel, FinishSlice, ThreadStart, ThreadExit
<1>2. Alive(s) /\ infos[s] = Slice(s)
  BY <1>1 DEF SlotInv
<1>3. pc \in {"spawn", "destroy"} /\ Cut /\ s \in Nat /\ s < taskCount
  BY <1>2 DEF Alive, LoopInv, Cut
<1>4. SliceCount(s) \in Nat
  BY <1>3, SliceWithin
<1>5. infos[s].pixelCount = SliceCount(s)
  BY <1>2 DEF Slice
<1>6. /\ thread'[s] # "none" /\ \A t \in Slots \ {s} : thread'[t] = thread[t]
      /\ UNCHANGED <<task, pc, inputVars, taskCount, i, infos, prepared>>
  BY <1>1 DEF Worker, StartSlice, ConvertPixel, FinishSlice, ThreadStart, ThreadExit
<1> QED
  BY <1>2, <1>3, <1>4, <1>5, <1>6

LEMMA WorkerInv ==
  ASSUME IInv, NEW s \in Slots, Worker(s)
  PROVE  IInv'
<1> USE TransformAssumption DEF IInv
<1>0. /\ pc \in {"spawn", "destroy"} /\ Cut /\ Alive(s) /\ infos[s] = Slice(s)
      /\ s \in Nat /\ s < taskCount
      /\ SliceCount(s) \in Nat /\ infos[s].pixelCount = SliceCount(s)
      /\ thread'[s] # "none" /\ \A t \in Slots \ {s} : thread'[t] = thread[t]
      /\ UNCHANGED <<task, pc, inputVars, taskCount, i, infos, prepared>>
  BY WorkerRuns
<1>1. /\ Cut'
      /\ \A t : Slice(t)' = Slice(t) /\ SliceCount(t)' = SliceCount(t)
      /\ \A info, n : SlicePixel(info, n)' = SlicePixel(info, n)
      /\ AllPixels(WholeBuffer)' = AllPixels(WholeBuffer)
  BY <1>0, CutStable
<1>2. TypeOK'
  <2>0. TaskTypeOK /\ cursor \in [Slots -> Nat]
    BY DEF TypeOK
  <2>1. TaskTypeOK' /\ cursor' \in [Slots -> Nat]
    <3> USE <2>0 DEF TaskTypeOK, ThreadStart, ThreadExit
    <3>1. CASE StartSlice(s)
      BY <3>1 DEF StartSlice
    <3>2. CASE ConvertPixel(s)
      <4>1. cursor[s] + 1 \in Nat
        OBVIOUS
      <4> QED
        BY <3>2, <4>1 DEF ConvertPixel
    <3>3. CASE FinishSlice(s)
      BY <3>3 DEF FinishSlice
    <3> QED
      BY <3>1, <3>2, <3>3 DEF Worker
  <2> QED
    BY <1>0, <2>1 DEF TypeOK, inputVars
<1>3. SlotInv'
  <2>1. \A t \in Slots : Alive(t)' = Alive(t)
    BY <1>0 DEF Alive
  <2> QED
    BY <1>0, <1>1, <2>1 DEF SlotInv
<1>4. LoopInv'
  BY <1>0, <1>1 DEF LoopInv, inputVars
<1>5. /\ writes \subseteq writes' /\ writes' \subseteq AllPixels(WholeBuffer)
      /\ \A t \in Slots \ {s} : cursor'[t] = cursor[t]
      /\ thread'[s] \in {"running", "exited"} =>
           /\ cursor'[s] <= SliceCount(s)
           /\ \A n \in 0 .. (cursor'[s] - 1) : SlicePixel(Slice(s), n) \subseteq writes'
      /\ thread'[s] = "exited" => cursor'[s] = SliceCount(s)
  <2>1. writes \subseteq AllPixels(WholeBuffer)
    BY <1>0 DEF WriteInv
  <2>2. CASE StartSlice(s)
    BY <1>0, <2>1, <2>2 DEF StartSlice, ThreadStart, TypeOK, TaskTypeOK
  <2>3. CASE ConvertPixel(s)
    <3>1. /\ thread[s] = "running" /\ thread' = thread
          /\ cursor[s] \in Nat /\ cursor[s] < SliceCount(s)
          /\ cursor' = [cursor EXCEPT ![s] = cursor[s] + 1]
          /\ writes' = writes \cup SlicePixel(Slice(s), cursor[s])
      BY <1>0, <2>3 DEF ConvertPixel, TypeOK
    <3>2. SlicePixel(Slice(s), cursor[s]) \subseteq AllPixels(WholeBuffer)
      BY <1>0, <3>1, PixelWithin
    <3>3. cursor'[s] = cursor[s] + 1 /\ \A t \in Slots \ {s} : cursor'[t] = cursor[t]
      BY <3>1 DEF TypeOK
    <3>4. \A n \in 0 .. (cursor[s] - 1) : SlicePixel(Slice(s), n) \subseteq writes
      BY <1>0, <3>1 DEF WriteInv
    <3>5. \A n \in 0 .. (cursor'[s] - 1) : SlicePixel(Slice(s), n) \subseteq writes'
      <4> SUFFICES ASSUME NEW n \in 0 .. cursor[s]
                   PROVE  SlicePixel(Slice(s), n) \subseteq writes'
        BY <3>1, <3>3
      <4>1. CASE n = cursor[s]
        BY <3>1, <4>1
      <4>2. CASE n # cursor[s]
        BY <3>1, <3>4, <4>2
      <4> QED
        BY <4>1, <4>2
    <3> QED
      BY <1>0, <2>1, <3>1, <3>2, <3>3, <3>5
  <2>4. CASE FinishSlice(s)
    BY <1>0, <2>1, <2>4 DEF FinishSlice, ThreadExit, TypeOK, TaskTypeOK, WriteInv
  <2> QED
    BY <2>2, <2>3, <2>4 DEF Worker
<1>6. WriteInv'
  <2>1. ASSUME NEW t \in Slots
        PROVE  /\ thread'[t] \in {"running", "exited"} =>
                    /\ cursor'[t] <= SliceCount(t)
                    /\ \A n \in 0 .. (cursor'[t] - 1) : SlicePixel(Slice(t), n) \subseteq writes'
               /\ thread'[t] = "exited" => cursor'[t] = SliceCount(t)
               /\ Destroyed(t)' =>
                    \A n \in 0 .. (SliceCount(t) - 1) : SlicePixel(Slice(t), n) \subseteq writes'
    <3>1. Destroyed(t)' = Destroyed(t)
      BY <1>0 DEF Destroyed
    <3>2. CASE t = s
      BY <1>0, <1>5, <3>1, <3>2 DEF WriteInv
    <3>3. CASE t # s
      <4>1. thread'[t] = thread[t] /\ cursor'[t] = cursor[t]
        BY <1>0, <1>5, <3>3
      <4> QED
        BY <1>0, <1>5, <3>1, <4>1 DEF WriteInv
    <3> QED
      BY <3>2, <3>3
  <2> QED
    BY <1>0, <1>1, <1>5, <2>1 DEF WriteInv
<1> QED
  BY <1>2, <1>3, <1>4, <1>6

LEMMA StutterInv == IInv /\ UNCHANGED vars => IInv'
<1> SUFFICES ASSUME IInv, UNCHANGED vars PROVE IInv'
  OBVIOUS
<1> USE DEF IInv, vars
<1>1. /\ Cut' = Cut
      /\ \A s : Slice(s)' = Slice(s) /\ SliceCount(s)' = SliceCount(s)
      /\ \A info, n : SlicePixel(info, n)' = SlicePixel(info, n)
      /\ AllPixels(WholeBuffer)' = AllPixels(WholeBuffer)
  BY CutStable DEF inputVars
<1>2. TypeOK'
  BY DEF TypeOK, TaskTypeOK
<1>3. SlotInv' /\ LoopInv'
  BY <1>1 DEF SlotInv, LoopInv, Alive
<1>4. WriteInv'
  BY <1>1 DEF WriteInv, Destroyed
<1> QED
  BY <1>2, <1>3, <1>4

THEOREM Invariance == Spec => []IInv
<1>1. IInv /\ [Next]_vars => IInv'
  BY PrepareStageInv, ConvertInlineInv, SpawnTaskInv, DestroyTaskInv, WorkerInv, StutterInv
     DEF Next, Main, Ended
<1> QED
  BY InitInv, <1>1, PTL DEF Spec
-----------------------------------------------------------------------------
(* The theorems                                                              *)

\* Every variable keeps its type.
THEOREM TypeCorrect == Spec => []TypeOK
BY Invariance, PTL DEF IInv

\* The threads of clTransformRun need no lock: at any time they write disjoint
\* parts of the destination, all of it inside the buffer.
THEOREM ThreadsDoNotRace == Spec => []NoRace
<1>1. IInv => NoRace
  <2> SUFFICES ASSUME IInv, NEW s \in Slots, thread[s] # "none"
               PROVE  /\ prepared
                      /\ OutFloats(s) \subseteq 0 .. (pixelCount * dstChannels - 1)
                      /\ \A t \in Slots \ {s} :
                           thread[t] # "none" => OutFloats(s) \cap OutFloats(t) = {}
    BY DEF NoRace
  <2> USE TransformAssumption DEF IInv
  <2>1. \A t \in Slots : thread[t] # "none" =>
          /\ Alive(t) /\ infos[t] = Slice(t) /\ t \in Nat
    BY DEF SlotInv
  <2>2. \A t \in Slots : Alive(t) => t < taskCount /\ Cut /\ prepared
    <3>1. pc \in {"spawn", "destroy"} => prepared
      BY Zenon DEF LoopInv
    <3>2. i \in Nat /\ taskCount \in Nat
      BY DEF TypeOK
    <3>3. ASSUME NEW t \in Slots, Alive(t)
          PROVE  t < taskCount /\ Cut /\ pc \in {"spawn", "destroy"}
      BY <3>2, <3>3 DEF Alive, LoopInv
    <3> QED
      BY <3>1, <3>3
  <2>3. Cut /\ prepared /\ s \in Nat /\ s < taskCount
    BY <2>1, <2>2
  <2>4. \A t \in Slots : thread[t] # "none" =>
          /\ t \in Nat /\ t < taskCount
          /\ First(t) \in Nat /\ Beyond(t) \in Nat /\ Beyond(t) <= pixelCount
          /\ OutFloats(t) = (First(t) * dstChannels) .. (Beyond(t) * dstChannels - 1)
    <3> SUFFICES ASSUME NEW t \in Slots, thread[t] # "none"
                 PROVE  /\ t \in Nat /\ t < taskCount
                        /\ First(t) \in Nat /\ Beyond(t) \in Nat /\ Beyond(t) <= pixelCount
                        /\ OutFloats(t) = (First(t) * dstChannels) .. (Beyond(t) * dstChannels - 1)
      OBVIOUS
    <3>1. t \in Nat /\ t < taskCount /\ infos[t] = Slice(t)
      BY <2>1, <2>2
    <3>2. First(t) \in Nat /\ SliceCount(t) \in Nat /\ Beyond(t) <= pixelCount
      BY <2>3, <3>1, SliceWithin
    <3>3. OutFloats(t) = (First(t) * dstChannels) ..
                         (First(t) * dstChannels + SliceCount(t) * dstChannels - 1)
      BY <3>1 DEF OutFloats, Slice, First
    <3>4. First(t) * dstChannels + SliceCount(t) * dstChannels = Beyond(t) * dstChannels
      BY <2>3, <3>2 DEF Beyond, Cut, ChannelCounts
    <3>5. Beyond(t) \in Nat
      BY <3>2 DEF Beyond
    <3>6. OutFloats(t) = (First(t) * dstChannels) .. (Beyond(t) * dstChannels - 1)
      <4>1. First(t) * dstChannels \in Nat /\ SliceCount(t) * dstChannels \in Nat
        BY <2>3, <3>2 DEF Cut, ChannelCounts
      <4> QED
        BY <3>3, <3>4, <4>1
    <3> QED
      BY <3>1, <3>2, <3>5, <3>6
  <2>5. OutFloats(s) \subseteq 0 .. (pixelCount * dstChannels - 1)
    BY <2>3, <2>4 DEF Cut, ChannelCounts
  <2>6. ASSUME NEW t \in Slots \ {s}, thread[t] # "none"
        PROVE  OutFloats(s) \cap OutFloats(t) = {}
    <3>1. \/ s < t /\ Beyond(s) <= First(t)
          \/ t < s /\ Beyond(t) <= First(s)
      BY <2>3, <2>4, <2>6, SlicesDisjoint
    <3>2. /\ First(s) \in Nat /\ Beyond(s) \in Nat
          /\ First(t) \in Nat /\ Beyond(t) \in Nat
          /\ OutFloats(s) = (First(s) * dstChannels) .. (Beyond(s) * dstChannels - 1)
          /\ OutFloats(t) = (First(t) * dstChannels) .. (Beyond(t) * dstChannels - 1)
      BY <2>4, <2>6
    <3>3. dstChannels \in Nat
      BY <2>3 DEF Cut, ChannelCounts
    <3> DEFINE a == First(s) * dstChannels
               b == Beyond(s) * dstChannels
               c == First(t) * dstChannels
               d == Beyond(t) * dstChannels
    <3>4. a \in Int /\ b \in Int /\ c \in Int /\ d \in Int
      <4>1. \A m \in Nat : m * dstChannels \in Int
        BY <3>3
      <4> QED
        BY <3>2, <4>1
    <3>5. b <= c \/ d <= a
      <4>1. Beyond(s) <= First(t) => b <= c
        BY <3>2, <3>3, ProductMonotone
      <4>2. Beyond(t) <= First(s) => d <= a
        BY <3>2, <3>3, ProductMonotone
      <4> QED
        BY <3>1, <4>1, <4>2
    <3>6. OutFloats(s) = a .. (b - 1) /\ OutFloats(t) = c .. (d - 1)
      BY <3>2
    <3> HIDE DEF a, b, c, d
    <3>7. (a .. (b - 1)) \cap (c .. (d - 1)) = {}
      BY <3>4, <3>5, IntervalsApart
    <3> QED
      BY <3>6, <3>7
  <2> QED
    BY <2>3, <2>5, <2>6
<1> QED
  BY <1>1, Invariance, PTL

\* When clTransformRun returns, exactly the whole destination has been written,
\* each pixel with the conversion of its own source pixel.
THEOREM WholeImageConverted == Spec => []Converted
<1>1. IInv => Converted
  BY DEF IInv, WriteInv, SlotInv, Alive, Converted
<1> QED
  BY <1>1, Invariance, PTL

\* clTransformRun uses its task slots as task.c asks: it never overwrites a live
\* task and destroys each task once, after its thread has exited.
THEOREM TaskProtocol == Spec => TaskSpec
<1>1. Init => TaskInit
  BY DEF Init
<1>2. IInv /\ [Next]_vars => [TaskNext]_taskVars
  <2> SUFFICES ASSUME IInv, [Next]_vars PROVE [TaskNext]_taskVars
    OBVIOUS
  <2> USE TransformAssumption
  <2>1. CASE SpawnTask
    <3>1. i \in Slots /\ task[i] = "freed"
      BY <2>1 DEF IInv, SpawnTask, LoopInv, SlotInv, Alive, TypeOK
    <3>2. clTaskCreate(i)
      BY <2>1 DEF SpawnTask
    <3> QED
      BY <3>1, <3>2 DEF TaskNext
  <2>2. CASE DestroyTask
    <3>1. i \in Slots /\ clTaskDestroy(i)
      BY <2>2 DEF IInv, DestroyTask, LoopInv, TypeOK
    <3> QED
      BY <3>1 DEF TaskNext
  <2>3. ASSUME NEW s \in Slots, StartSlice(s) \/ FinishSlice(s)
        PROVE  TaskNext
    BY <2>3 DEF StartSlice, FinishSlice, TaskNext
  <2>4. ASSUME NEW s \in Slots, ConvertPixel(s)
        PROVE  UNCHANGED taskVars
    BY <2>4 DEF ConvertPixel, taskVars
  <2>5. CASE Prepare \/ ConvertInline \/ Ended \/ UNCHANGED vars
    BY <2>5 DEF Prepare, ConvertInline, Ended, vars, taskVars
  <2> QED
    BY <2>1, <2>2, <2>3, <2>4, <2>5 DEF Next, Main, Worker
<1> QED
  BY <1>1, <1>2, Invariance, PTL DEF Spec, TaskSpec

-----------------------------------------------------------------------------
(* TransformPrepare                                                          *)

Computed == ccmmReady \/ lcmsReady

TypeInv ==
  /\ ccmmAllowed \in BOOLEAN /\ live \in BOOLEAN
  /\ srcProfile \in Profiles \cup {NULL} /\ dstProfile \in Profiles \cup {NULL}
  /\ requestedTonemap \in Tonemaps
  /\ ccmmReady \in BOOLEAN /\ lcmsReady \in BOOLEAN
  /\ tonemapEnabled \in BOOLEAN /\ luminanceScaleEnabled \in BOOLEAN

\* Which module was ready first decides what the shared fields may say.
ReadyInv ==
  /\ first = "none" => ~Computed
  /\ first = "ccmm" => ccmmReady
  /\ first = "lcms" => lcmsReady
  /\ first \in {"none", "ccmm", "lcms"}
  /\ lcmsReady /\ (first = "ccmm" \/ ~ccmmReady) => luminanceScaleEnabled
  /\ tonemapEnabled => luminanceScaleEnabled

TonemapExpected ==
  \/ requestedTonemap = "on"
  \/ requestedTonemap = "auto" /\ 1000 * Expected[1] > 1001 * Expected[2]

\* The shared fields follow from the two profiles, whichever module filled them in.
FieldsInv ==
  /\ Computed /\ Queryable =>
       /\ srcLuminanceScale = Luminance(srcProfile) /\ srcCurveScale = Implicit(srcProfile)
       /\ dstLuminanceScale = Luminance(dstProfile) /\ dstCurveScale = Implicit(dstProfile)
       /\ tonemapEnabled <=> TonemapExpected
       /\ ~luminanceScaleEnabled => Expected[1] = Expected[2]
  /\ Computed /\ ~HLGTagged => ccmmHLGLuminance = HLGLuminance

CurvesInv ==
  /\ ~ccmmReady => ccmmSrcEOTF = "none" /\ ccmmDstOETF = "none"
  /\ ccmmReady => /\ ccmmSrcEOTF = TransferFunction(srcProfile, "none")
                  /\ ccmmDstOETF = TransferFunction(dstProfile, "none")

HandlesInv ==
  /\ handles = IF lcmsReady THEN NewHandles ELSE {}
  /\ NoLeak

\* The last run did what ScaleAsAnswered, CurvesApplied and TonemapAsAsked say.
RunInv ==
  run # NULL =>
    /\ live
    /\ run.cmm = "lcms" => lcmsReady
    /\ run.cmm = "ccmm" =>
         /\ ccmmReady
         /\ \A p \in Sides : Friendly(p)
         /\ run.curves = <<TransferFunction(srcProfile, "none"),
                           TransferFunction(dstProfile, "none")>>
    /\ run.defined \/ \E p \in Sides : ~p.rgb
    /\ Queryable =>
         /\ Equal(run.answer, Expected)
         /\ Equal(run.factor, Expected) \/ Switched
         /\ run.tonemapped <=> TonemapExpected

PrepareInv == TypeInv /\ ReadyInv /\ FieldsInv /\ CurvesInv /\ HandlesInv /\ RunInv

-----------------------------------------------------------------------------
(* The two sides of a transform *)

\* What is queried of a profile that can be queried, is what it holds.
LEMMA SideOfQueried ==
  ASSUME NEW p \in Profiles \cup {NULL}, p = NULL \/ p.query = "ok", NEW q \in QueryOf(p)
  PROVE  /\ Side(q).luminance = Luminance(p) /\ Side(q).scale = Implicit(p)
         /\ Luminance(p) \in Nat /\ Implicit(p) \in Nat
         /\ Side(q).hlg <=> (p # NULL /\ p.luminance = 0 /\ p.curve = "hlg")
<1>1. CASE p = NULL
  BY <1>1 DEF QueryOf, Side, Luminance, Implicit
<1>2. CASE p # NULL
  <2>1. /\ p \in Profile /\ p.query = "ok" /\ p.luminance \in Nat /\ p.implicitScale \in Nat
    BY <1>2, TransformPrepareAssumption DEF Profile
  <2>2. q = [luminance |-> p.luminance, curve |-> p.curve, scale |-> p.implicitScale]
    BY <1>2, <2>1 DEF QueryOf, clProfileQuery
  <2>3. q # NULL
    <3>1. q \in [luminance: Nat, curve: Curves, scale: Nat]
      BY <2>1, <2>2 DEF Profile
    <3> QED
      BY <3>1, TransformPrepareAssumption
  <2> QED
    BY <1>2, <2>1, <2>2, <2>3, TransformPrepareAssumption DEF Side, Luminance, Implicit
<1> QED
  BY <1>1, <1>2

\* The multiplications of clTransformPrepare, whichever way they are bracketed.
LEMMA Products ==
  ASSUME NEW a \in Nat, NEW b \in Nat, NEW c \in Nat
  PROVE  c * a * b = c * (a * b) /\ a * b = b * a
OBVIOUS

\* PrepareScales, for profiles that can be queried.
LEMMA ScalesComputed ==
  ASSUME TypeInv, Queryable, NEW useCCMM \in BOOLEAN,
         NEW s \in QueryOf(srcProfile), NEW d \in QueryOf(dstProfile)
  PROVE  /\ Side(s).luminance = Luminance(srcProfile) /\ Side(s).scale = Implicit(srcProfile)
         /\ Side(d).luminance = Luminance(dstProfile) /\ Side(d).scale = Implicit(dstProfile)
         /\ TonemapWanted(Side(s), Side(d)) <=> TonemapExpected
         /\ ~ScaleNeeded(useCCMM, Side(s), Side(d)) => Expected[1] = Expected[2]
<1>1. /\ Side(s).luminance = Luminance(srcProfile) /\ Side(s).scale = Implicit(srcProfile)
      /\ Luminance(srcProfile) \in Nat /\ Implicit(srcProfile) \in Nat
  BY SideOfQueried DEF TypeInv, Queryable, Sides
<1>2. /\ Side(d).luminance = Luminance(dstProfile) /\ Side(d).scale = Implicit(dstProfile)
      /\ Luminance(dstProfile) \in Nat /\ Implicit(dstProfile) \in Nat
  BY SideOfQueried DEF TypeInv, Queryable, Sides
<1>3. /\ 1000 * Side(s).luminance * Side(s).scale = 1000 * Expected[1]
      /\ 1001 * Side(d).luminance * Side(d).scale = 1001 * Expected[2]
  BY <1>1, <1>2, Products DEF Expected
<1>4. TonemapWanted(Side(s), Side(d)) <=> TonemapExpected
  BY <1>3 DEF TonemapWanted, AutoTonemap, TonemapExpected
<1>5. ~ScaleNeeded(useCCMM, Side(s), Side(d)) => Expected[1] = Expected[2]
  BY <1>1, <1>2 DEF ScaleNeeded, Expected
<1> QED
  BY <1>1, <1>2, <1>4, <1>5

\* The luminance of HLG white is set when an HLG profile has no lumi tag.
LEMMA HLGComputed ==
  ASSUME TypeInv, ~HLGTagged, NEW s \in QueryOf(srcProfile), NEW d \in QueryOf(dstProfile)
  PROVE  HLGMaxLuminance(Side(s), Side(d)) = HLGLuminance
<1>1. PICK p \in Sides : p.query = "ok" /\ p.curve = "hlg" /\ p.luminance = 0
  BY DEF HLGTagged
<1>2. CASE p = srcProfile
  BY <1>1, <1>2, SideOfQueried DEF TypeInv, Sides, HLGMaxLuminance
<1>3. CASE p = dstProfile
  BY <1>1, <1>3, SideOfQueried DEF TypeInv, Sides, HLGMaxLuminance
<1> QED
  BY <1>1, <1>2, <1>3 DEF Sides

\* Times and Equal, for what the four factors of a run may be.
LEMMA FactorsEqual ==
  ASSUME NEW ls \in Nat, NEW is \in Nat, NEW ld \in Nat, NEW id \in Nat
  PROVE  LET expected == <<ls * is, ld * id>>
         IN  /\ Equal(<<is * ls, ld * id>>, expected)
             /\ Equal(Times(Times(One, Times(Times(<<is, 1>>, <<ls, ld * id>>), One)), One), expected)
             /\ Equal(Times(Times(<<is, 1>>, Times(Times(One, <<ls, ld * id>>), <<id, 1>>)),
                            <<1, id>>), expected)
             /\ expected[1] = expected[2] => Equal(Times(Times(One, One), One), expected)
<1>1. Equal(<<is * ls, ld * id>>, <<ls * is, ld * id>>)
  BY Products DEF Equal
<1>2. Times(Times(One, Times(Times(<<is, 1>>, <<ls, ld * id>>), One)), One) = <<is * ls, ld * id>>
  BY DEF Times, One
<1>3. Times(Times(<<is, 1>>, Times(Times(One, <<ls, ld * id>>), <<id, 1>>)), <<1, id>>)
        = <<is * (ls * id), (ld * id) * id>>
  BY DEF Times, One
<1>4. (is * (ls * id)) * (ld * id) = (ls * is) * ((ld * id) * id)
  OBVIOUS
<1>5. Equal(<<is * (ls * id), (ld * id) * id>>, <<ls * is, ld * id>>)
  BY <1>4 DEF Equal
<1>6. ls * is = ld * id => Equal(Times(Times(One, One), One), <<ls * is, ld * id>>)
  BY DEF Equal, Times, One
<1> QED
  BY <1>1, <1>2, <1>3, <1>5, <1>6

-----------------------------------------------------------------------------
(* Preparing keeps the invariant *)

\* What does not depend on the fields that are prepared.
LEMMA ArgumentsKept ==
  ASSUME UNCHANGED argVars
  PROVE  /\ live' = live /\ srcProfile' = srcProfile /\ dstProfile' = dstProfile
         /\ requestedTonemap' = requestedTonemap
         /\ Sides' = Sides /\ (Queryable' <=> Queryable) /\ Expected' = Expected
         /\ (TonemapExpected' <=> TonemapExpected) /\ (HLGTagged' <=> HLGTagged)
         /\ NewHandles' = NewHandles
BY DEF argVars, Sides, Queryable, Expected, TonemapExpected, HLGTagged, NewHandles

LEMMA PreparedReady ==
  ASSUME TypeInv, ReadyInv, UNCHANGED <<ccmmAllowed, argVars>>,
         NEW useCCMM \in BOOLEAN, Prepared(useCCMM)
  PROVE  /\ TypeInv' /\ ReadyInv' /\ Computed'
         /\ useCCMM => ccmmReady'
         /\ ~useCCMM => lcmsReady'
         /\ ccmmReady => ccmmReady'
         /\ lcmsReady => lcmsReady'
<1>1. CASE IF useCCMM THEN ~ccmmReady ELSE ~lcmsReady
  <2>1. PICK s \in QueryOf(srcProfile), d \in QueryOf(dstProfile) :
          SetScales(useCCMM, Side(s), Side(d))
    BY <1>1 DEF Prepared, PrepareScales
  <2>2. /\ tonemapEnabled' = TonemapWanted(Side(s), Side(d))
        /\ luminanceScaleEnabled' = ScaleNeeded(useCCMM, Side(s), Side(d))
        /\ tonemapEnabled' \in BOOLEAN /\ luminanceScaleEnabled' \in BOOLEAN
    BY <2>1 DEF SetScales, TonemapWanted, ScaleNeeded
  <2>3. tonemapEnabled' => luminanceScaleEnabled'
    BY <2>2 DEF ScaleNeeded
  <2>4. ~useCCMM => luminanceScaleEnabled'
    BY <2>2 DEF ScaleNeeded
  <2>5. CASE useCCMM
    BY <1>1, <2>2, <2>3, <2>5
    DEF Prepared, PrepareCCMM, ReadyInv, TypeInv, Computed, lcmsVars, argVars
  <2>6. CASE ~useCCMM
    BY <1>1, <2>2, <2>3, <2>4, <2>6
    DEF Prepared, PrepareLCMS, ReadyInv, TypeInv, Computed, ccmmVars, argVars
  <2> QED
    BY <2>5, <2>6
<1>2. CASE ~(IF useCCMM THEN ~ccmmReady ELSE ~lcmsReady)
  <2>1. UNCHANGED scaleVars
    BY <1>2 DEF Prepared, PrepareScales
  <2>2. CASE useCCMM
    BY <1>2, <2>1, <2>2
    DEF Prepared, PrepareCCMM, ReadyInv, TypeInv, Computed, scaleVars, lcmsVars, argVars
  <2>3. CASE ~useCCMM
    BY <1>2, <2>1, <2>3
    DEF Prepared, PrepareLCMS, ReadyInv, TypeInv, Computed, scaleVars, ccmmVars, argVars
  <2> QED
    BY <2>2, <2>3
<1> QED
  BY <1>1, <1>2

LEMMA PreparedFields ==
  ASSUME TypeInv, FieldsInv, UNCHANGED argVars, NEW useCCMM \in BOOLEAN, Prepared(useCCMM)
  PROVE  FieldsInv'
<1>1. CASE IF useCCMM THEN ~ccmmReady ELSE ~lcmsReady
  <2>1. PICK s \in QueryOf(srcProfile), d \in QueryOf(dstProfile) :
          SetScales(useCCMM, Side(s), Side(d))
    BY <1>1 DEF Prepared, PrepareScales
  <2>2. ASSUME Queryable
        PROVE  /\ srcLuminanceScale' = Luminance(srcProfile)
               /\ srcCurveScale' = Implicit(srcProfile)
               /\ dstLuminanceScale' = Luminance(dstProfile)
               /\ dstCurveScale' = Implicit(dstProfile)
               /\ tonemapEnabled' <=> TonemapExpected
               /\ ~luminanceScaleEnabled' => Expected[1] = Expected[2]
    BY <2>1, <2>2, ScalesComputed DEF SetScales
  <2>3. ~HLGTagged => ccmmHLGLuminance' = HLGLuminance
    BY <2>1, HLGComputed DEF SetScales
  <2> QED
    BY <2>2, <2>3, ArgumentsKept DEF FieldsInv
<1>2. CASE ~(IF useCCMM THEN ~ccmmReady ELSE ~lcmsReady)
  <2>1. UNCHANGED scaleVars /\ Computed
    BY <1>2 DEF Prepared, PrepareScales, Computed
  <2> QED
    BY <2>1, ArgumentsKept DEF FieldsInv, scaleVars
<1> QED
  BY <1>1, <1>2

LEMMA PreparedCurves ==
  ASSUME TypeInv, CurvesInv, UNCHANGED argVars, NEW useCCMM \in BOOLEAN, Prepared(useCCMM)
  PROVE  CurvesInv'
<1>1. CASE useCCMM
  BY <1>1 DEF Prepared, PrepareCCMM, CurvesInv, argVars, TypeInv
<1>2. CASE ~useCCMM
  BY <1>2 DEF Prepared, PrepareLCMS, CurvesInv, argVars, ccmmVars
<1> QED
  BY <1>1, <1>2

\* There are three handles at most.
LEMMA HandlesFinite ==
  /\ NewHandles \subseteq Handles
  /\ Cardinality(NewHandles) \in Nat /\ Cardinality({}) = 0
<1>1. IsFiniteSet(Handles)
  <2>1. /\ IsFiniteSet({}) /\ IsFiniteSet({} \cup {"lcmsXYZProfile"})
        /\ IsFiniteSet(({} \cup {"lcmsXYZProfile"}) \cup {"lcmsSrcToXYZ"})
        /\ IsFiniteSet((({} \cup {"lcmsXYZProfile"}) \cup {"lcmsSrcToXYZ"}) \cup {"lcmsXYZToDst"})
    BY FS_EmptySet, FS_AddElement
  <2>2. Handles = (({} \cup {"lcmsXYZProfile"}) \cup {"lcmsSrcToXYZ"}) \cup {"lcmsXYZToDst"}
    BY DEF Handles
  <2> QED
    BY <2>1, <2>2
<1>2. NewHandles \subseteq Handles
  BY DEF NewHandles
<1> QED
  BY <1>1, <1>2, FS_Subset, FS_CardinalityType, FS_EmptySet

LEMMA PreparedHandles ==
  ASSUME TypeInv, HandlesInv, live, UNCHANGED argVars, NEW useCCMM \in BOOLEAN, Prepared(useCCMM)
  PROVE  HandlesInv'
<1>1. CASE useCCMM \/ lcmsReady
  <2>1. UNCHANGED lcmsVars
    BY <1>1 DEF Prepared, PrepareCCMM, PrepareLCMS, lcmsVars, TypeInv
  <2> QED
    BY <2>1, ArgumentsKept DEF HandlesInv, NoLeak, lcmsVars
<1>2. CASE ~useCCMM /\ ~lcmsReady
  <2>1. /\ handles' = NewHandles /\ lcmsObjects' = lcmsObjects + Cardinality(NewHandles)
        /\ lcmsReady'
    BY <1>2 DEF Prepared, PrepareLCMS
  <2>2. lcmsObjects = 0
    BY <1>2, HandlesFinite DEF HandlesInv, NoLeak
  <2>3. lcmsObjects' = Cardinality(handles')
    BY <2>1, <2>2, HandlesFinite
  <2> QED
    BY <2>1, <2>3, ArgumentsKept DEF HandlesInv, NoLeak
<1> QED
  BY <1>1, <1>2

-----------------------------------------------------------------------------
(* What a run does *)

\* The factor a run applies, from the fields as they are prepared.
LEMMA FactorApplied ==
  ASSUME TypeInv, TypeInv', ReadyInv', FieldsInv', UNCHANGED argVars,
         Queryable, Computed', NEW useCCMM \in BOOLEAN,
         ~useCCMM => lcmsReady'
  PROVE  /\ Equal(LuminanceScale, Expected)
         /\ \/ Equal(Factor(useCCMM), Expected)
            \/ ~useCCMM /\ first' = "lcms" /\ ccmmReady' /\ ~luminanceScaleEnabled'
<1> DEFINE ls == Luminance(srcProfile)
           is == Implicit(srcProfile)
           ld == Luminance(dstProfile)
           id == Implicit(dstProfile)
<1>1. /\ srcLuminanceScale' = ls /\ srcCurveScale' = is
      /\ dstLuminanceScale' = ld /\ dstCurveScale' = id
      /\ ~luminanceScaleEnabled' => Expected[1] = Expected[2]
  BY ArgumentsKept DEF FieldsInv
<1>2. Expected = <<ls * is, ld * id>>
  BY DEF Expected
<1>3. ls \in Nat /\ is \in Nat /\ ld \in Nat /\ id \in Nat
  <2>1. \A p \in {srcProfile, dstProfile} : Luminance(p) \in Nat /\ Implicit(p) \in Nat
    BY TransformPrepareAssumption DEF TypeInv, Luminance, Implicit, Profile
  <2> QED
    BY <2>1
<1>4. LuminanceScale = <<ls * is, ld * id>>
  BY <1>1 DEF LuminanceScale
<1>5. Factor(useCCMM) =
        Times(Times(IF useCCMM THEN One ELSE <<is, 1>>,
                    IF luminanceScaleEnabled'
                      THEN Times(Times(IF useCCMM THEN <<is, 1>> ELSE One, <<ls, ld * id>>),
                                 IF useCCMM THEN One ELSE <<id, 1>>)
                      ELSE One),
              IF useCCMM THEN One ELSE <<1, id>>)
  BY <1>1 DEF Factor
<1> HIDE DEF ls, is, ld, id
<1>6. Equal(LuminanceScale, Expected)
  BY <1>2, <1>4 DEF Equal
<1>7. CASE useCCMM /\ luminanceScaleEnabled'
  BY <1>2, <1>3, <1>5, <1>6, <1>7, FactorsEqual
<1>8. CASE useCCMM /\ ~luminanceScaleEnabled'
  BY <1>1, <1>2, <1>3, <1>5, <1>6, <1>8, FactorsEqual
<1>9. CASE ~useCCMM /\ luminanceScaleEnabled'
  BY <1>2, <1>3, <1>5, <1>6, <1>9, FactorsEqual
<1>10. CASE ~useCCMM /\ ~luminanceScaleEnabled'
  <2>1. first' = "lcms" /\ ccmmReady'
    BY <1>10 DEF ReadyInv, TypeInv
  <2> QED
    BY <1>6, <1>10, <2>1
<1> QED
  BY <1>7, <1>8, <1>9, <1>10

\* LittleCMS refuses only profiles that are not RGB.
LEMMA RefusedIsNotRGB ==
  ASSUME NewHandles # Handles
  PROVE  \E p \in Sides : ~p.rgb
BY DEF NewHandles, Handles, Sides

LEMMA RunKeepsInv ==
  ASSUME PrepareInv, clTransformRun
  PROVE  PrepareInv'
<1> DEFINE useCCMM == clTransformUsesCCMM
<1>1. /\ useCCMM \in BOOLEAN /\ live /\ Prepared(useCCMM)
      /\ UNCHANGED ccmmAllowed /\ UNCHANGED argVars
  BY DEF clTransformRun, clTransformUsesCCMM
<1>2. useCCMM => \A p \in Sides : Friendly(p)
  BY DEF clTransformUsesCCMM, Sides
<1>3. CASE run' = NULL
  BY <1>1, <1>3, PreparedReady, PreparedFields, PreparedCurves, PreparedHandles
  DEF PrepareInv, RunInv
<1>4. CASE run' # NULL
  <2>1. run' = [cmm        |-> IF useCCMM THEN "ccmm" ELSE "lcms",
                defined    |-> useCCMM \/ handles' = Handles,
                factor     |-> Factor(useCCMM),
                answer     |-> LuminanceScale,
                tonemapped |-> luminanceScaleEnabled' /\ tonemapEnabled',
                curves     |-> Applied]
    BY <1>4 DEF clTransformRun
  <2> HIDE DEF useCCMM
  <2>2. /\ TypeInv' /\ ReadyInv' /\ FieldsInv' /\ CurvesInv' /\ HandlesInv' /\ Computed'
        /\ useCCMM => ccmmReady'
        /\ ~useCCMM => lcmsReady'
    BY <1>1, PreparedReady, PreparedFields, PreparedCurves, PreparedHandles DEF PrepareInv
  <2>3. /\ run'.cmm = "lcms" => ~useCCMM /\ lcmsReady'
        /\ run'.cmm = "ccmm" => useCCMM /\ ccmmReady'
    BY <2>1, <2>2
  <2>4. useCCMM => run'.curves = <<TransferFunction(srcProfile', "none"),
                                   TransferFunction(dstProfile', "none")>>
    BY <2>1, <2>2 DEF CurvesInv, Applied
  <2>5. run'.defined \/ \E p \in Sides : ~p.rgb
    <3>1. CASE useCCMM
      BY <2>1, <3>1
    <3>2. CASE ~useCCMM
      <4>1. handles' = NewHandles
        BY <1>1, <2>2, <3>2, ArgumentsKept DEF HandlesInv
      <4>2. handles' = Handles => run'.defined
        BY <2>1
      <4> QED
        BY <4>1, <4>2, RefusedIsNotRGB
    <3> QED
      BY <3>1, <3>2
  <2>6. ASSUME Queryable
        PROVE  /\ Equal(run'.answer, Expected)
               /\ \/ Equal(run'.factor, Expected)
                  \/ ~useCCMM /\ first' = "lcms" /\ ccmmReady' /\ ~luminanceScaleEnabled'
               /\ run'.tonemapped <=> TonemapExpected
    <3>1. run'.answer = LuminanceScale /\ run'.factor = Factor(useCCMM)
      BY <2>1
    <3>2. run'.tonemapped <=> TonemapExpected
      <4>1. run'.tonemapped <=> luminanceScaleEnabled' /\ tonemapEnabled'
        BY <2>1
      <4>2. tonemapEnabled' => luminanceScaleEnabled'
        BY <2>2 DEF ReadyInv
      <4>3. tonemapEnabled' <=> TonemapExpected
        BY <1>1, <2>2, <2>6, ArgumentsKept DEF FieldsInv
      <4> QED
        BY <4>1, <4>2, <4>3
    <3> QED
      BY <1>1, <2>2, <2>6, <3>1, <3>2, FactorApplied DEF PrepareInv
  <2>7. ~useCCMM => run'.cmm = "lcms"
    BY <2>1
  <2>8. RunInv'
    BY <1>1, <1>2, <2>3, <2>4, <2>5, <2>6, <2>7, ArgumentsKept DEF RunInv, Switched
  <2> QED
    BY <2>2, <2>8 DEF PrepareInv
<1> QED
  BY <1>3, <1>4

LEMMA PrepareKeepsInv ==
  ASSUME PrepareInv, clTransformPrepare
  PROVE  PrepareInv'
<1> DEFINE useCCMM == clTransformUsesCCMM
<1>1. /\ useCCMM \in BOOLEAN /\ live /\ Prepared(useCCMM) /\ run' = run
      /\ UNCHANGED ccmmAllowed /\ UNCHANGED argVars
  BY DEF clTransformPrepare, clTransformUsesCCMM
<1> HIDE DEF useCCMM
<1>2. /\ TypeInv' /\ ReadyInv' /\ FieldsInv' /\ CurvesInv' /\ HandlesInv'
      /\ ccmmReady => ccmmReady'
      /\ lcmsReady => lcmsReady'
  BY <1>1, PreparedReady, PreparedFields, PreparedCurves, PreparedHandles DEF PrepareInv
<1>3. ASSUME run # NULL, Switched
      PROVE  Switched'
  <2>1. ccmmReady /\ lcmsReady /\ first # "none"
    BY <1>3 DEF PrepareInv, RunInv, Switched
  <2>2. UNCHANGED <<luminanceScaleEnabled, first, ccmmReady>>
    <3>1. UNCHANGED scaleVars /\ first' = first
      BY <1>1, <2>1 DEF Prepared, PrepareScales
    <3>2. ccmmReady' = ccmmReady
      BY <1>2, <2>1 DEF PrepareInv, TypeInv
    <3> QED
      BY <3>1, <3>2 DEF scaleVars
  <2> QED
    BY <1>1, <1>3, <2>2 DEF Switched
<1>4. RunInv'
  BY <1>1, <1>2, <1>3, ArgumentsKept DEF PrepareInv, RunInv
<1> QED
  BY <1>2, <1>4 DEF PrepareInv

-----------------------------------------------------------------------------
(* Every step keeps the invariant *)

LEMMA PrepareInitInv == PrepareInit => PrepareInv
<1> SUFFICES ASSUME PrepareInit PROVE PrepareInv
  OBVIOUS
<1>1. TypeInv /\ ReadyInv
  BY DEF PrepareInit, TypeInv, ReadyInv, Computed, Tonemaps
<1>2. FieldsInv /\ CurvesInv /\ RunInv
  BY DEF PrepareInit, FieldsInv, CurvesInv, RunInv, Computed
<1>3. HandlesInv
  BY DEF PrepareInit, HandlesInv, NoLeak
<1> QED
  BY <1>1, <1>2, <1>3 DEF PrepareInv

LEMMA PrepareStepInv == PrepareInv /\ [PrepareNext]_prepareVars => PrepareInv'
<1> SUFFICES ASSUME PrepareInv, [PrepareNext]_prepareVars
             PROVE  PrepareInv'
  OBVIOUS
<1>1. ASSUME NEW s \in Profiles \cup {NULL}, NEW d \in Profiles \cup {NULL}, NEW t \in Tonemaps,
             clTransformCreate(s, d, t)
      PROVE  PrepareInv'
  <2>1. TypeInv' /\ ReadyInv'
    BY <1>1 DEF PrepareInv, TypeInv, ReadyInv, Computed, clTransformCreate, Zeroed
  <2>2. run = NULL /\ lcmsObjects = 0
    BY <1>1 DEF PrepareInv, RunInv, HandlesInv, NoLeak, clTransformCreate
  <2>3. FieldsInv' /\ CurvesInv' /\ RunInv'
    BY <1>1, <2>2 DEF FieldsInv, CurvesInv, RunInv, Computed, clTransformCreate, Zeroed
  <2>4. HandlesInv'
    BY <1>1, <2>2, HandlesFinite DEF HandlesInv, NoLeak, clTransformCreate, Zeroed
  <2> QED
    BY <2>1, <2>3, <2>4 DEF PrepareInv
<1>2. CASE AllowCCMM
  <2>1. /\ UNCHANGED <<argVars, scaleVars, ccmmVars, lcmsVars, run, first>>
        /\ ccmmAllowed' \in BOOLEAN
    BY <1>2 DEF AllowCCMM
  <2>2. TypeInv' /\ ReadyInv'
    BY <2>1 DEF PrepareInv, TypeInv, ReadyInv, Computed, argVars, scaleVars, ccmmVars, lcmsVars
  <2>3. FieldsInv' /\ CurvesInv' /\ HandlesInv'
    BY <2>1, ArgumentsKept
    DEF PrepareInv, FieldsInv, CurvesInv, HandlesInv, NoLeak, Computed, scaleVars, ccmmVars, lcmsVars
  <2>4. RunInv'
    BY <2>1, ArgumentsKept DEF PrepareInv, RunInv, Switched, scaleVars, ccmmVars, lcmsVars
  <2> QED
    BY <2>2, <2>3, <2>4 DEF PrepareInv
<1>3. CASE clTransformPrepare
  BY <1>3, PrepareKeepsInv
<1>4. CASE clTransformRun
  BY <1>4, RunKeepsInv
<1>5. CASE clTransformDestroy
  <2>1. /\ UNCHANGED <<ccmmAllowed, srcProfile, dstProfile, requestedTonemap, scaleVars, ccmmVars,
                       lcmsReady, handles, first>>
        /\ live /\ live' = FALSE /\ run' = NULL
        /\ lcmsObjects' = lcmsObjects - Cardinality(handles)
    BY <1>5 DEF clTransformDestroy
  <2>2. TypeInv' /\ ReadyInv' /\ RunInv'
    BY <2>1 DEF PrepareInv, TypeInv, ReadyInv, RunInv, Computed, scaleVars, ccmmVars
  <2>3. FieldsInv' /\ CurvesInv'
    BY <2>1 DEF PrepareInv, FieldsInv, CurvesInv, Computed, Queryable, Sides, Expected,
                TonemapExpected, HLGTagged, scaleVars, ccmmVars
  <2>4. HandlesInv'
    <3>1. handles' = IF lcmsReady' THEN NewHandles' ELSE {}
      BY <2>1 DEF PrepareInv, HandlesInv, NewHandles
    <3>2. lcmsObjects = Cardinality(handles) /\ Cardinality(handles) \in Nat
      BY <2>1, HandlesFinite DEF PrepareInv, HandlesInv, NoLeak
    <3>3. lcmsObjects' = 0
      BY <2>1, <3>2
    <3> QED
      BY <2>1, <3>1, <3>3 DEF HandlesInv, NoLeak
  <2> QED
    BY <2>2, <2>3, <2>4 DEF PrepareInv
<1>6. CASE UNCHANGED prepareVars
  <2>1. UNCHANGED <<ccmmAllowed, argVars, scaleVars, ccmmVars, lcmsVars, run, first>>
    BY <1>6 DEF prepareVars
  <2>2. TypeInv' /\ ReadyInv'
    BY <2>1 DEF PrepareInv, TypeInv, ReadyInv, Computed, argVars, scaleVars, ccmmVars, lcmsVars
  <2>3. FieldsInv' /\ CurvesInv' /\ HandlesInv'
    BY <2>1, ArgumentsKept
    DEF PrepareInv, FieldsInv, CurvesInv, HandlesInv, NoLeak, Computed, scaleVars, ccmmVars, lcmsVars
  <2>4. RunInv'
    BY <2>1, ArgumentsKept DEF PrepareInv, RunInv, Switched, scaleVars, ccmmVars, lcmsVars
  <2> QED
    BY <2>2, <2>3, <2>4 DEF PrepareInv
<1> QED
  BY <1>1, <1>2, <1>3, <1>4, <1>5, <1>6 DEF PrepareNext

-----------------------------------------------------------------------------
(* Theorems *)

\* The invariant holds in every reachable state.
THEOREM PrepareInvariance == PrepareSpec => []PrepareInv
BY PrepareInitInv, PrepareStepInv, PTL DEF PrepareSpec

\* The LittleCMS objects that exist are those the transform points to, none after it.
THEOREM NothingLeaks == PrepareSpec => []NoLeak
<1>1. PrepareInv => NoLeak
  BY DEF PrepareInv, HandlesInv
<1> QED
  BY <1>1, PrepareInvariance, PTL

\* Both modules scale luminance as clTransformGetLuminanceScale answers, for every
\* pair of profiles and whatever was prepared before, but for a transform that went
\* from LittleCMS to the CCMM and back.
THEOREM ScaleIsAsAnswered == PrepareSpec => []ScaleAsAnswered
<1>1. PrepareInv => ScaleAsAnswered
  BY DEF PrepareInv, RunInv, ScaleAsAnswered
<1> QED
  BY <1>1, PrepareInvariance, PTL

\* The CCMM runs with the curves of the two profiles, and only with profiles it knows.
THEOREM CurvesAreApplied == PrepareSpec => []CurvesApplied
<1>1. PrepareInv => CurvesApplied
  <2> SUFFICES ASSUME PrepareInv, run # NULL, run.cmm = "ccmm"
               PROVE  /\ \A p \in Sides : p.pqSignature \/ (p.query = "ok" /\ p.curve # "complex")
                      /\ run.curves = <<TransferFunction(srcProfile, "none"),
                                        TransferFunction(dstProfile, "none")>>
                      /\ HLGLuminanceKnown \/ HLGTagged
    BY DEF CurvesApplied
  <2>1. HLGTagged \/ ccmmHLGLuminance = HLGLuminance
    BY DEF PrepareInv, RunInv, FieldsInv, Computed
  <2> QED
    BY <2>1 DEF PrepareInv, RunInv, Friendly, HLGLuminanceKnown
<1> QED
  BY <1>1, PrepareInvariance, PTL

\* Luminance is tonemapped exactly when asked for, or when it does not fit.
THEOREM TonemapIsAsAsked == PrepareSpec => []TonemapAsAsked
<1>1. PrepareInv => TonemapAsAsked
  BY DEF PrepareInv, ReadyInv, RunInv, TonemapExpected, TonemapAsAsked
<1> QED
  BY <1>1, PrepareInvariance, PTL

=============================================================================
