---------------------------------- MODULE Task ----------------------------------
(***************************************************************************)
(* lib/src/task.c: a clTask is one native thread that runs one function.   *)
(* The client keeps clTask pointers in an array; Slots are the positions   *)
(* of that array.  task[s] is the clTask structure tasks[s] points to,     *)
(* thread[s] the native thread started for it: they are kept apart because *)
(* freeing the structure does not stop the thread.                         *)
(***************************************************************************)
EXTENDS Naturals

CONSTANT Slots

VARIABLES task,     \* "freed" also when it was never allocated
          thread    \* "none" also when it has been joined

taskVars == <<task, thread>>

TaskTypeOK ==
  /\ task \in [Slots -> {"freed", "live", "joined"}]
  /\ thread \in [Slots -> {"none", "created", "running", "exited"}]

TaskInit ==
  /\ task = [s \in Slots |-> "freed"]
  /\ thread = [s \in Slots |-> "none"]

-----------------------------------------------------------------------------
(* Creator side *)

\* Mutant: the native thread could not be started, and nobody noticed.
TaskCreateUnchecked(s) ==
  /\ task' = [task EXCEPT ![s] = "live"]
  /\ UNCHANGED thread

\* Allocates the structure and starts its thread.  The client overwrites the
\* pointer it held in this slot, whatever that pointed to.
clTaskCreate(s) ==
  /\ task' = [task EXCEPT ![s] = "live"]
  /\ thread' = [thread EXCEPT ![s] = "created"]

\* nativeTaskJoin returns once the thread has exited; a second join returns at once.
CanJoin(s) ==
  \/ task[s] = "joined"
  \/ task[s] = "live" /\ thread[s] = "exited"

\* The thread is gone after nativeTaskJoin.
JoinedThread(s) == IF task[s] = "joined" THEN thread[s] ELSE "none"

\* Mutant: sets the joined flag without waiting for the thread.
TaskJoinWithoutWait(s) ==
  /\ task[s] # "freed"
  /\ task' = [task EXCEPT ![s] = "joined"]
  /\ UNCHANGED thread

clTaskJoin(s) ==
  /\ CanJoin(s)
  /\ task' = [task EXCEPT ![s] = "joined"]
  /\ thread' = [thread EXCEPT ![s] = JoinedThread(s)]

\* Mutant: joins but forgets to free.
TaskDestroyLeaks(s) == clTaskJoin(s)

\* Joins, then frees the structure.
clTaskDestroy(s) ==
  /\ CanJoin(s)
  /\ task' = [task EXCEPT ![s] = "freed"]
  /\ thread' = [thread EXCEPT ![s] = JoinedThread(s)]

-----------------------------------------------------------------------------
(* Thread side: taskThreadProc.  The function reads its arguments when it    *)
(* starts and has left its result when it exits.                             *)

ThreadStart(s) ==
  /\ thread[s] = "created"
  /\ thread' = [thread EXCEPT ![s] = "running"]
  /\ UNCHANGED task

ThreadExit(s) ==
  /\ thread[s] = "running"
  /\ thread' = [thread EXCEPT ![s] = "exited"]
  /\ UNCHANGED task

-----------------------------------------------------------------------------
(* What the component promises its clients, and asks of them: the protocol   *)
(* of one slot.  A client never overwrites a pointer it has not freed.       *)

TaskNext ==
  \E s \in Slots :
    \/ task[s] = "freed" /\ clTaskCreate(s)
    \/ clTaskJoin(s)
    \/ clTaskDestroy(s)
    \/ ThreadStart(s)
    \/ ThreadExit(s)

\* Every step of a client respects the protocol of its task slots: no live task
\* is overwritten (leaked), none is freed before its thread has exited, and
\* none is joined or destroyed after it was freed.
TaskSpec == TaskInit /\ [][TaskNext]_taskVars

\* A thread never outlives its clTask: taskThreadProc dereferences the structure
\* that clTaskDestroy frees.
NoOrphanThread == \A s \in Slots : thread[s] # "none" => task[s] = "live"
=============================================================================
