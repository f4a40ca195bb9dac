---------------------------- MODULE ColorGrade_proofs ----------------------------
(***************************************************************************)
(* Proofs about ColorGrade, for any number of processors and of jobs, any  *)
(* range of gammas and any error terms.                                    *)
(***************************************************************************)
EXTENDS ColorGrade, TLAPS

\* The first slot whose thread is still to be joined.
FirstLive ==
  CASE pc = "spawn" -> 0
    [] pc = "join" -> joining
    [] pc = "fold" -> joining + 1
    [] OTHER -> tasksInFlight

\* The gamma of slot 0 in the batch being spawned or joined.
BatchFirst == IF pc = "spawn" THEN gammaInt - tasksInFlight
                              ELSE gammaInt - tasksInFlight + 1

\* The slots whose result has not been folded yet.
Pending(s) ==
  /\ pc \in {"spawn", "join", "fold"}
  /\ s < tasksInFlight
  /\ pc # "spawn" => s >= joining

\* Threads run in exactly the slots from FirstLive to tasksInFlight; the one
\* before them is joined and not yet destroyed while its result is folded.
SlotInv ==
  \A s \in Slots :
    IF FirstLive <= s /\ s < tasksInFlight
      THEN task[s] = "live" /\ thread[s] # "none"
      ELSE /\ thread[s] = "none"
           /\ task[s] = IF pc = "fold" /\ s = joining THEN "joined" ELSE "freed"

\* Slot s works on the s-th gamma of the batch, and once its thread has exited
\* (or was joined) its error term is the one of that gamma.
InfoInv ==
  \A s \in Slots :
    Pending(s) =>
      /\ infos[s].gammaInt = BatchFirst + s
      /\ thread[s] \in {"running", "exited"} => arg[s] = infos[s].gammaInt
      /\ thread[s] \in {"exited", "none"} => infos[s].outErrorTerm = err[infos[s].gammaInt]

LoopInv ==
  /\ pc \in {"luminance", "gamma"} => minErr = -1 /\ minGamma = 0
  /\ pc \in {"luminance", "gamma", "done"} => tasksInFlight = 0
  /\ pc = "spawn" => tasksInFlight < jobs /\ BatchFirst >= GammaFirst
  /\ pc \in {"join", "fold"} =>
       tasksInFlight > 0 /\ joining < tasksInFlight /\ BatchFirst >= GammaFirst

\* Where the answers come from.
AnswerInv ==
  /\ outLuminance = IF pc = "luminance" \/ request.luminance # 0
                      THEN request.luminance ELSE measured
  /\ pc \in {"luminance", "gamma"} => outGamma = request.gamma
  /\ pc \in {"spawn", "join", "fold"} => request.gamma = 0
  /\ pc = "done" =>
       /\ outGamma = IF minErr = -1 THEN request.gamma ELSE minGamma
       /\ minErr = -1 <=> request.gamma # 0

IInv == TypeOK /\ SlotInv /\ InfoInv /\ LoopInv /\ AnswerInv

-----------------------------------------------------------------------------

LEMMA ErrorTypes ==
  ASSUME NEW e \in GammaErrors, NEW g \in Gammas
  PROVE  e[g] \in ErrorTerms \cup {NaN} /\ e[g] # -1
BY GammaAssumption DEF GammaErrors, NaNErrors, Gammas

LEMMA InitInv == Init => IInv
<1> SUFFICES ASSUME Init PROVE IInv
  OBVIOUS
<1> USE SlotsAssumption, GammaAssumption
<1>1. TypeOK
  BY DEF Init, TaskInit, TypeOK, TaskTypeOK, EmptyInfo, Gammas
<1>2. SlotInv /\ InfoInv
  BY DEF Init, TaskInit, SlotInv, InfoInv, FirstLive, Pending
<1>3. LoopInv /\ AnswerInv
  BY DEF Init, LoopInv, AnswerInv
<1> QED
  BY <1>1, <1>2, <1>3 DEF IInv

LEMMA FindLuminanceInv == IInv /\ FindLuminance => IInv'
<1> SUFFICES ASSUME IInv, FindLuminance PROVE IInv'
  OBVIOUS
<1> USE DEF IInv, FindLuminance, searchVars, inputVars
<1>1. TypeOK'
  BY DEF TypeOK, TaskTypeOK
<1>2. SlotInv' /\ InfoInv'
  BY DEF SlotInv, InfoInv, FirstLive, Pending, LoopInv
<1>3. LoopInv' /\ AnswerInv'
  BY DEF TypeOK, LoopInv, AnswerInv
<1> QED
  BY <1>1, <1>2, <1>3

LEMMA UseRequestedGammaInv == IInv /\ UseRequestedGamma => IInv'
<1> SUFFICES ASSUME IInv, UseRequestedGamma PROVE IInv'
  OBVIOUS
<1> USE DEF IInv, UseRequestedGamma, searchVars, inputVars
<1>1. TypeOK'
  BY DEF TypeOK, TaskTypeOK
<1>2. SlotInv' /\ InfoInv'
  BY DEF SlotInv, InfoInv, FirstLive, Pending, LoopInv
<1>3. LoopInv' /\ AnswerInv'
  BY DEF LoopInv, AnswerInv
<1> QED
  BY <1>1, <1>2, <1>3

LEMMA StartSearchInv == IInv /\ StartSearch => IInv'
<1> SUFFICES ASSUME IInv, StartSearch PROVE IInv'
  OBVIOUS
<1> USE SlotsAssumption, GammaAssumption DEF IInv, StartSearch, searchVars, inputVars
<1>1. TypeOK'
  BY DEF TypeOK, TaskTypeOK, Gammas
<1>2. SlotInv' /\ InfoInv'
  BY DEF SlotInv, InfoInv, FirstLive, Pending, LoopInv
<1>3. LoopInv' /\ AnswerInv'
  BY DEF TypeOK, LoopInv, AnswerInv, BatchFirst
<1> QED
  BY <1>1, <1>2, <1>3

LEMMA SpawnTaskInv == IInv /\ SpawnTask => IInv'
<1> SUFFICES ASSUME IInv, SpawnTask PROVE IInv'
  OBVIOUS
<1> USE SlotsAssumption, GammaAssumption DEF IInv
<1>0. /\ tasksInFlight \in Slots /\ tasksInFlight < jobs /\ jobs <= TaskLimit
      /\ gammaInt \in Gammas /\ pc = "spawn"
  BY DEF TypeOK, LoopInv, SpawnTask
<1>1. TypeOK'
  <2>1. TaskTypeOK'
    BY <1>0 DEF TypeOK, TaskTypeOK, SpawnTask, clTaskCreate
  <2>2. infos' \in [Slots -> [gammaInt: Nat, outErrorTerm: ErrorTerms \cup {0, NaN}]]
    BY <1>0 DEF TypeOK, SpawnTask, Gammas
  <2>3. gammaInt' \in Gammas /\ tasksInFlight' \in 0 .. jobs
    BY <1>0 DEF TypeOK, SpawnTask, BatchReady, Gammas
  <2> QED
    BY <1>0, <2>1, <2>2, <2>3 DEF TypeOK, SpawnTask, inputVars
<1>2. SlotInv'
  <2> SUFFICES ASSUME NEW s \in Slots
               PROVE  IF FirstLive' <= s /\ s < tasksInFlight'
                        THEN task'[s] = "live" /\ thread'[s] # "none"
                        ELSE thread'[s] = "none" /\ task'[s] = "freed"
    BY <1>0 DEF SlotInv, SpawnTask
  <2>1. FirstLive' = 0 /\ tasksInFlight' = tasksInFlight + 1
    BY <1>0 DEF SpawnTask, FirstLive
  <2>2. CASE s = tasksInFlight
    BY <1>0, <2>1, <2>2 DEF SpawnTask, clTaskCreate, TypeOK, TaskTypeOK
  <2>3. CASE s # tasksInFlight
    <3>1. task'[s] = task[s] /\ thread'[s] = thread[s]
      BY <2>3 DEF SpawnTask, clTaskCreate, TypeOK, TaskTypeOK
    <3>2. FirstLive = 0 /\ tasksInFlight \in Nat /\ s \in Nat
      BY <1>0 DEF FirstLive, TypeOK
    <3>3. IF s < tasksInFlight
            THEN task[s] = "live" /\ thread[s] # "none"
            ELSE thread[s] = "none" /\ task[s] = "freed"
      BY <1>0, <3>2 DEF SlotInv
    <3> QED
      BY <2>1, <2>3, <3>1, <3>2, <3>3
  <2> QED
    BY <2>2, <2>3
<1>3. InfoInv'
  <2> SUFFICES ASSUME NEW s \in Slots, s < tasksInFlight'
               PROVE  /\ infos'[s].gammaInt = BatchFirst' + s
                      /\ thread'[s] \in {"running", "exited"} => arg'[s] = infos'[s].gammaInt
                      /\ thread'[s] \in {"exited", "none"} =>
                           infos'[s].outErrorTerm = err'[infos'[s].gammaInt]
    BY DEF InfoInv, Pending
  <2>0. err' = err /\ arg' = arg
    BY DEF SpawnTask, inputVars
  <2>1. BatchFirst' = BatchFirst
    <3>1. gammaInt \in Nat /\ tasksInFlight \in Nat /\ tasksInFlight' = tasksInFlight + 1
      BY <1>0 DEF SpawnTask, Gammas, TypeOK
    <3>2. \/ pc' = "join" /\ gammaInt' = gammaInt
          \/ pc' = "spawn" /\ gammaInt' = gammaInt + 1
      BY <1>0 DEF SpawnTask
    <3> QED
      BY <1>0, <3>1, <3>2 DEF BatchFirst
  <2>2. CASE s = tasksInFlight
    BY <1>0, <2>0, <2>1, <2>2 DEF SpawnTask, clTaskCreate, TypeOK, TaskTypeOK, BatchFirst, Gammas
  <2>3. CASE s # tasksInFlight
    <3>1. thread'[s] = thread[s] /\ infos'[s] = infos[s] /\ Pending(s)
      BY <1>0, <2>3 DEF SpawnTask, clTaskCreate, TypeOK, TaskTypeOK, Pending
    <3> QED
      BY <2>0, <2>1, <3>1 DEF InfoInv
  <2> QED
    BY <2>2, <2>3
<1>4. LoopInv'
  BY <1>0, SMTT(30) DEF SpawnTask, BatchReady, LoopInv, BatchFirst, TypeOK, Gammas, inputVars
<1>5. AnswerInv'
  BY <1>0 DEF SpawnTask, AnswerInv, inputVars
<1> QED
  BY <1>1, <1>2, <1>3, <1>4, <1>5

LEMMA JoinTaskInv == IInv /\ JoinTask => IInv'
<1> SUFFICES ASSUME IInv, JoinTask PROVE IInv'
  OBVIOUS
<1> USE SlotsAssumption, GammaAssumption DEF IInv
<1>0. /\ joining \in Slots /\ joining < tasksInFlight /\ pc = "join" /\ pc' = "fold"
      /\ UNCHANGED <<inputVars, outLuminance, outGamma, searchVars>>
  BY DEF TypeOK, LoopInv, JoinTask
<1>1. task[joining] = "live" /\ thread[joining] = "exited"
  BY <1>0 DEF SlotInv, FirstLive, JoinTask, clTaskJoin, CanJoin, TypeOK
<1>2. /\ task' = [task EXCEPT ![joining] = "joined"]
      /\ thread' = [thread EXCEPT ![joining] = "none"]
  BY <1>1 DEF JoinTask, clTaskJoin, JoinedThread
<1>3. TypeOK'
  BY <1>0, <1>2 DEF TypeOK, TaskTypeOK, searchVars, inputVars
<1>4. SlotInv'
  <2> SUFFICES ASSUME NEW s \in Slots
               PROVE  IF FirstLive' <= s /\ s < tasksInFlight'
                        THEN task'[s] = "live" /\ thread'[s] # "none"
                        ELSE /\ thread'[s] = "none"
                             /\ task'[s] = IF s = joining' THEN "joined" ELSE "freed"
    BY <1>0 DEF SlotInv
  <2>1. /\ FirstLive = joining /\ FirstLive' = joining + 1
        /\ joining' = joining /\ tasksInFlight' = tasksInFlight
    BY <1>0 DEF FirstLive, searchVars
  <2>2. CASE s = joining
    BY <1>0, <1>2, <2>1, <2>2 DEF TypeOK, TaskTypeOK
  <2>3. CASE s # joining
    <3>1. task'[s] = task[s] /\ thread'[s] = thread[s]
      BY <1>2, <2>3 DEF TypeOK, TaskTypeOK
    <3>2. IF joining <= s /\ s < tasksInFlight
            THEN task[s] = "live" /\ thread[s] # "none"
            ELSE thread[s] = "none" /\ task[s] = "freed"
      BY <1>0, <2>1 DEF SlotInv
    <3> QED
      BY <1>0, <2>1, <2>3, <3>1, <3>2 DEF TypeOK
  <2> QED
    BY <2>2, <2>3
<1>5. InfoInv'
  BY <1>0, <1>1, <1>2 DEF InfoInv, Pending, BatchFirst, TypeOK, TaskTypeOK, searchVars, inputVars
<1>6. LoopInv' /\ AnswerInv'
  BY <1>0 DEF LoopInv, AnswerInv, BatchFirst, searchVars, inputVars
<1> QED
  BY <1>3, <1>4, <1>5, <1>6

LEMMA FoldTaskInv == IInv /\ FoldTask => IInv'
<1> SUFFICES ASSUME IInv, FoldTask PROVE IInv'
  OBVIOUS
<1> USE SlotsAssumption, GammaAssumption DEF IInv
<1>0. /\ joining \in Slots /\ joining < tasksInFlight /\ tasksInFlight \in 1 .. jobs
      /\ jobs \in 1 .. TaskLimit /\ pc = "fold"
      /\ UNCHANGED <<inputVars, outLuminance, infos, arg>>
  BY DEF TypeOK, LoopInv, FoldTask
<1>1. /\ task' = [task EXCEPT ![joining] = "freed"]
      /\ thread' = thread
      /\ thread[joining] = "none"
  BY <1>0 DEF SlotInv, FirstLive, FoldTask, clTaskDestroy, JoinedThread, TypeOK, TaskTypeOK
<1>2. infos[joining].gammaInt = gammaInt - tasksInFlight + 1 + joining
      /\ infos[joining].outErrorTerm = err[infos[joining].gammaInt]
  BY <1>0, <1>1 DEF InfoInv, Pending, BatchFirst, TypeOK, Gammas
<1>3. infos[joining].gammaInt \in Gammas
  BY <1>0, <1>2 DEF LoopInv, BatchFirst, TypeOK, Gammas
<1>4. /\ minErr' \in ErrorTerms \cup {NaN} \cup {0} /\ minErr' # -1 /\ minGamma' \in Nat
  <2>1. err[infos[joining].gammaInt] \in ErrorTerms \cup {NaN}
        /\ err[infos[joining].gammaInt] # -1
    BY <1>3, ErrorTypes DEF TypeOK
  <2> QED
    BY <1>2, <1>3, <2>1 DEF FoldTask, Improves, TypeOK, Gammas
<1>5. TypeOK'
  <2>1. TaskTypeOK'
    BY <1>0, <1>1 DEF TypeOK, TaskTypeOK
  <2>2. pc' \in {"join", "spawn", "done"} /\ joining' \in 0 .. jobs
    BY <1>0 DEF FoldTask, TypeOK
  <2>3. gammaInt' \in Gammas
    BY <1>0, SMTT(30) DEF FoldTask, TypeOK, Gammas
  <2>4. tasksInFlight' \in 0 .. jobs
    BY <1>0, SMTT(30) DEF FoldTask, TypeOK
  <2>5. outGamma' \in Nat
    BY <1>4 DEF FoldTask, TypeOK
  <2> QED
    BY <1>0, <1>4, <2>1, <2>2, <2>3, <2>4, <2>5 DEF TypeOK, inputVars
<1>6. SlotInv'
  <2> SUFFICES ASSUME NEW s \in Slots
               PROVE  IF FirstLive' <= s /\ s < tasksInFlight'
                        THEN task'[s] = "live" /\ thread'[s] # "none"
                        ELSE thread'[s] = "none" /\ task'[s] = "freed"
    BY DEF SlotInv, FoldTask
  <2>1. IF joining + 1 <= s /\ s < tasksInFlight
          THEN task'[s] = "live" /\ thread'[s] # "none"
          ELSE thread'[s] = "none" /\ task'[s] = "freed"
    BY <1>0, <1>1 DEF SlotInv, FirstLive, TypeOK, TaskTypeOK
  <2>2. CASE pc' = "join"
    <3>1. FirstLive' = joining + 1 /\ tasksInFlight' = tasksInFlight
      BY <2>2 DEF FirstLive, FoldTask
    <3> QED
      BY <2>1, <3>1
  <2>3. CASE pc' # "join"
    <3>1. joining + 1 = tasksInFlight /\ tasksInFlight' = 0
      BY <2>3 DEF FoldTask
    <3>2. ~(s < 0)
      OBVIOUS
    <3> QED
      BY <1>0, <2>1, <3>1, <3>2 DEF TypeOK
  <2> QED
    BY <2>2, <2>3
<1>7. InfoInv'
  <2> SUFFICES ASSUME NEW s \in Slots, Pending(s)'
               PROVE  /\ infos'[s].gammaInt = BatchFirst' + s
                      /\ thread'[s] \in {"running", "exited"} => arg'[s] = infos'[s].gammaInt
                      /\ thread'[s] \in {"exited", "none"} =>
                           infos'[s].outErrorTerm = err'[infos'[s].gammaInt]
    BY DEF InfoInv
  <2>1. pc' = "join" /\ tasksInFlight' = tasksInFlight /\ gammaInt' = gammaInt
    BY <1>0 DEF FoldTask, Pending, TypeOK
  <2>2. Pending(s) /\ BatchFirst' = BatchFirst
    BY <1>0, <2>1 DEF FoldTask, Pending, BatchFirst, TypeOK
  <2> QED
    BY <1>0, <1>1, <2>2 DEF InfoInv, inputVars
<1>8. LoopInv'
  <2>1. BatchFirst >= GammaFirst /\ BatchFirst = gammaInt - tasksInFlight + 1
    BY <1>0 DEF LoopInv, BatchFirst
  <2>2. CASE pc' = "join"
    <3>1. BatchFirst' = BatchFirst /\ tasksInFlight' = tasksInFlight /\ joining' < tasksInFlight'
      BY <1>0, <2>1, <2>2 DEF BatchFirst, FoldTask
    <3> QED
      BY <1>0, <2>1, <2>2, <3>1 DEF LoopInv
  <2>3. CASE pc' = "spawn"
    <3>1. tasksInFlight' = 0 /\ gammaInt' = gammaInt + 1
      BY <2>3 DEF FoldTask
    <3>2. jobs' = jobs
      BY DEF FoldTask, inputVars
    <3> QED
      BY <1>0, <2>3, <3>1, <3>2 DEF LoopInv, BatchFirst, TypeOK, Gammas
  <2>4. CASE pc' = "done"
    <3>1. tasksInFlight' = 0
      BY <2>4 DEF FoldTask
    <3> QED
      BY <2>4, <3>1 DEF LoopInv
  <2> QED
    BY <2>2, <2>3, <2>4 DEF FoldTask
<1>9. AnswerInv'
  <2>1. request.gamma = 0 /\ request' = request /\ measured' = measured
    BY <1>0 DEF AnswerInv, inputVars
  <2>2. pc' = "done" => outGamma' = minGamma'
    BY DEF FoldTask
  <2>3. pc' \in {"join", "spawn", "done"}
    BY DEF FoldTask
  <2> QED
    BY <1>0, <1>4, <2>1, <2>2, <2>3 DEF AnswerInv
<1> QED
  BY <1>5, <1>6, <1>7, <1>8, <1>9

LEMMA ReadInfoInv == ASSUME NEW s \in Slots PROVE IInv /\ ReadInfo(s) => IInv'
<1> SUFFICES ASSUME IInv, ReadInfo(s) PROVE IInv'
  OBVIOUS
<1> USE SlotsAssumption, GammaAssumption DEF IInv, ReadInfo, ThreadStart
<1>1. TypeOK'
  BY DEF TypeOK, TaskTypeOK, inputVars
<1>2. SlotInv'
  BY DEF SlotInv, FirstLive, TypeOK, TaskTypeOK
<1>3. InfoInv'
  BY DEF InfoInv, Pending, BatchFirst, TypeOK, TaskTypeOK, inputVars
<1>4. LoopInv' /\ AnswerInv'
  BY DEF LoopInv, AnswerInv, BatchFirst, inputVars
<1> QED
  BY <1>1, <1>2, <1>3, <1>4

LEMMA WriteErrorTermInv == ASSUME NEW s \in Slots PROVE IInv /\ WriteErrorTerm(s) => IInv'
<1> SUFFICES ASSUME IInv, WriteErrorTerm(s) PROVE IInv'
  OBVIOUS
<1> USE SlotsAssumption, GammaAssumption DEF IInv, WriteErrorTerm, ThreadExit
<1>1. Pending(s)
  BY SMTT(30) DEF SlotInv, FirstLive, Pending, TypeOK, LoopInv
<1>2. arg[s] = infos[s].gammaInt /\ arg[s] \in Gammas
  <2>1. arg[s] = infos[s].gammaInt /\ infos[s].gammaInt = BatchFirst + s
    BY <1>1 DEF InfoInv
  <2>2. s \in Nat /\ s < tasksInFlight /\ BatchFirst >= GammaFirst
    BY <1>1 DEF Pending, LoopInv
  <2>3. gammaInt \in Nat /\ gammaInt <= GammaLast /\ tasksInFlight \in Nat
    BY SMTT(30) DEF TypeOK, Gammas
  <2>4. BatchFirst \in Int /\ BatchFirst <= gammaInt - tasksInFlight + 1
    BY <2>3 DEF BatchFirst
  <2>5. BatchFirst + s \in GammaFirst .. GammaLast
    <3> HIDE DEF IInv
    <3> QED BY <2>2, <2>3, <2>4
  <2> QED
    BY <2>1, <2>5 DEF Gammas
<1>3. TypeOK'
  <2>1. err[arg[s]] \in ErrorTerms \cup {NaN}
    BY <1>2, ErrorTypes DEF TypeOK
  <2>2. infos' \in [Slots -> [gammaInt: Nat, outErrorTerm: ErrorTerms \cup {0, NaN}]]
    <3>1. infos[s] \in [gammaInt: Nat, outErrorTerm: ErrorTerms \cup {0, NaN}]
      BY DEF TypeOK
    <3>2. [infos[s] EXCEPT !.outErrorTerm = err[arg[s]]]
            \in [gammaInt: Nat, outErrorTerm: ErrorTerms \cup {0, NaN}]
      BY <2>1, <3>1
    <3> QED
      BY <3>2 DEF TypeOK
  <2>3. TaskTypeOK'
    BY DEF TypeOK, TaskTypeOK
  <2> QED
    BY <2>2, <2>3 DEF TypeOK, inputVars
<1>4. SlotInv'
  BY DEF SlotInv, FirstLive, TypeOK, TaskTypeOK
<1>5. InfoInv'
  <2> SUFFICES ASSUME NEW t \in Slots, Pending(t)
               PROVE  /\ infos'[t].gammaInt = BatchFirst + t
                      /\ thread'[t] \in {"running", "exited"} => arg[t] = infos'[t].gammaInt
                      /\ thread'[t] \in {"exited", "none"} =>
                           infos'[t].outErrorTerm = err[infos'[t].gammaInt]
    BY DEF InfoInv, Pending, BatchFirst, inputVars
  <2>1. CASE t = s
    <3>1. infos'[t].gammaInt = infos[t].gammaInt /\ infos'[t].outErrorTerm = err[arg[t]]
      BY <2>1 DEF TypeOK
    <3> QED
      BY <1>2, <2>1, <3>1 DEF InfoInv
  <2>2. CASE t # s
    <3>1. infos'[t] = infos[t] /\ thread'[t] = thread[t]
      BY <2>2 DEF TypeOK, TaskTypeOK
    <3> QED
      BY <3>1 DEF InfoInv
  <2> QED
    BY <2>1, <2>2
<1>6. LoopInv' /\ AnswerInv'
  BY DEF LoopInv, AnswerInv, BatchFirst, inputVars
<1> QED
  BY <1>3, <1>4, <1>5, <1>6

LEMMA StepInv == IInv /\ [Next]_vars => IInv'
<1>1. IInv /\ UNCHANGED vars => IInv'
  <2> SUFFICES ASSUME IInv, UNCHANGED vars PROVE IInv'
    OBVIOUS
  <2> USE DEF IInv, vars
  <2>1. TypeOK'
    BY DEF TypeOK, TaskTypeOK
  <2>2. SlotInv' /\ InfoInv'
    BY DEF SlotInv, InfoInv, FirstLive, Pending, BatchFirst
  <2>3. LoopInv' /\ AnswerInv'
    BY DEF LoopInv, AnswerInv, BatchFirst
  <2> QED
    BY <2>1, <2>2, <2>3
<1> QED
  BY <1>1, FindLuminanceInv, UseRequestedGammaInv, StartSearchInv, SpawnTaskInv,
     JoinTaskInv, FoldTaskInv, ReadInfoInv, WriteErrorTermInv
     DEF Next, Main, Worker, Returned

-----------------------------------------------------------------------------

\* The invariant holds in every reachable state.
THEOREM Invariance == Spec => []IInv
BY InitInv, StepInv, PTL DEF Spec

\* The variables keep their types, loop counters and slots their ranges.
THEOREM TypeCorrect == Spec => []TypeOK
<1>1. IInv => TypeOK
  BY DEF IInv
<1> QED
  BY <1>1, Invariance, PTL

\* A thread of the search never outlives its clTask.
THEOREM ThreadsAreOwned == Spec => []NoOrphanThread
<1>1. IInv => NoOrphanThread
  BY DEF IInv, SlotInv, NoOrphanThread
<1> QED
  BY <1>1, Invariance, PTL

\* While a thread exists its gamma is not replaced by the one of a next task.
THEOREM InfosAreNotReused == Spec => InfoNotReused
<1>1. IInv /\ [Next]_vars =>
        [\A s \in Slots : thread[s] # "none" => infos'[s].gammaInt = infos[s].gammaInt]_vars
  <2> SUFFICES ASSUME IInv, Next, NEW s \in Slots, thread[s] # "none"
               PROVE  infos'[s].gammaInt = infos[s].gammaInt
    OBVIOUS
  <2>1. CASE SpawnTask
    <3>1. pc = "spawn" /\ infos' = [infos EXCEPT ![tasksInFlight] =
                                      [gammaInt |-> gammaInt, outErrorTerm |-> 0]]
      BY <2>1 DEF SpawnTask
    <3>2. tasksInFlight \in Slots /\ tasksInFlight \in Nat
      BY <3>1, SlotsAssumption DEF IInv, TypeOK, LoopInv
    <3>3. FirstLive = 0
      BY <3>1 DEF FirstLive
    <3>4. s < tasksInFlight
      BY <3>2, <3>3, SlotsAssumption DEF IInv, SlotInv
    <3> QED
      BY <3>1, <3>2, <3>4, SlotsAssumption DEF IInv, TypeOK
  <2>2. CASE \E t \in Slots : WriteErrorTerm(t)
    BY <2>2 DEF WriteErrorTerm, IInv, TypeOK
  <2>3. CASE infos' = infos
    BY <2>3
  <2>4. SpawnTask \/ (\E t \in Slots : WriteErrorTerm(t)) \/ infos' = infos
    BY DEF Next, Main, Worker, Returned, FindLuminance, UseRequestedGamma, StartSearch,
           JoinTask, FoldTask, ReadInfo, searchVars, vars
  <2> QED
    BY <2>1, <2>2, <2>3, <2>4
<1> QED
  BY <1>1, Invariance, PTL DEF Spec, InfoNotReused

-----------------------------------------------------------------------------
(* Refinement: the threads implement the sequential scan of GammaScan.       *)

LEMMA FoldTaskTries == IInv /\ FoldTask => Scan!Try
<1> SUFFICES ASSUME IInv, FoldTask PROVE Scan!Try
  OBVIOUS
<1> USE SlotsAssumption, GammaAssumption
<1>1. /\ pc = "fold" /\ joining \in Slots /\ joining < tasksInFlight
      /\ tasksInFlight \in Nat /\ gammaInt \in Nat /\ joining \in Nat
      /\ err' = err /\ gammaInt <= GammaLast
  BY DEF IInv, TypeOK, LoopInv, FoldTask, inputVars, Gammas
<1>2. Folding = gammaInt - tasksInFlight + 1 + joining
  BY <1>1 DEF Folding
<1>3. Folding \in Gammas
  <2>1. gammaInt - tasksInFlight + 1 >= GammaFirst
    BY <1>1 DEF IInv, LoopInv, BatchFirst
  <2> QED
    BY <1>1, <1>2, <2>1 DEF Gammas
<1>4. thread[joining] = "none"
  BY <1>1 DEF IInv, SlotInv, FirstLive
<1>5. infos[joining].gammaInt = Folding /\ infos[joining].outErrorTerm = err[Folding]
  BY <1>1, <1>2, <1>4 DEF IInv, InfoInv, Pending, BatchFirst
<1>6. /\ minErr' = IF Improves(minErr, err[Folding]) THEN err[Folding] ELSE minErr
      /\ minGamma' = IF Improves(minErr, err[Folding]) THEN Folding ELSE minGamma
  BY <1>5 DEF FoldTask
<1>7. minErr' # -1
  BY <1>3, <1>6, ErrorTypes DEF IInv, TypeOK, Improves
<1>8. Folding' = Folding + 1
  <2>1. CASE pc' = "join"
    <3>1. tasksInFlight' = tasksInFlight /\ gammaInt' = gammaInt /\ joining' = joining + 1
      BY <2>1 DEF FoldTask
    <3> QED
      BY <1>1, <1>2, <2>1, <3>1 DEF Folding
  <2>2. CASE pc' = "spawn"
    <3>1. joining + 1 = tasksInFlight /\ tasksInFlight' = 0 /\ gammaInt' = gammaInt + 1
      BY <2>2 DEF FoldTask
    <3> QED
      BY <1>1, <1>2, <2>2, <3>1 DEF Folding
  <2>3. CASE pc' = "done"
    <3>1. joining + 1 = tasksInFlight /\ gammaInt = GammaLast
      BY <2>3 DEF FoldTask
    <3> QED
      BY <1>1, <1>2, <1>7, <2>3, <3>1 DEF Folding
  <2> QED
    BY <2>1, <2>2, <2>3 DEF FoldTask
<1> QED
  BY <1>1, <1>3, <1>6, <1>8 DEF Scan!Try, Scan!Gammas, Scan!Improves, Scan!GreaterThan,
     Gammas, Improves, GreaterThan

\* Every other step is invisible to the scan.
LEMMA OthersStutter == IInv /\ [Next]_vars => FoldTask \/ UNCHANGED Scan!scanVars
<1> SUFFICES ASSUME IInv, [Next]_vars, ~FoldTask PROVE UNCHANGED Scan!scanVars
  OBVIOUS
<1> USE DEF Scan!scanVars
<1>1. UNCHANGED <<err, minErr, minGamma>>
  BY DEF Next, Main, Worker, Returned, FindLuminance, UseRequestedGamma, StartSearch,
         SpawnTask, JoinTask, ReadInfo, WriteErrorTerm, inputVars, searchVars, vars
<1>2. CASE FindLuminance \/ UseRequestedGamma
  BY <1>1, <1>2 DEF FindLuminance, UseRequestedGamma, Folding
<1>3. CASE StartSearch
  <2>1. /\ pc = "gamma" /\ pc' = "spawn" /\ gammaInt' = GammaFirst
        /\ tasksInFlight' = 0 /\ minErr = -1
    BY <1>3 DEF StartSearch, IInv, LoopInv
  <2> QED
    BY <1>1, <2>1, GammaAssumption DEF Folding
<1>4. CASE SpawnTask
  <2>1. gammaInt \in Nat /\ tasksInFlight \in Nat /\ tasksInFlight' = tasksInFlight + 1
        /\ pc = "spawn" /\ joining' = 0
    BY <1>4, GammaAssumption DEF SpawnTask, IInv, TypeOK, Gammas
  <2>2. \/ pc' = "join" /\ gammaInt' = gammaInt
        \/ pc' = "spawn" /\ gammaInt' = gammaInt + 1
    BY <1>4, <2>1 DEF SpawnTask
  <2>3. Folding' = Folding
    BY <2>1, <2>2 DEF Folding
  <2> QED
    BY <1>1, <2>3
<1>5. CASE JoinTask
  <2>1. pc = "join" /\ pc' = "fold" /\ UNCHANGED <<gammaInt, tasksInFlight, joining>>
    BY <1>5 DEF JoinTask, searchVars
  <2>2. Folding' = Folding
    BY <2>1 DEF Folding
  <2> QED
    BY <1>1, <2>2
<1>6. CASE (\E s \in Slots : Worker(s)) \/ UNCHANGED vars
  <2>1. UNCHANGED <<pc, gammaInt, tasksInFlight, joining, minErr>>
    BY <1>1, <1>6 DEF Worker, ReadInfo, WriteErrorTerm, vars
  <2>2. Folding' = Folding
    BY <2>1 DEF Folding
  <2> QED
    BY <1>1, <2>2
<1> QED
  BY <1>2, <1>3, <1>4, <1>5, <1>6 DEF Next, Main, Returned

\* Every gamma is folded once, in increasing order, with its own error term,
\* whatever the batches and the interleaving of the threads.
THEOREM Refinement == Spec => ScanImplemented
<1>1. Init => Scan!ScanInit
  BY GammaAssumption DEF Init, Scan!ScanInit, Folding, GammaErrors, Scan!GammaErrors,
     NaNErrors, Scan!NaNErrors, Gammas, Scan!Gammas
<1>2. IInv /\ [Next]_vars => [Scan!Try]_Scan!scanVars
  BY FoldTaskTries, OthersStutter
<1> QED
  BY <1>1, <1>2, Invariance, PTL DEF Spec, ScanImplemented, Scan!ScanSpec

-----------------------------------------------------------------------------
(* The sequential scan finds the best gamma.                                 *)

\* The inductive invariant: before the first gamma nothing is known; after it
\* minGamma is the best of those tried, and minErr its error.
ScanInv ==
  /\ err \in Scan!GammaErrors
  /\ Folding \in GammaFirst .. (GammaLast + 1)
  /\ \/ Folding = GammaFirst /\ minErr = -1 /\ minGamma = 0
     \/ /\ Folding > GammaFirst
        /\ Scan!IsBestBelow(minGamma, Folding)
        /\ minErr = err[minGamma]

\* Either every error is a number or none is.
LEMMA ErrorDichotomy ==
  ASSUME NEW e \in Scan!GammaErrors
  PROVE  \/ \A g \in Scan!Gammas : e[g] \in Nat
         \/ \A g \in Scan!Gammas : e[g] = NaN
BY GammaAssumption DEF Scan!GammaErrors, Scan!NaNErrors, Scan!Gammas

LEMMA ScanInitInv == Scan!ScanInit => ScanInv
BY GammaAssumption DEF Scan!ScanInit, ScanInv

LEMMA TryKeepsInv == ScanInv /\ Scan!Try => ScanInv'
<1> SUFFICES ASSUME ScanInv, Scan!Try
             PROVE  ScanInv'
  OBVIOUS
<1> USE GammaAssumption
<1>1. Folding \in Scan!Gammas /\ Folding' = Folding + 1 /\ err' = err
  BY DEF Scan!Try
<1>2. err' \in Scan!GammaErrors /\ Folding' \in GammaFirst .. (GammaLast + 1) /\ Folding' > GammaFirst
  BY <1>1 DEF ScanInv, Scan!Gammas
<1>3. CASE \A g \in Scan!Gammas : err[g] = NaN
  <2>1. CASE Folding = GammaFirst
    <3>1. minErr' = err[Folding] /\ minGamma' = Folding
      BY <2>1 DEF ScanInv, Scan!Try, Scan!Improves, Scan!IsBestBelow
    <3> QED
      BY <1>1, <1>2, <1>3, <2>1, <3>1 DEF ScanInv, Scan!IsBestBelow, Scan!Gammas, Scan!GreaterThan
  <2>2. CASE Folding # GammaFirst
    <3>1. minGamma \in Scan!Gammas /\ minErr = NaN /\ Scan!IsBestBelow(minGamma, Folding)
      BY <1>1, <1>3, <2>2 DEF ScanInv, Scan!IsBestBelow, Scan!Gammas
    <3>2. minErr' = minErr /\ minGamma' = minGamma
      BY <3>1 DEF Scan!Try, Scan!Improves, Scan!GreaterThan
    <3>3. Scan!IsBestBelow(minGamma, Folding + 1)
      BY <1>1, <1>3, <3>1 DEF Scan!IsBestBelow, Scan!Gammas, Scan!GreaterThan
    <3> QED
      BY <1>1, <1>2, <1>3, <3>1, <3>2, <3>3 DEF ScanInv, Scan!IsBestBelow
  <2> QED
    BY <2>1, <2>2
<1>4. CASE \A g \in Scan!Gammas : err[g] \in Nat
  <2>1. CASE Folding = GammaFirst
    <3>1. minErr' = err[Folding] /\ minGamma' = Folding
      BY <2>1 DEF ScanInv, Scan!Try, Scan!Improves, Scan!IsBestBelow
    <3> QED
      BY <1>1, <1>2, <1>4, <2>1, <3>1 DEF ScanInv, Scan!IsBestBelow, Scan!Gammas, Scan!GreaterThan
  <2>2. CASE Folding # GammaFirst
    <3>1. /\ minGamma \in Scan!Gammas /\ minGamma < Folding
          /\ minErr = err[minGamma] /\ minErr \in Nat
          /\ Scan!IsBestBelow(minGamma, Folding)
      BY <1>1, <1>4, <2>2 DEF ScanInv, Scan!IsBestBelow, Scan!Gammas
    <3>2. CASE minErr > err[Folding]
      <4>1. minErr' = err[Folding] /\ minGamma' = Folding
        BY <1>1, <1>4, <3>1, <3>2 DEF Scan!Try, Scan!Improves, Scan!GreaterThan
      <4>2. Scan!IsBestBelow(Folding, Folding + 1)
        BY <1>1, <1>4, <3>1, <3>2 DEF Scan!IsBestBelow, Scan!Gammas, Scan!GreaterThan
      <4> QED
        BY <1>1, <1>2, <4>1, <4>2 DEF ScanInv, Scan!IsBestBelow
    <3>3. CASE ~(minErr > err[Folding])
      <4>1. minErr' = minErr /\ minGamma' = minGamma
        BY <1>1, <1>4, <3>1, <3>3 DEF Scan!Try, Scan!Improves, Scan!GreaterThan
      <4>2. Scan!IsBestBelow(minGamma, Folding + 1)
        BY <1>1, <1>4, <3>1, <3>3 DEF Scan!IsBestBelow, Scan!Gammas, Scan!GreaterThan
      <4> QED
        BY <1>1, <1>2, <3>1, <4>1, <4>2 DEF ScanInv, Scan!IsBestBelow
    <3> QED
      BY <3>2, <3>3
  <2> QED
    BY <2>1, <2>2
<1>5. err \in Scan!GammaErrors
  BY DEF ScanInv
<1> QED
  BY <1>3, <1>4, <1>5, ErrorDichotomy

LEMMA ScanInvariance == Scan!ScanSpec => []ScanInv
<1>1. ScanInv /\ UNCHANGED Scan!scanVars => ScanInv'
  BY DEF ScanInv, Scan!scanVars, Scan!IsBestBelow, Scan!GreaterThan
<1> QED
  BY ScanInitInv, TryKeepsInv, <1>1, PTL DEF Scan!ScanSpec

\* The scan keeps the best of the gammas tried: minErr is -1 until the first one.
THEOREM ScanFindsBest == Scan!ScanSpec => []MinIsBest
<1>1. ScanInv => MinIsBest
  BY DEF ScanInv, MinIsBest
<1> QED
  BY <1>1, ScanInvariance, PTL

\* The minimum kept is the best of all the gammas folded so far.
THEOREM BestOfFolded == Spec => []MinIsBest
BY Refinement, ScanFindsBest, PTL DEF ScanImplemented

\* What clPixelMathColorGrade hands back, and that it leaves no thread behind.
THEOREM AnswerIsRight == Spec => []Answered
<1>1. IInv => Answered
  <2> SUFFICES ASSUME IInv, pc = "done"
               PROVE  /\ outGamma = IF minErr = -1 THEN request.gamma ELSE minGamma
                      /\ minErr = -1 <=> request.gamma # 0
                      /\ outLuminance = IF request.luminance = 0
                                          THEN measured ELSE request.luminance
                      /\ \A s \in Slots : task[s] = "freed" /\ thread[s] = "none"
    BY DEF Answered
  <2>1. \A s \in Slots : task[s] = "freed" /\ thread[s] = "none"
    <3>1. FirstLive = 0 /\ tasksInFlight = 0
      BY DEF IInv, LoopInv, FirstLive
    <3>2. \A s \in Slots : ~(0 <= s /\ s < 0)
      BY SlotsAssumption
    <3> QED
      BY <3>1, <3>2 DEF IInv, SlotInv
  <2> QED
    BY <2>1 DEF IInv, AnswerInv
<1> QED
  BY <1>1, Invariance, PTL
=============================================================================
