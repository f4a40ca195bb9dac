------------------------------- MODULE ColorGrade -------------------------------
(***************************************************************************)
(* clPixelMathColorGrade (lib/src/pixelmath_grade.c), called by            *)
(* clImageColorGrade for "convert --autograde": finds the largest          *)
(* luminance of the image unless one was requested, then the gamma with    *)
(* the least quantization error, trying the gammas on batches of C->jobs   *)
(* threads.  The threads write their result into infos[], the main thread  *)
(* joins them in order and folds each result into the minimum.             *)
(***************************************************************************)
EXTENDS Task, GammaErrors

CONSTANTS TaskLimit,      \* clTaskLimit(): the processors of the machine
          MaxLuminance    \* bound on the luminances enumerated, in nits

ASSUME SlotsAssumption ==
  /\ TaskLimit \in Nat \ {0}
  /\ Slots = 0 .. (TaskLimit - 1)
  /\ MaxLuminance \in Nat

VARIABLES pc, jobs,
          err,              \* the error term gammaErrorTerm computes for each gamma
          measured,         \* luminance of the brightest channel value, as white
          request,          \* what outLuminance and outGamma hold on entry (0: nothing)
          outLuminance, outGamma,
          gammaInt, tasksInFlight, joining,
          infos,            \* infos[s]: the clGammaErrorTermTask of slot s
          arg,              \* arg[s]: the gamma thread s read from infos[s]
          minErr, minGamma

searchVars == <<gammaInt, tasksInFlight, joining, infos, arg, minErr, minGamma>>
inputVars == <<jobs, err, measured, request>>
vars == <<task, thread, pc, jobs, err, measured, request, outLuminance, outGamma,
          gammaInt, tasksInFlight, joining, infos, arg, minErr, minGamma>>

\* The gammas below this one have been folded into minErr and minGamma.
Folding ==
  CASE pc = "spawn" -> gammaInt - tasksInFlight
    [] pc \in {"join", "fold"} -> gammaInt - tasksInFlight + 1 + joining
    [] OTHER -> IF minErr = -1 THEN GammaFirst ELSE GammaLast + 1

Scan == INSTANCE GammaScan WITH next <- Folding

EmptyInfo == [gammaInt |-> 0, outErrorTerm |-> 0]

TypeOK ==
  /\ TaskTypeOK
  /\ pc \in {"luminance", "gamma", "spawn", "join", "fold", "done"}
  /\ jobs \in 1 .. TaskLimit
  /\ err \in GammaErrors
  /\ measured \in Nat
  /\ request \in [luminance: Nat, gamma: Nat]
  /\ outLuminance \in Nat
  /\ outGamma \in Nat
  /\ gammaInt \in Gammas
  /\ tasksInFlight \in 0 .. jobs
  /\ joining \in 0 .. jobs
  /\ infos \in [Slots -> [gammaInt: Nat, outErrorTerm: ErrorTerms \cup {0, NaN}]]
  /\ arg \in [Slots -> Nat]
  /\ minErr \in ErrorTerms \cup {-1, 0, NaN}
  /\ minGamma \in Nat

Init ==
  /\ TaskInit
  /\ pc = "luminance"
  /\ jobs \in 1 .. TaskLimit
  /\ err \in GammaErrors
  /\ measured \in 0 .. MaxLuminance
  /\ request \in [luminance: 0 .. MaxLuminance, gamma: {0} \cup Gammas]
  /\ outLuminance = request.luminance
  /\ outGamma = request.gamma
  /\ gammaInt = GammaFirst
  /\ tasksInFlight = 0
  /\ joining = 0
  /\ infos = [s \in Slots |-> EmptyInfo]
  /\ arg = [s \in Slots |-> 0]
  /\ minErr = -1
  /\ minGamma = 0

-----------------------------------------------------------------------------
(* The main thread *)

\* Mutant: measures although the caller asked for a luminance.
AlwaysMeasure ==
  /\ pc = "luminance"
  /\ pc' = "gamma"
  /\ outLuminance' = measured
  /\ UNCHANGED <<task, thread, inputVars, outGamma, searchVars>>

\* "Find max luminance": measured with a transform of one pixel, unless the
\* caller asked for a luminance.
FindLuminance ==
  /\ pc = "luminance"
  /\ pc' = "gamma"
  /\ outLuminance' = IF outLuminance = 0 THEN measured ELSE outLuminance
  /\ UNCHANGED <<task, thread, inputVars, outGamma, searchVars>>

UseRequestedGamma ==
  /\ pc = "gamma"
  /\ outGamma # 0
  /\ pc' = "done"
  /\ UNCHANGED <<task, thread, inputVars, outLuminance, outGamma, searchVars>>

StartSearch ==
  /\ pc = "gamma"
  /\ outGamma = 0
  /\ pc' = "spawn"
  /\ gammaInt' = GammaFirst
  /\ UNCHANGED <<task, thread, inputVars, outLuminance, outGamma,
                 tasksInFlight, joining, infos, arg, minErr, minGamma>>

\* Mutant: ">" lets a batch grow one task beyond the jobs.
BatchOverfull(inFlight) == inFlight > jobs \/ gammaInt = GammaLast

\* The batch is full, or there is no gamma left to try.
BatchReady(inFlight) == inFlight = jobs \/ gammaInt = GammaLast

\* One iteration of the gamma loop up to the joins.
SpawnTask ==
  /\ pc = "spawn"
  /\ infos' = [infos EXCEPT ![tasksInFlight] =
                 [gammaInt |-> gammaInt, outErrorTerm |-> 0]]
  /\ clTaskCreate(tasksInFlight)
  /\ tasksInFlight' = tasksInFlight + 1
  /\ joining' = 0
  /\ IF BatchReady(tasksInFlight + 1)
       THEN pc' = "join" /\ UNCHANGED gammaInt
       ELSE gammaInt' = gammaInt + 1 /\ UNCHANGED pc
  /\ UNCHANGED <<inputVars, outLuminance, outGamma, arg, minErr, minGamma>>

\* clTaskJoin(tasks[i]): blocks until thread i has left its result.
JoinTask ==
  /\ pc = "join"
  /\ clTaskJoin(joining)
  /\ pc' = "fold"
  /\ UNCHANGED <<inputVars, outLuminance, outGamma, searchVars>>

\* Folds result i, destroys its task, and goes on with the next task, the next
\* batch, or the end of the search.
FoldTask ==
  /\ pc = "fold"
  /\ LET info == infos[joining]
     IN  /\ minErr' = IF Improves(minErr, info.outErrorTerm) THEN info.outErrorTerm ELSE minErr
         /\ minGamma' = IF Improves(minErr, info.outErrorTerm) THEN info.gammaInt ELSE minGamma
  /\ clTaskDestroy(joining)
  /\ joining' = joining + 1
  /\ \/ /\ joining + 1 < tasksInFlight
        /\ pc' = "join"
        /\ UNCHANGED <<tasksInFlight, gammaInt, outGamma>>
     \/ /\ joining + 1 = tasksInFlight
        /\ gammaInt < GammaLast
        /\ pc' = "spawn"
        /\ tasksInFlight' = 0
        /\ gammaInt' = gammaInt + 1
        /\ UNCHANGED outGamma
     \/ /\ joining + 1 = tasksInFlight
        /\ gammaInt = GammaLast
        /\ pc' = "done"
        /\ tasksInFlight' = 0
        /\ outGamma' = minGamma'
        /\ UNCHANGED gammaInt
  /\ UNCHANGED <<inputVars, outLuminance, infos, arg>>

-----------------------------------------------------------------------------
(* The threads: gammaErrorTermTaskFunc(&infos[s]) *)

ReadInfo(s) ==
  /\ ThreadStart(s)
  /\ arg' = [arg EXCEPT ![s] = infos[s].gammaInt]
  /\ UNCHANGED <<pc, inputVars, outLuminance, outGamma,
                 gammaInt, tasksInFlight, joining, infos, minErr, minGamma>>

\* Mutant: the thread uses the loop variable instead of its own argument.
WriteSharedGamma(s) ==
  /\ ThreadExit(s)
  /\ infos' = [infos EXCEPT ![s].outErrorTerm = err[gammaInt]]
  /\ UNCHANGED <<pc, inputVars, outLuminance, outGamma,
                 gammaInt, tasksInFlight, joining, arg, minErr, minGamma>>

WriteErrorTerm(s) ==
  /\ ThreadExit(s)
  /\ infos' = [infos EXCEPT ![s].outErrorTerm = err[arg[s]]]
  /\ UNCHANGED <<pc, inputVars, outLuminance, outGamma,
                 gammaInt, tasksInFlight, joining, arg, minErr, minGamma>>

-----------------------------------------------------------------------------

Main == FindLuminance \/ UseRequestedGamma \/ StartSearch
          \/ SpawnTask \/ JoinTask \/ FoldTask

Worker(s) == ReadInfo(s) \/ WriteErrorTerm(s)

Returned == pc = "done" /\ UNCHANGED vars

Next == Main \/ (\E s \in Slots : Worker(s)) \/ Returned

\* The operating system schedules every runnable thread.
Spec == Init /\ [][Next]_vars

FairSpec == Spec /\ WF_vars(Main) /\ \A s \in Slots : WF_vars(Worker(s))

-----------------------------------------------------------------------------
(* Properties.  TaskSpec and NoOrphanThread of Task are checked as well.     *)

\* Whatever the number of jobs and however the threads interleave, the minimum
\* kept by clPixelMathColorGrade is the best of all the gammas folded so far:
\* a later equal error never replaces an earlier one.
MinIsBest == minErr # -1 => Scan!IsBestBelow(minGamma, Folding)

\* When clPixelMathColorGrade returns, a requested gamma or luminance is
\* untouched, one left open holds the best gamma or the luminance measured, and
\* every thread and clTask of the search is gone before tasks and infos are freed.
Answered ==
  pc = "done" =>
    /\ outGamma = IF minErr = -1 THEN request.gamma ELSE minGamma
    /\ (minErr = -1) <=> (request.gamma # 0)
    /\ outLuminance = IF request.luminance = 0 THEN measured ELSE request.luminance
    /\ \A s \in Slots : task[s] = "freed" /\ thread[s] = "none"

\* infos[s] belongs to thread s from its creation to its join: the main thread
\* does not reuse it for a next gamma before.
InfoNotReused ==
  [][\A s \in Slots :
       thread[s] # "none" => infos'[s].gammaInt = infos[s].gammaInt]_vars

\* The batches of threads implement the sequential scan: every gamma is folded
\* once, in increasing order, with the error term of that very gamma.
ScanImplemented == Scan!ScanSpec

\* The search ends: no join waits for a thread that was never started.
Terminates == <>(pc = "done")
=============================================================================
