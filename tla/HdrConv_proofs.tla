------------------------------- MODULE HdrConv_proofs -------------------------------
(***************************************************************************)
(* What the watcher of HdrConv never does, for any number of screenshots,  *)
(* writes, tries, queued notifications and sessions: theorems of safety    *)
(* only.                                                                   *)
(***************************************************************************)
EXTENDS HdrConv, TLAPS

Handling == pc \in {"size", "read", "encode", "copy"}

\* A screenshot nobody opened yet is not there; one that is saved in one go is
\* whole as soon as it is closed.
FileInv(f) ==
  /\ sessions[f] = 0 => saver[f] = "absent" /\ avif[f] = None
  /\ InOneGo(f) /\ saver[f] = "closed" => written[f] = Full
  /\ InOneGo(f) => avif[f] \in {None, Full}

\* The screenshot that is converted was opened before; if once only, its saver is
\* done with it, and what was read of it is all of it.
LoopInv ==
  /\ pc = "size" => saver[file] = "closed"
  /\ Handling => sessions[file] # 0
  /\ Handling /\ InOneGo(file) => saver[file] # "open"
  /\ pc = "encode" => snapshot # 0
  /\ pc = "encode" /\ InOneGo(file) => snapshot = Full
  /\ pc = "copy" => avif[file] # None

\* What was remembered and what was copied was converted before.
DoneInv ==
  /\ last # None => avif[last] # None
  /\ clipboard \in Files => avif[clipboard] # None

IInv == TypeOK /\ (\A f \in Files : FileInv(f)) /\ LoopInv /\ DoneInv

-----------------------------------------------------------------------------

LEMMA InitInv == Init => IInv
<1> SUFFICES ASSUME Init PROVE IInv
  OBVIOUS
<1>1. TypeOK
  BY HdrConvAssumption DEF Init, TypeOK
<1>2. \A f \in Files : FileInv(f)
  BY DEF Init, FileInv, InOneGo
<1>3. LoopInv /\ DoneInv
  BY HdrConvAssumption DEF Init, LoopInv, Handling, DoneInv
<1> QED
  BY <1>1, <1>2, <1>3 DEF IInv

\* A notification is queued, or lost.
LEMMA NotifiedTyped ==
  ASSUME NEW name \in Files \cup {Avif},
         queue \in Seq(Files \cup {Avif}), Len(queue) <= QueueMax + 1
  PROVE  Notified(name) \in Seq(Files \cup {Avif}) /\ Len(Notified(name)) <= QueueMax + 1
BY HdrConvAssumption DEF Notified

LEMMA ElementTyped ==
  ASSUME NEW S, NEW s \in Seq(S), NEW i \in DOMAIN s
  PROVE  s[i] \in S
OBVIOUS

\* The record the loop is at is one that was delivered, or the zeroes that follow.
LEMMA RecordTyped ==
  ASSUME buffer \in Seq([name : Files \cup {Avif}, more : BOOLEAN])
  PROVE  Record.name \in Files \cup {Avif, None} /\ Record.more \in BOOLEAN
<1>1. CASE pos \in DOMAIN buffer
  <2>1. buffer[pos] \in [name : Files \cup {Avif}, more : BOOLEAN]
    BY <1>1, ElementTyped
  <2>2. Record = buffer[pos]
    BY <1>1 DEF Record
  <2> QED
    BY <2>1, <2>2
<1>2. CASE pos \notin DOMAIN buffer
  BY <1>2 DEF Record, Zero
<1> QED
  BY <1>1, <1>2

LEMMA DeliveredTyped ==
  ASSUME queue \in Seq(Files \cup {Avif}),
         buffer \in Seq([name : Files \cup {Avif}, more : BOOLEAN])
  PROVE  Delivered \in Seq([name : Files \cup {Avif}, more : BOOLEAN])
<1> DEFINE n == IF Len(queue) > Len(buffer) THEN Len(queue) ELSE Len(buffer)
           Entries == [name : Files \cup {Avif}, more : BOOLEAN]
<1>1. /\ n \in Nat /\ Len(queue) \in Nat /\ Len(buffer) \in Nat
      /\ \A i \in 1 .. n : i <= Len(queue) \/ i <= Len(buffer)
  OBVIOUS
<1>2. /\ \A i \in 1 .. Len(queue) : queue[i] \in Files \cup {Avif}
      /\ \A i \in 1 .. Len(buffer) : buffer[i] \in Entries
  <2>1. DOMAIN queue = 1 .. Len(queue) /\ DOMAIN buffer = 1 .. Len(buffer)
    OBVIOUS
  <2> QED
    BY <2>1, ElementTyped
<1>3. ASSUME NEW i \in 1 .. n
      PROVE  (IF i <= Len(queue) THEN [name |-> queue[i], more |-> i < Len(queue)]
                                 ELSE buffer[i]) \in Entries
  <2>1. CASE i <= Len(queue)
    <3>1. queue[i] \in Files \cup {Avif} /\ (i < Len(queue)) \in BOOLEAN
      BY <1>1, <1>2, <2>1
    <3> QED
      BY <2>1, <3>1
  <2>2. CASE ~(i <= Len(queue))
    <3>1. i \in 1 .. Len(buffer)
      BY <1>1, <2>2
    <3> QED
      BY <1>2, <2>2, <3>1
  <2> QED
    BY <2>1, <2>2
<1>4. Delivered \in [1 .. n -> Entries]
  BY <1>3 DEF Delivered
<1> HIDE DEF n, Entries
<1>5. Delivered \in Seq(Entries)
  BY <1>1, <1>4
<1> QED
  BY <1>5 DEF Entries

LEMMA TypeStep ==
  ASSUME TypeOK, LoopInv, [Next]_vars
  PROVE  TypeOK'
<1> USE DEF TypeOK
<1>1. CASE \E f \in Files : Save(f) \/ Remove(f)
  <2>1. PICK f \in Files : Save(f) \/ Remove(f)
    BY <1>1
  <2>2. /\ saver' \in [Files -> {"absent", "open", "closed"}]
        /\ written' \in [Files -> 0 .. Full] /\ sessions' \in [Files -> Nat]
    <3>1. CASE Save(f)
      BY <3>1 DEF Save
    <3>2. CASE Remove(f)
      <4>1. 0 \in 0 .. Full
        BY HdrConvAssumption
      <4> QED
        BY <3>2, <4>1 DEF Remove
    <3> QED
      BY <2>1, <3>1, <3>2
  <2> QED
    BY <2>1, <2>2 DEF Save, Remove
<1>2. ASSUME NEW f \in Files, Write(f)
      PROVE  TypeOK'
  <2>1. queue' \in Seq(Files \cup {Avif}) /\ Len(queue') <= QueueMax + 1
    BY <1>2, NotifiedTyped DEF Write
  <2>2. written' \in [Files -> 0 .. Full]
    BY <1>2, HdrConvAssumption DEF Write
  <2> QED
    BY <1>2, <2>1, <2>2 DEF Write
<1>3. ASSUME NEW f \in Files, Close(f)
      PROVE  TypeOK'
  <2>1. queue' \in Seq(Files \cup {Avif}) /\ Len(queue') <= QueueMax + 1
    BY <1>3, NotifiedTyped DEF Close
  <2> QED
    BY <1>3, <2>1 DEF Close
<1>4. CASE OtherCopies
  BY <1>4 DEF OtherCopies, saverVars
<1>5. CASE Listen
  <2>1. buffer' \in Seq([name : Files \cup {Avif}, more : BOOLEAN])
    BY <1>5, DeliveredTyped DEF Listen
  <2> QED
    BY <1>5, <2>1, HdrConvAssumption DEF Listen, saverVars
<1>6. CASE ListenOverflow
  BY <1>6, HdrConvAssumption DEF ListenOverflow, saverVars
<1>7. CASE EntrySkipped \/ EntryTaken
  BY <1>7, HdrConvAssumption DEF EntrySkipped, EntryTaken, IsNew, saverVars
<1>8. CASE TryAgain
  <2>1. tries' \in 0 .. MaxTries
    BY <1>8, HdrConvAssumption DEF TryAgain, TriesLeft
  <2> QED
    BY <1>8, <2>1 DEF TryAgain, saverVars
<1>9. CASE OpenFails \/ OpenSucceeds \/ CheckSize
  BY <1>9 DEF OpenFails, LastAfterFailure, OpenSucceeds, CheckSize, saverVars
<1>10. CASE Read \/ ReadFails
  BY <1>10 DEF Read, ReadFails, LastAfterFailure, saverVars
<1>11. CASE Encode
  <2>1. queue' \in Seq(Files \cup {Avif}) /\ Len(queue') <= QueueMax + 1
    BY <1>11, NotifiedTyped DEF Encode
  <2>2. avif' \in [Files -> 1 .. Full \cup {None}]
    <3>1. snapshot \in 1 .. Full
      BY <1>11, HdrConvAssumption DEF Encode, LoopInv
    <3> QED
      BY <1>11, <3>1 DEF Encode
  <2> QED
    BY <1>11, <2>1, <2>2 DEF Encode, saverVars
<1>12. CASE Copy
  BY <1>12 DEF Copy, saverVars
<1>13. CASE NextEntry
  <2>1. pos' \in Nat \ {0} /\ tries' \in 0 .. MaxTries /\ snapshot' \in 0 .. Full
    BY <1>13, HdrConvAssumption DEF NextEntry, NextPosition
  <2> QED
    BY <1>13, <2>1 DEF NextEntry, saverVars
<1>14. CASE UNCHANGED vars
  BY <1>14 DEF vars, saverVars
<1> QED
  BY <1>1, <1>2, <1>3, <1>4, <1>5, <1>6, <1>7, <1>8, <1>9, <1>10, <1>11, <1>12, <1>13, <1>14
  DEF Next, Watcher, Saver

LEMMA FileStep ==
  ASSUME TypeOK, LoopInv, [Next]_vars, NEW g \in Files, FileInv(g)
  PROVE  FileInv(g)'
<1> USE DEF FileInv, InOneGo
<1>1. ASSUME NEW f \in Files, Save(f)
      PROVE  FileInv(g)'
  BY <1>1 DEF Save, TypeOK
<1>2. ASSUME NEW f \in Files, Write(f)
      PROVE  FileInv(g)'
  BY <1>2 DEF Write, TypeOK
<1>3. ASSUME NEW f \in Files, Close(f)
      PROVE  FileInv(g)'
  BY <1>3, HdrConvAssumption DEF Close, TypeOK
<1>4. ASSUME NEW f \in Files, Remove(f)
      PROVE  FileInv(g)'
  BY <1>4 DEF Remove, TypeOK
<1>5. CASE OtherCopies \/ Listen \/ ListenOverflow \/ EntrySkipped \/ EntryTaken \/ TryAgain
  BY <1>5 DEF OtherCopies, Listen, ListenOverflow, EntrySkipped, EntryTaken, TryAgain, saverVars
<1>6. CASE OpenFails \/ OpenSucceeds \/ CheckSize \/ Read \/ ReadFails
  BY <1>6 DEF OpenFails, OpenSucceeds, CheckSize, Read, ReadFails, saverVars
<1>7. CASE Encode
  BY <1>7 DEF Encode, LoopInv, Handling, TypeOK, saverVars
<1>8. CASE Copy \/ NextEntry
  BY <1>8 DEF Copy, NextEntry, saverVars
<1>9. CASE UNCHANGED vars
  BY <1>9 DEF vars, saverVars
<1> QED
  BY <1>1, <1>2, <1>3, <1>4, <1>5, <1>6, <1>7, <1>8, <1>9 DEF Next, Watcher, Saver

LEMMA LoopStep ==
  ASSUME TypeOK, \A f \in Files : FileInv(f), LoopInv, [Next]_vars
  PROVE  LoopInv'
<1> USE DEF LoopInv, Handling, InOneGo, TypeOK
<1>1. ASSUME NEW f \in Files, Save(f)
      PROVE  LoopInv'
  BY <1>1 DEF Save, HandleHeld
<1>2. ASSUME NEW f \in Files, Write(f)
      PROVE  LoopInv'
  BY <1>2 DEF Write
<1>3. ASSUME NEW f \in Files, Close(f)
      PROVE  LoopInv'
  BY <1>3 DEF Close
<1>4. ASSUME NEW f \in Files, Remove(f)
      PROVE  LoopInv'
  BY <1>4 DEF Remove, HandleHeld
<1>5. CASE OtherCopies \/ Listen \/ ListenOverflow \/ EntrySkipped \/ EntryTaken \/ TryAgain
  BY <1>5 DEF OtherCopies, Listen, ListenOverflow, EntrySkipped, EntryTaken, TryAgain, saverVars
<1>6. CASE OpenFails \/ ReadFails \/ Copy \/ NextEntry
  BY <1>6 DEF OpenFails, ReadFails, Copy, NextEntry, saverVars
<1>7. CASE OpenSucceeds
  BY <1>7 DEF OpenSucceeds, InUse, FileInv, saverVars
<1>8. CASE CheckSize
  BY <1>8 DEF CheckSize, saverVars
<1>9. CASE Read
  BY <1>9 DEF Read, FileInv, saverVars
<1>10. CASE Encode
  <2>1. avif'[file] = snapshot /\ snapshot # None
    BY <1>10, HdrConvAssumption DEF Encode
  <2> QED
    BY <1>10, <2>1 DEF Encode, saverVars
<1>11. CASE UNCHANGED vars
  BY <1>11 DEF vars, saverVars
<1> QED
  BY <1>1, <1>2, <1>3, <1>4, <1>5, <1>6, <1>7, <1>8, <1>9, <1>10, <1>11 DEF Next, Watcher, Saver

LEMMA DoneStep ==
  ASSUME TypeOK, LoopInv, DoneInv, [Next]_vars
  PROVE  DoneInv'
<1> USE DEF DoneInv
<1>1. CASE \E f \in Files : Save(f) \/ Remove(f) \/ Write(f) \/ Close(f)
  BY <1>1 DEF Save, Remove, Write, Close
<1>2. CASE OtherCopies
  BY <1>2, HdrConvAssumption DEF OtherCopies
<1>3. CASE Listen \/ ListenOverflow \/ EntrySkipped \/ EntryTaken \/ TryAgain
  BY <1>3 DEF Listen, ListenOverflow, EntrySkipped, EntryTaken, TryAgain
<1>4. CASE OpenFails \/ OpenSucceeds \/ CheckSize \/ Read \/ ReadFails
  BY <1>4 DEF OpenFails, OpenSucceeds, CheckSize, Read, ReadFails, LastAfterFailure
<1>5. CASE Encode
  <2>1. snapshot # None
    BY <1>5, HdrConvAssumption DEF TypeOK
  <2> QED
    BY <1>5, <2>1 DEF Encode, TypeOK
<1>6. CASE Copy
  BY <1>6, HdrConvAssumption DEF Copy, LoopInv, TypeOK
<1>7. CASE NextEntry
  BY <1>7 DEF NextEntry
<1>8. CASE UNCHANGED vars
  BY <1>8 DEF vars
<1> QED
  BY <1>1, <1>2, <1>3, <1>4, <1>5, <1>6, <1>7, <1>8 DEF Next, Watcher, Saver

LEMMA StepInv == IInv /\ [Next]_vars => IInv'
BY TypeStep, FileStep, LoopStep, DoneStep DEF IInv

-----------------------------------------------------------------------------

\* The invariant holds in every reachable state.
THEOREM Invariance == Spec => []IInv
BY InitInv, StepInv, PTL DEF Spec

\* Every variable keeps its type, and no file is tried more often than MaxTries.
THEOREM TypeCorrect == Spec => []TypeOK
<1>1. IInv => TypeOK
  BY DEF IInv
<1> QED
  BY <1>1, Invariance, PTL

\* A screenshot that is saved in one go is never converted half written.
THEOREM NeverConvertedPartially == Spec => []NeverPartial
<1>1. IInv => NeverPartial
  BY DEF IInv, FileInv, NeverPartial
<1> QED
  BY <1>1, Invariance, PTL

\* What is skipped as converted already was converted, and as a whole.
THEOREM SkippingIsSafe == Spec => []SkipIsSafe
<1>1. IInv => SkipIsSafe
  BY DEF IInv, TypeOK, FileInv, DoneInv, SkipIsSafe
<1> QED
  BY <1>1, Invariance, PTL
=============================================================================
