--------------------------------- MODULE HdrConv ---------------------------------
(***************************************************************************)
(* bin/colorist-hdrconv/main.cpp: watches a directory for screenshots in   *)
(* JPEG-XR, converts each to AVIF next to it and puts it on the clipboard. *)
(* Other actors are the programs that save screenshots, the file system,   *)
(* which queues notifications of changes, and the other programs that use  *)
(* the clipboard.                                                          *)
(*                                                                         *)
(* A file is as much of it as is written, 0 .. Full.  The records of a     *)
(* batch of notifications are taken to be of one length, as the names of   *)
(* one program's captures are, so that a place in the buffer is the number *)
(* of a record.                                                            *)
(***************************************************************************)
EXTENDS Integers, Sequences, Functions

CONSTANTS Files,        \* names of screenshots
          Full,         \* writes that make a whole file
          MaxSessions,  \* bound: how often files are opened for writing
          MaxTries,     \* 40
          QueueMax,     \* notifications the system keeps
          Stride,       \* sizeof(FILE_NOTIFY_INFORMATION)
          Avif,         \* the name of any file that is no screenshot
          None

ASSUME HdrConvAssumption ==
  /\ Full \in Nat \ {0}
  /\ MaxTries \in Nat \ {0}
  /\ QueueMax \in Nat \ {0}
  /\ Stride \in Nat \ {0}
  /\ Avif # None /\ {Avif, None} \cap Files = {}
  /\ None \notin Nat

VARIABLES careful,                    \* screenshots whose saver closes them only when whole
          saver, written, sessions,   \* of each screenshot
          queue,                      \* notifications not yet delivered
          buffer,                     \* info, with what earlier batches left in it
          pc, pos, tries, file,       \* the loop; pos is pinfo
          last,
          snapshot,                   \* what was read of the file
          avif,                       \* what the AVIF file of each screenshot shows
          clipboard

saverVars == <<careful, saver, written, sessions>>
vars == <<saverVars, queue, buffer, pc, pos, tries, file, last, snapshot, avif, clipboard>>

Init ==
  /\ careful \in SUBSET Files
  /\ saver = [f \in Files |-> "absent"]
  /\ written = [f \in Files |-> 0]
  /\ sessions = [f \in Files |-> 0]
  /\ queue = <<>>
  /\ buffer = <<>>
  /\ pc = "listen" /\ pos = 1 /\ tries = 0 /\ file = None
  /\ last = None
  /\ snapshot = 0
  /\ avif = [f \in Files |-> None]
  /\ clipboard = None

-----------------------------------------------------------------------------
(* The system and other programs *)

\* A notification; one more than QueueMax stands for a queue that overflowed.
Notified(name) == IF Len(queue) <= QueueMax THEN Append(queue, name) ELSE queue

\* CreateFileW of the watcher shares reading only: who has its handle keeps writers out.
HandleHeld(f) == pc = "size" /\ file = f

Sessions == FoldFunction(+, 0, sessions)

\* A capture begins; the saver keeps others from opening the file while it writes.
Save(f) ==
  /\ saver[f] # "open" /\ Sessions < MaxSessions
  /\ ~HandleHeld(f)
  /\ saver' = [saver EXCEPT ![f] = "open"]
  /\ sessions' = [sessions EXCEPT ![f] = @ + 1]
  /\ UNCHANGED <<careful, written, queue, buffer, pc, pos, tries, file, last, snapshot, avif, clipboard>>

\* The system reports writes when it likes, at the latest when the file is closed.
Write(f) ==
  /\ saver[f] = "open" /\ written[f] < Full
  /\ written' = [written EXCEPT ![f] = @ + 1]
  /\ queue' \in {queue, Notified(f)}
  /\ UNCHANGED <<careful, saver, sessions, buffer, pc, pos, tries, file, last, snapshot, avif, clipboard>>

\* A saver that is not done will open the file again.
Close(f) ==
  /\ saver[f] = "open"
  /\ written[f] < Full => f \notin careful /\ Sessions < MaxSessions
  /\ saver' = [saver EXCEPT ![f] = "closed"]
  /\ queue' = Notified(f)
  /\ UNCHANGED <<careful, written, sessions, buffer, pc, pos, tries, file, last, snapshot, avif, clipboard>>

\* The user deletes or moves a screenshot.
Remove(f) ==
  /\ saver[f] = "closed" /\ ~HandleHeld(f)
  /\ saver' = [saver EXCEPT ![f] = "absent"]
  /\ written' = [written EXCEPT ![f] = 0]
  /\ UNCHANGED <<careful, sessions, queue, buffer, pc, pos, tries, file, last, snapshot, avif, clipboard>>

OtherCopies ==
  /\ clipboard' = None
  /\ UNCHANGED <<saverVars, queue, buffer, pc, pos, tries, file, last, snapshot, avif>>

-----------------------------------------------------------------------------
(* wmain: the loop *)

\* make_unique clears the buffer: a record that was never written ends the batch.
Zero == [name |-> None, more |-> FALSE]

Record == IF pos \in DOMAIN buffer THEN buffer[pos] ELSE Zero

\* ReadDirectoryChangesW writes its records from the start of the buffer.
Delivered ==
  [i \in 1 .. (IF Len(queue) > Len(buffer) THEN Len(queue) ELSE Len(buffer)) |->
     IF i <= Len(queue) THEN [name |-> queue[i], more |-> i < Len(queue)] ELSE buffer[i]]

Listen ==
  /\ pc = "listen"
  /\ queue # <<>> /\ Len(queue) <= QueueMax
  /\ buffer' = Delivered
  /\ queue' = <<>>
  /\ pc' = "entry"
  /\ UNCHANGED <<saverVars, pos, tries, file, last, snapshot, avif, clipboard>>

\* "Got some changes!", but written_size is 0 and none is told.
ListenOverflow ==
  /\ pc = "listen"
  /\ Len(queue) > QueueMax
  /\ queue' = <<>>
  /\ UNCHANGED <<saverVars, buffer, pc, pos, tries, file, last, snapshot, avif, clipboard>>

\* A screenshot that is not the last one converted.
IsNew(name) == name \in Files /\ name # last

EntrySkipped ==
  /\ pc = "entry"
  /\ ~IsNew(Record.name)
  /\ pc' = "next"
  /\ UNCHANGED <<saverVars, queue, buffer, pos, tries, file, last, snapshot, avif, clipboard>>

EntryTaken ==
  /\ pc = "entry"
  /\ IsNew(Record.name)
  /\ file' = Record.name
  /\ pc' = "try"
  /\ UNCHANGED <<saverVars, queue, buffer, pos, tries, last, snapshot, avif, clipboard>>

\* Mutant: the file is opened whoever writes to it.
NeverInUse(f) == f \notin Files

\* ERROR_SHARING_VIOLATION
InUse(f) == saver[f] = "open"

\* Mutant: one try too many.
TriesLeftOneMore == tries <= MaxTries

TriesLeft == tries < MaxTries

\* "Waiting save finishing...": Sleep(500)
TryAgain ==
  /\ pc = "try" /\ TriesLeft
  /\ InUse(file)
  /\ tries' = tries + 1
  /\ UNCHANGED <<saverVars, queue, buffer, pc, pos, file, last, snapshot, avif, clipboard>>

\* Mutant: a file that could not be converted is remembered as well.
LastAfterFailureIsFile == file

LastAfterFailure == last

\* "saving wait timed out", or the file is gone.
OpenFails ==
  /\ pc = "try"
  /\ ~TriesLeft \/ saver[file] = "absent"
  /\ last' = LastAfterFailure
  /\ pc' = "next"
  /\ UNCHANGED <<saverVars, queue, buffer, pos, tries, file, snapshot, avif, clipboard>>

OpenSucceeds ==
  /\ pc = "try" /\ TriesLeft
  /\ ~InUse(file) /\ saver[file] # "absent"
  /\ pc' = "size"
  /\ UNCHANGED <<saverVars, queue, buffer, pos, tries, file, last, snapshot, avif, clipboard>>

\* An empty file is "not ready for read"; the handle is closed either way.
CheckSize ==
  /\ pc = "size"
  /\ pc' = IF written[file] > 0 THEN "read" ELSE "next"
  /\ UNCHANGED <<saverVars, queue, buffer, pos, tries, file, last, snapshot, avif, clipboard>>

-----------------------------------------------------------------------------
(* handle_image *)

\* clContextConvert reads the file, which may have been opened for writing again.
\* Half a file may still be an image.
Read ==
  /\ pc = "read"
  /\ saver[file] # "absent" /\ written[file] > 0
  /\ snapshot' = written[file]
  /\ pc' = "encode"
  /\ UNCHANGED <<saverVars, queue, buffer, pos, tries, file, last, avif, clipboard>>

\* It cannot open or decode it, and says so.
ReadFails ==
  /\ pc = "read"
  /\ saver[file] # "closed" \/ written[file] < Full
  /\ last' = LastAfterFailure
  /\ pc' = "next"
  /\ UNCHANGED <<saverVars, queue, buffer, pos, tries, file, snapshot, avif, clipboard>>

\* Writes the AVIF, in the directory that is watched.
Encode ==
  /\ pc = "encode"
  /\ avif' = [avif EXCEPT ![file] = snapshot]
  /\ queue' = Notified(Avif)
  /\ pc' = "copy"
  /\ UNCHANGED <<saverVars, buffer, pos, tries, file, last, snapshot, clipboard>>

\* send_clipboard: the clipboard has the image; or it was emptied when its HTML
\* could not be made; or another program had it open, which is not reported.
Copy ==
  /\ pc = "copy"
  /\ clipboard' \in {file, None, clipboard}
  /\ last' = file
  /\ pc' = "next"
  /\ UNCHANGED <<saverVars, queue, buffer, pos, tries, file, snapshot, avif>>

-----------------------------------------------------------------------------

\* pinfo += pinfo->NextEntryOffset: of a pointer to records, not to bytes.
NextPosition == pos + Stride

NextEntry ==
  /\ pc = "next"
  /\ IF Record.more
       THEN pos' = NextPosition /\ pc' = "entry"
       ELSE pos' = 1 /\ pc' = "listen"
  /\ file' = None /\ tries' = 0 /\ snapshot' = 0      \* they go out of scope
  /\ UNCHANGED <<saverVars, queue, buffer, last, avif, clipboard>>

Watcher ==
  \/ Listen \/ ListenOverflow \/ EntrySkipped \/ EntryTaken
  \/ TryAgain \/ OpenFails \/ OpenSucceeds \/ CheckSize
  \/ Read \/ ReadFails \/ Encode \/ Copy \/ NextEntry

Saver(f) == Write(f) \/ Close(f)

Next ==
  \/ Watcher
  \/ \E f \in Files : Save(f) \/ Saver(f) \/ Remove(f)
  \/ OtherCopies

\* The watcher is not stopped, and who saves a screenshot gets it done.
Fairness == WF_vars(Watcher) /\ \A f \in Files : WF_vars(Saver(f))

Spec == Init /\ [][Next]_vars /\ Fairness

-----------------------------------------------------------------------------
(* Properties *)

\* Every variable has its type; no more than 40 tries are made; the records of the
\* loop are among those that were ever delivered, but for the one that ends it.
TypeOK ==
  /\ careful \subseteq Files
  /\ saver \in [Files -> {"absent", "open", "closed"}]
  /\ written \in [Files -> 0 .. Full]
  /\ sessions \in [Files -> Nat]
  /\ queue \in Seq(Files \cup {Avif}) /\ Len(queue) <= QueueMax + 1
  /\ buffer \in Seq([name : Files \cup {Avif}, more : BOOLEAN])
  /\ pc \in {"listen", "entry", "try", "size", "read", "encode", "copy", "next"}
  /\ pos \in Nat \ {0}
  /\ tries \in 0 .. MaxTries
  /\ file \in Files \cup {None} /\ last \in Files \cup {None}
  /\ pc \in {"try", "size", "read", "encode", "copy"} => file # None
  /\ snapshot \in 0 .. Full
  /\ avif \in [Files -> 1 .. Full \cup {None}]
  /\ clipboard \in Files \cup {None}

\* Saved in one go, as captures are: opened once, and whole when it is closed.
InOneGo(f) == f \in careful /\ sessions[f] = 1

\* Waiting for the sharing violation to end is enough: a screenshot that is saved in
\* one go is never converted half written, whenever its notifications come.
NeverPartial == \A f \in Files : InOneGo(f) => avif[f] \in {None, Full}

\* "Skip same file." loses nothing: the file that is skipped was converted as a whole
\* (unless its saver opened it again), and what is on the clipboard was converted.
SkipIsSafe ==
  /\ last # None => avif[last] # None /\ (InOneGo(last) => avif[last] = Full)
  /\ clipboard \in Files => avif[clipboard] # None

Saved(f) == InOneGo(f) /\ saver[f] = "closed"

Alone(f) == \A g \in Files \ {f} : sessions[g] = 0

\* A screenshot that is saved while no other is, is converted, however long saving
\* takes: after the wait timed out the last notification is still to come.
AloneConverted ==
  \A f \in Files : Saved(f) /\ Alone(f) ~> avif[f] = Full \/ ~(Saved(f) /\ Alone(f))

\* What the program says it does, "Listening for new files...": every screenshot that
\* is saved is converted.
AllConverted == \A f \in Files : Saved(f) ~> avif[f] = Full \/ ~Saved(f)
=============================================================================
