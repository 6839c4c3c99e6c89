------------------------------ MODULE FileCopy ------------------------------
(***************************************************************************)
(* Copying, moving and deleting files (files.cpp), with the dialogs they   *)
(* open (Windows) and the interrupt handler that watches for the B button  *)
(* while a file is copied (irqs.cpp).                                      *)
(*                                                                         *)
(* A file holds the first len chunks (CONTINUOUS_COPY_SIZE bytes) of the   *)
(* file it is a copy of.  What a file holds is in its directory entry when *)
(* it is closed.  The card can be pulled out at any step, and the driver   *)
(* starts a card only when the menu starts (main.cpp:97): one that is put  *)
(* in again is not seen before.  What is asked of a card that is out comes *)
(* back with an error; a file that could not be opened is read and written *)
(* all the same, and gives nothing and takes nothing.                      *)
(***************************************************************************)
EXTENDS Windows

CONSTANTS
  Names,
  Size,           \* name |-> chunks of the file that was first called so
  Trimmed,        \* name |-> chunks that a trimmed copy has
  Parent,         \* folder |-> the folder it is in; "top" for the roots
  ReadsFail,      \* freadex may read less than it is asked for
  WritesFail,     \* fwriteex may find the volume full
  CardPulled      \* the SD card may be pulled out at any step

Roots   == {"fat0", "fat1"}
Folders == DOMAIN Parent
Absent  == [of |-> "none", len |-> 0]
IsDir   == [of |-> "dir", len |-> 0]
Whole(n) == [of |-> n, len |-> Size[n]]

ASSUME CopyAssumption ==
    /\ Roots \subseteq Folders /\ {"top", "slot2"} \cap Folders = {}
    /\ \A r \in Roots : Parent[r] = "top"
    /\ \A d \in Folders \ Roots : Parent[d] \in Roots
    /\ Size \in [Names -> Nat \ {0}] /\ Trimmed \in [Names -> Nat \ {0}]
    /\ \A n \in Names : Trimmed[n] <= Size[n] /\ n \notin {"none", "dir"}
    /\ {ReadsFail, WritesFail, CardPulled} \subseteq BOOLEAN

VARIABLES
  disk,          \* <<folder, name>> |-> what is there
  card,          \* the SD card has been in since the menu started
  clip,          \* _srcFilename and _srcFileMode
  copyingFile, stopCopying,
  job,           \* the arguments and locals of copyFile
  asked,         \* history: B has been pressed since this copy began
  kept,          \* history: the file that is being moved
  missed         \* history: an error of this move that copyFile did not look at

copyVars == <<disk, card, clip, copyingFile, stopCopying, job, asked, kept, missed>>

Paths == Folders \X (Names \cup Folders)
NoPath == <<"top", "none">>
NoClip == [path |-> NoPath, mode |-> "none"]
NoJob  == [src |-> NoPath, dest |-> NoPath, silent |-> FALSE, length |-> 0, done |-> 0, copied |-> 0]

Volume(d) == IF d \in Roots THEN d ELSE Parent[d]
Reachable(d) == d \in Folders /\ (Volume(d) = "fat1" => card)
There(p) == p \in Paths /\ Reachable(p[1]) /\ disk[p] # Absent     \* stat
Put(p, x) == disk' = [disk EXCEPT ![p] = x]

CopyInit ==
    /\ clip = NoClip
    /\ copyingFile = FALSE /\ stopCopying = FALSE /\ job = NoJob
    /\ asked = FALSE /\ kept = Absent /\ missed = FALSE

keepJob == <<card, clip, job, asked, kept, missed>>
files   == <<disk, card, clip, job, kept, missed>>

-----------------------------------------------------------------------------
Fail == Return(Failure) /\ UNCHANGED <<windowVars, copyVars>>
FailWith(buttons) == MessageBox(NULL, <<Step("false")>> \o Tail(todo)) /\ UNCHANGED copyVars
GiveUp == At("false") /\ Fail

(* copyFile up to its questions: the arguments are in job. *)
CopyFile ==
    /\ At("copyFile")
    /\ IF ~There(job.src) THEN FailWith("ok")
       ELSE IF job.dest[1] \notin Folders THEN Fail
       ELSE IF ~Reachable(job.dest[1]) THEN FailWith("ok")
       ELSE \/ FailWith("ok")                       \* not enough space
            \/ /\ job.silent \/ ~There(job.dest)
               /\ Go(<<Step("open")>>) /\ UNCHANGED <<windowVars, copyVars>>
            \/ /\ ~job.silent /\ There(job.dest) /\ disk[job.dest] # IsDir
               /\ MessageBox(NULL, <<Step("overwrite")>> \o Tail(todo)) /\ UNCHANGED copyVars
            \/ /\ ~job.silent /\ There(job.dest) /\ disk[job.dest] = IsDir
               /\ FailWith("cancel")

Overwrite ==
    /\ At("overwrite")
    /\ IF answer = OK THEN Go(<<Step("open")>>) /\ UNCHANGED <<windowVars, copyVars>> ELSE Fail

(* The length: 0, or one past the end of the source, stands for all. *)
CopyLength ==
    IF job.length = 0 \/ job.length > disk[job.src].len THEN disk[job.src].len ELSE job.length

(* fopen and fclose of the destination: the entry tells what it holds. *)
Close(n) ==
    IF Reachable(job.dest[1]) THEN Put(job.dest, [of |-> disk[job.src].of, len |-> n]) ELSE UNCHANGED disk

(* Mutant of StartCopy: the request to stop is not reset. *)
StartCopyStopped ==
    /\ At("open")
    /\ ShowProgress
    /\ copyingFile' = TRUE /\ asked' = FALSE
    /\ job' = [job EXCEPT !.length = CopyLength, !.done = 0, !.copied = 0]
    /\ Close(0)
    /\ Go(<<Step("chunk")>>)
    /\ UNCHANGED <<windows, focused, below, captured, alive, card, clip, stopCopying, kept, missed>>

(* The progress window is shown; the destination is created, or cut to     *)
(* nothing. *)
StartCopy ==
    /\ At("open")
    /\ ShowProgress
    /\ stopCopying' = FALSE /\ copyingFile' = TRUE /\ asked' = FALSE
    /\ job' = [job EXCEPT !.length = CopyLength, !.done = 0, !.copied = 0]
    /\ Close(0)
    /\ Go(<<Step("chunk")>>)
    /\ UNCHANGED <<windows, focused, below, captured, alive, card, clip, kept, missed>>

(* The files are closed, and the progress window is hidden.  What fclose   *)
(* returns is not looked at.                                               *)
EndCopy ==
    /\ HideProgress /\ copyingFile' = FALSE
    /\ Close(job.copied) /\ missed' = (missed \/ ~Reachable(job.dest[1]))
    /\ UNCHANGED <<windows, focused, below, captured, alive, card, clip, stopCopying, job, asked, kept>>

AskStop ==
    /\ At("chunk") /\ stopCopying /\ job.done < job.length
    /\ copyingFile' = FALSE
    /\ MessageBox("progress", <<Step("stop")>> \o Tail(todo))
    /\ UNCHANGED <<disk, stopCopying, keepJob>>

StopCopy == At("stop") /\ answer = OK /\ EndCopy /\ Return(Failure)

GoOnCopying ==
    /\ At("stop") /\ answer # OK
    /\ copyingFile' = TRUE /\ stopCopying' = FALSE /\ asked' = FALSE
    /\ Go(<<Step("write")>>)
    /\ UNCHANGED <<windowVars, disk, card, clip, job, kept, missed>>

(* Mutant of Chunk: what is written is not counted, and written again. *)
ChunkAgain ==
    /\ At("write") \/ (At("chunk") /\ ~stopCopying)
    /\ job.done < job.length
    /\ job' = [job EXCEPT !.copied = job.length]
    /\ Go(<<Step(IF At("write") THEN "chunk" ELSE "write")>>)
    /\ UNCHANGED <<windowVars, disk, card, clip, copyingFile, stopCopying, asked, kept, missed>>

(* One chunk.  A read that comes short is taken for the end of the file,   *)
(* and there is nothing to write then.                                     *)
Chunk ==
    /\ At("write") \/ (At("chunk") /\ ~stopCopying)
    /\ job.done < job.length
    /\ \E got \in (IF ~Reachable(job.src[1]) THEN {0} ELSE IF ReadsFail THEN {0, 1} ELSE {1}) :
         /\ got = 1 => Reachable(job.dest[1])
         /\ job' = [job EXCEPT !.done = @ + 1, !.copied = @ + got]
         /\ missed' = (missed \/ (got = 0 /\ Reachable(job.src[1])))
    /\ Go(<<Step("chunk")>>)
    /\ UNCHANGED <<windowVars, disk, card, clip, copyingFile, stopCopying, asked, kept>>

(* What has been read is not all written: the volume is full, or its card  *)
(* is out.                                                                 *)
WriteFails ==
    /\ At("write") \/ (At("chunk") /\ ~stopCopying)
    /\ job.done < job.length
    /\ Reachable(job.src[1]) /\ (WritesFail \/ ~Reachable(job.dest[1]))
    /\ EndCopy
    /\ Go(<<Step("full")>>)

Full == At("full") /\ FailWith("ok")

CopyDone == At("chunk") /\ job.done = job.length /\ EndCopy /\ Return(Success)

-----------------------------------------------------------------------------
(* renameFile. *)
RenameFile ==
    /\ At("renameFile")
    /\ IF ~There(job.dest) THEN Go(<<Step("rename")>>) /\ UNCHANGED <<windowVars, copyVars>>
       ELSE IF disk[job.dest] = IsDir THEN FailWith("cancel")
       ELSE MessageBox(NULL, <<Step("replace")>> \o Tail(todo)) /\ UNCHANGED copyVars

Replace ==
    /\ At("replace")
    /\ IF answer = OK THEN Go(<<Step("rename")>>) /\ UNCHANGED <<windowVars, copyVars>> ELSE Fail

(* renamex: EEXIST and EXDEV lead to a copy. *)
Rename ==
    /\ At("rename")
    /\ IF ~There(job.src) \/ ~Reachable(job.dest[1])
         THEN Fail
         ELSE /\ kept' = disk[job.src] /\ missed' = FALSE
              /\ IF There(job.dest) \/ Volume(job.src[1]) # Volume(job.dest[1])
                   THEN /\ job' = [job EXCEPT !.silent = TRUE, !.length = 0]
                        /\ Go(<<Step("copyFile"), Step("moved")>>)
                        /\ UNCHANGED disk
                   ELSE /\ disk' = [disk EXCEPT ![job.dest] = disk[job.src], ![job.src] = Absent]
                        /\ Return(Success)
                        /\ UNCHANGED job
              /\ UNCHANGED <<windowVars, card, clip, copyingFile, stopCopying, asked>>

Unlink(p) == IF Reachable(p[1]) THEN Put(p, Absent) ELSE UNCHANGED disk

(* Mutant of Moved: the source goes whether it has been copied or not. *)
MovedAnyway ==
    /\ At("moved")
    /\ Unlink(job.src) /\ Return(answer)
    /\ UNCHANGED <<windowVars, card, clip, copyingFile, stopCopying, job, asked, kept, missed>>

(* The source is removed after a copy that was made, the destination after *)
(* one that failed.                                                        *)
Moved ==
    /\ At("moved")
    /\ Unlink(IF answer = Success THEN job.src ELSE job.dest) /\ Return(answer)
    /\ UNCHANGED <<windowVars, card, clip, copyingFile, stopCopying, job, asked, kept, missed>>

-----------------------------------------------------------------------------
(* copyOrMoveFile: dir is the folder shown.  A copy of a game can be       *)
(* trimmed (trim).  A folder has no name after its last slash; the label   *)
(* of a disk has no slash, and its name is read through a null pointer.    *)
CopyOrMove(dir, trim) ==
    /\ At("paste")
    /\ LET dest == <<dir, clip.path[2]>> IN
         IF clip.mode = "none" \/ clip.path[2] \in Folders \/ dest = clip.path THEN Fail
         ELSE \/ clip.path[1] = "top" /\ Fail
              \/ /\ job' = [NoJob EXCEPT !.src = clip.path, !.dest = dest,
                              !.length = IF trim /\ clip.path[2] \in Names THEN Trimmed[clip.path[2]] ELSE 0]
                 /\ kept' = Absent /\ missed' = FALSE
                 /\ Go(<<Step(IF clip.mode = "copy" THEN "copyFile" ELSE "renameFile"), Step("pasted")>>)
                 /\ UNCHANGED <<windowVars, disk, card, clip, copyingFile, stopCopying, asked>>

Pasted ==
    /\ At("pasted")
    /\ clip' = IF answer = Success THEN NoClip ELSE clip
    /\ job' = NoJob /\ kept' = Absent /\ missed' = FALSE /\ asked' = FALSE
    /\ Return(answer)
    /\ UNCHANGED <<windowVars, disk, card, copyingFile, stopCopying>>

(* deleteFile, of the file in job.src. *)
DeleteFile ==
    /\ At("deleteFile")
    /\ IF There(job.src) THEN MessageBox(NULL, <<Step("unlink")>> \o Tail(todo)) /\ UNCHANGED copyVars
       ELSE Fail

Confirmed ==
    /\ At("unlink")
    /\ IF answer # OK \/ ~There(job.src) THEN Fail
       ELSE \/ /\ disk[job.src] = IsDir /\ FailWith("ok")       \* EPERM: it is not empty
            \/ /\ disk[job.src] # IsDir
               /\ Put(job.src, Absent) /\ Return(Success)
               /\ UNCHANGED <<windowVars, card, clip, copyingFile, stopCopying, job, asked, kept, missed>>

-----------------------------------------------------------------------------
(* cIRQ::vBlank: between any two steps of a copy. *)
VBlank ==
    /\ copyingFile /\ ~stopCopying
    /\ stopCopying' = TRUE /\ asked' = TRUE
    /\ UNCHANGED <<uiVars, disk, card, clip, copyingFile, job, kept, missed>>

(* The card is pulled out: at any step, and between any two of a copy. *)
Pull ==
    /\ CardPulled /\ card /\ card' = FALSE
    /\ UNCHANGED <<uiVars, disk, clip, copyingFile, stopCopying, job, asked, kept, missed>>

CopyStep ==
    \/ CopyFile \/ Overwrite \/ StartCopy \/ AskStop \/ StopCopy \/ GoOnCopying \/ Chunk \/ WriteFails
    \/ Full \/ CopyDone \/ RenameFile \/ Replace \/ Rename \/ Moved \/ Pasted \/ DeleteFile \/ Confirmed
    \/ GiveUp

CopyTypeOK ==
    /\ disk \in [Paths -> [of : Names \cup {"none", "dir"}, len : Nat]]
    /\ card \in BOOLEAN /\ copyingFile \in BOOLEAN /\ stopCopying \in BOOLEAN /\ asked \in BOOLEAN
    /\ missed \in BOOLEAN /\ job.copied <= job.done /\ job.done <= job.length
=============================================================================
