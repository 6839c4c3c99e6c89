----------------------------- MODULE NameTable -----------------------------
(***************************************************************************)
(* What a directory promises: names of files, each entry with the file it  *)
(* was closed with.  A directory that cannot grow refuses new names.       *)
(***************************************************************************)
CONSTANTS Names, Files,
          NoName,      \* the file is not open
          Absent,      \* no entry has the name
          Unsaved      \* the entry of a file that has not been closed yet

VARIABLES dir,         \* name |-> file
          openAs       \* file |-> the name it is open under

vars == <<dir, openAs>>

IsOpen(n) == \E f \in Files : openAs[f] = n

Create(n, f) ==
    /\ openAs[f] = NoName
    /\ dir[n] = Absent /\ \A m \in Names : dir[m] # f
    /\ openAs' = [openAs EXCEPT ![f] = n]
    /\ dir' = [dir EXCEPT ![n] = Unsaved]

Open(n, f) ==
    /\ openAs[f] = NoName /\ dir[n] = f
    /\ openAs' = [openAs EXCEPT ![f] = n]
    /\ UNCHANGED dir

Close(n, f) ==
    /\ openAs[f] = n
    /\ openAs' = [openAs EXCEPT ![f] = NoName]
    /\ dir' = [dir EXCEPT ![n] = f]

Remove(n) ==
    /\ UNCHANGED openAs /\ ~IsOpen(n)
    /\ dir[n] # Absent
    /\ dir' = [dir EXCEPT ![n] = Absent]

Rename(n, m) ==
    /\ UNCHANGED openAs /\ ~IsOpen(n)
    /\ dir[n] # Absent /\ dir[m] = Absent
    /\ dir' = [dir EXCEPT ![n] = Absent, ![m] = dir[n]]

(* Listings, and calls that are refused, change no name. *)
List == UNCHANGED vars

Next ==
    \/ List
    \/ \E n \in Names :
          \/ \E f \in Files : Create(n, f) \/ Open(n, f) \/ Close(n, f)
          \/ Remove(n)
          \/ \E m \in Names : Rename(n, m)

Spec == [][Next]_vars
=============================================================================
