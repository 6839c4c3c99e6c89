---------------------------- MODULE ClusterPool ----------------------------
(***************************************************************************)
(* What the file allocation table promises to files and directories: each  *)
(* cluster belongs to one of them at most, a file keeps its clusters in    *)
(* the order it got them, and a cluster is refused only when none is left. *)
(***************************************************************************)
EXTENDS Naturals, Sequences

CONSTANTS Files,
          Pool,       \* clusters that can be handed out
          Layouts,    \* the clusters of the files on a volume to be mounted
          Refused     \* no cluster

VARIABLES held,       \* file |-> its clusters
          res         \* the cluster the last call got

vars == <<held, res>>

Owned == UNION {{held[f][i] : i \in DOMAIN held[f]} : f \in Files}

Init == held \in Layouts /\ res = Refused

(* A cluster no file has, at the end of the file. *)
Grow(f) == \E c \in Pool \ Owned : /\ held' = [held EXCEPT ![f] = Append(@, c)]
                                   /\ res' = c

Refuse == /\ Pool \subseteq Owned
          /\ res' = Refused
          /\ UNCHANGED held

(* The file gives up its clusters and gets a first one. *)
Renew(f) == \E c \in Pool \ UNION {{held[g][i] : i \in DOMAIN held[g]} : g \in Files \ {f}} :
                /\ held' = [held EXCEPT ![f] = <<c>>]
                /\ res' = c

GiveUp(f) == /\ held' = [held EXCEPT ![f] = <<>>]
             /\ res' = Refused

Next == Refuse \/ \E f \in Files : Grow(f) \/ Renew(f) \/ GiveUp(f)

Spec == Init /\ [][Next]_vars
=============================================================================
