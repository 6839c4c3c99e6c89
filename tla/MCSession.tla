----------------------------- MODULE MCSession -----------------------------
(* A disk with eleven entries, more than fit on the screen in either view, *)
(* two folders, one empty, and two copies of a game; a card with three     *)
(* files.                                                                  *)
EXTENDS Session, TLC

Names == <<"a.nds", "aa", "b.nds", "bb", "c.nds", "c.sav", "d.nds", "d.txt", "dd", "e.nds", "f.nds", "g.nds", ".x">>
Place(e) == CHOOSE i \in DOMAIN Names : Names[i] = e
Alphabetic(a, b) == Place(a) < Place(b)
Folders == {"aa", "bb", "dd", "fat0", "fat1", "slot2"}

Disks ==
    [top |-> <<"fat0", "fat1", "slot2">>,
     fat0 |-> <<"f.nds", "bb", "a.nds", "c.sav", "d.txt", "e.nds", "dd", "b.nds", ".x", "g.nds", "c.nds", "d.nds">>,
     fat1 |-> <<"d.nds", "a.nds", "c.sav">>,
     bb   |-> <<>>,
     dd   |-> <<"c.sav", "aa", "d.txt">>]
Kinds ==
    [e \in ToSet(Names) \cup Folders |->
       CASE e \in Folders -> "folder"
         [] e = "c.sav"   -> "save"
         [] e = "d.txt"   -> "other"
         [] e = ".x"      -> "dot"
         [] e \in {"b.nds", "e.nds"} -> "bad"
         [] e = "c.nds"    -> "gone"
         [] OTHER -> "rom"]
Headers == [e \in {"a.nds", "d.nds", "f.nds", "g.nds"} |-> IF e = "f.nds" THEN "a.nds" ELSE e]
Paths == [e \in Folders |-> e]
Parents == "top" :> "" @@ "fat0" :> "top" @@ "fat1" :> "top" @@ "bb" :> "fat0" @@ "dd" :> "fat0" @@ "aa" :> "dd"
Flash == {"fat0", "bb", "dd", "aa"}
DiskOf == [d \in Flash \cup {"fat1", "top"} |-> IF d = "fat1" THEN "fat1" ELSE "fat0"]
Heights == [icon |-> 38, list |-> 15]
Touches == {[y |-> y, onIcon |-> FALSE] : y \in {0, 3, 151}} \cup {[y |-> 40, onIcon |-> TRUE]}

Games ==
    "a.nds" :> [speed |-> 1, homebrew |-> TRUE,  hasDldi |-> TRUE,  rsa |-> FALSE] @@
    "f.nds" :> [speed |-> 1, homebrew |-> TRUE,  hasDldi |-> TRUE,  rsa |-> FALSE] @@
    "d.nds" :> [speed |-> 1, homebrew |-> FALSE, hasDldi |-> FALSE, rsa |-> FALSE] @@
    "g.nds" :> [speed |-> 3, homebrew |-> FALSE, hasDldi |-> FALSE, rsa |-> TRUE]
Chains == [f \in [disk : {"fat0", "fat1"}, name : DOMAIN Games] |->
             IF f.name = "g.nds" THEN <<>> ELSE IF f.disk = "fat0" THEN <<2, 5, 3>> ELSE <<4, 5>>]
Sectors == [d \in {"fat0", "fat1"} |-> [c \in 2 .. 5 |-> 4 * c + (IF d = "fat0" THEN 1 ELSE 2)]]
Blocks == <<7, 6, 9>>

(* No settings yet; those of another version of the menu, with a remark, an*)
(* item without a text, and a section before and one behind its own.       *)
SomeFiles ==
    {<<>>,
     <<Section("other"), Item("brightness", "2"), Blank, Section("system"), Remark,
       Item("brightness", "4"), Item("uiName", ""), Item("keyDelay", "20"), Item("language", "junk"),
       Blank, Section("more"), Item("language", "3"), Item("uiName", "more")>>}
Picked == [brightness |-> {3}, language |-> {4}, romTrim |-> {1}, uiName |-> {"akaio"}]
PatchItem == "play" :> "downloadPlayPatch" @@ "reset" :> "resetInGame"
=============================================================================
