------------------------------ MODULE Settings ------------------------------
(***************************************************************************)
(* The files the menu keeps its settings in (inifile.cpp), and what it     *)
(* writes into one of them and reads back when it starts                   *)
(* (globalsettings.cpp).                                                   *)
(*                                                                         *)
(* A file is a sequence of lines: a section's head, an item with its text, *)
(* or a remark.  A file that is not there reads like one without lines.    *)
(* Blanks around names and texts, the slash at the end of a folder's name, *)
(* and hexadecimal numbers are left out.                                   *)
(***************************************************************************)
EXTENDS Integers, SequencesExt

Section(s) == [kind |-> "section", name |-> s, text |-> ""]
Item(i, t) == [kind |-> "item", name |-> i, text |-> t]
Remark     == [kind |-> "remark", name |-> "", text |-> ""]
Blank      == [kind |-> "blank", name |-> "", text |-> ""]

(* LoadIniFile keeps the lines that are neither empty nor remarks. *)
LoadIniFile(f) == SelectSeq(f, LAMBDA l : l.kind \notin {"blank", "remark"})

(* The head of the section, and the line where the search in it ends: the  *)
(* item, if it has a text, or the next section's head.  0 if there is none.*)
HeadOf(c, s) == SelectInSeq(c, LAMBDA l : l = Section(s))
IsItem(l, i) == l.kind = "item" /\ l.text # "" /\ l.name = i
StopAt(c, s, i) ==
    SelectInSubSeq(c, HeadOf(c, s) + 1, Len(c), LAMBDA l : IsItem(l, i) \/ l.kind = "section")

(* What is not found reads as "". *)
GetFileString(c, s, i) ==
    LET p == StopAt(c, s, i)
    IN  IF HeadOf(c, s) # 0 /\ p # 0 /\ IsItem(c[p], i) THEN c[p].text ELSE ""

(* Mutant of SetFileString: a new item goes behind the next section's head.*)
SetFileStringBehind(c, s, i, t) ==
    LET p == StopAt(c, s, i)
    IN  IF HeadOf(c, s) = 0 THEN c \o <<Section(s), Item(i, t)>>
        ELSE IF p = 0 THEN Append(c, Item(i, t))
        ELSE IF IsItem(c[p], i) THEN ReplaceAt(c, p, Item(i, t)) ELSE InsertAt(c, p + 1, Item(i, t))

SetFileString(c, s, i, t) ==
    LET p == StopAt(c, s, i)
    IN  IF HeadOf(c, s) = 0 THEN c \o <<Section(s), Item(i, t)>>
        ELSE IF p = 0 THEN Append(c, Item(i, t))
        ELSE IF IsItem(c[p], i) THEN ReplaceAt(c, p, Item(i, t)) ELSE InsertAt(c, p, Item(i, t))

(* SetString and SetInt write nothing that is there already. *)
SetString(c, s, i, t) == IF GetFileString(c, s, i) = t THEN c ELSE SetFileString(c, s, i, t)

(* SaveIniFile puts an empty line before each section but the first line.  *)
SaveIniFile(c) ==
    FlattenSeq([n \in DOMAIN c |-> IF n > 1 /\ c[n].kind = "section" THEN <<Blank, c[n]>> ELSE <<c[n]>>])

-----------------------------------------------------------------------------
(* The settings, as they are without a file.  Those that only loadSettings *)
(* touches are here without the ones nothing else reads.                   *)
Defaults ==
    [brightness |-> 1, language |-> 0, langDirectory |-> "lang_cn", uiName |-> "zelda",
     fileListType |-> 0, fileListViewMode |-> 0, romTrim |-> 0, downloadPlayPatch |-> 0,
     cheatingSystem |-> 0, resetInGame |-> 0, sdCardSpeed |-> 16, keyDelay |-> 30, keyRepeat |-> 1]

(* saveSettings writes these, in this order. *)
SavedItems ==
    <<"uiName", "fileListViewMode", "brightness", "language", "langDirectory", "fileListType",
      "romTrim", "downloadPlayPatch", "cheatingSystem", "resetInGame">>

(* setLanguage names the folder of each of the eight languages. *)
LangDirectory == <<"lang_en", "lang_cn", "lang_zh", "lang_jp", "lang_fr", "lang_it", "lang_de", "lang_es">>

(* formatString and strtol: a text that is no number reads as 0.           *)
TextItems == {"langDirectory", "uiName"}
TextOf(g, i) == IF i \in TextItems THEN g[i] ELSE ToString(g[i])
Number(t) == IF \E n \in 0 .. 99 : ToString(n) = t THEN CHOOSE n \in 0 .. 99 : ToString(n) = t ELSE 0

(* loadSettings: an item that is not in the file keeps its value. *)
LoadSettings(f, g) ==
    [i \in DOMAIN g |->
       LET t == GetFileString(LoadIniFile(f), "system", i)
       IN  IF t = "" THEN g[i] ELSE IF i \in TextItems THEN t ELSE Number(t)]

(* saveSettings reads the file anew and changes the items in it. *)
SaveSettings(f, g) ==
    SaveIniFile(FoldLeft(LAMBDA c, i : SetString(c, "system", i, TextOf(g, i)), LoadIniFile(f), SavedItems))
=============================================================================
