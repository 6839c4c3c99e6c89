------------------------------- MODULE MCMenu -------------------------------
(* One game and one folder on a disk; the points of the screen that lie on *)
(* different windows.  Each window has its OK and Cancel at the same place,*)
(* but for rominfo, which has the button for the save type in place of OK. *)
EXTENDS Menu, TLC

AllPoints == {"row", "start", "up", "menu", "ok", "cancel"}
FourPoints == AllPoints \ {"up", "cancel"}
IconPoints == {"row"}

FormChildren ==
    "main"      :> <<"list", "start", "up">>  @@
    "startMenu" :> <<>> @@ "progress" :> <<>> @@
    "msgbox"    :> <<"yes", "no">> @@
    "rominfo"   :> <<"infoOK", "infoType">> @@
    "help"      :> <<"helpOK">> @@
    "setting"   :> <<"ui", "setOK", "setCancel">> @@
    "patches"   :> <<"play", "cheats", "patchOK", "patchCancel">> @@
    "savetype"  :> <<"type", "typeOK", "typeCancel">>
Spins == [setting |-> <<"ui">>, patches |-> <<"play", "cheats">>, savetype |-> <<"type">>]
OKs == [msgbox |-> "yes", rominfo |-> "infoOK", help |-> "helpOK",
        setting |-> "setOK", patches |-> "patchOK", savetype |-> "typeOK"]
Cancels == [msgbox |-> "no", rominfo |-> "infoType",
            setting |-> "setCancel", patches |-> "patchCancel", savetype |-> "typeCancel"]

Inside == {"menu", "ok", "cancel"}
Surrounds ==
    [w \in Window |-> Points \cap
      (CASE w = "main" -> AllPoints
         [] w = "list" -> AllPoints \ {"start", "up"}
         [] w \in {"start", "up"} -> {w}
         [] w = "startMenu" -> {"menu"}
         [] w = "progress" -> {}
         [] w \in {"msgbox", "rominfo", "help"} -> Inside
         [] w \in SettingWnds -> AllPoints
         [] w \in {OKs[f] : f \in DOMAIN OKs \ {"rominfo"}} \cup {"infoType"} -> {"ok"}
         [] w \in {Cancels[f] : f \in DOMAIN Cancels} \cup {"infoOK"} -> {"cancel"}
         [] w \in {"ui", "play", "type"} -> {"row"}
         [] OTHER -> {"menu"})]

TheGame == {"game"}
TwoChunks == [n \in {"game"} |-> 2]
OneChunk == [n \in {"game"} |-> 1]
InFlash == [d \in {"fat0", "fat1", "sub"} |-> IF d = "sub" THEN "fat0" ELSE "top"]
OnCard  == [d \in {"fat0", "fat1", "sub"} |-> IF d = "sub" THEN "fat1" ELSE "top"]
Order == <<"sub", "game">>

(* The game lies in one place, or in two. *)
Start(places) == [p \in Paths |-> IF p[2] = "sub" /\ Parent["sub"] = p[1] THEN IsDir
                                  ELSE IF p[2] = "game" /\ p[1] \in places THEN Whole("game") ELSE Absent]
OneDisk == {Start({"fat0"})}
TwoDisks == {Start({"fat0"}), Start({"fat0", "sub"})}
=============================================================================
