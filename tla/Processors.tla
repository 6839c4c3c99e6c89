----------------------------- MODULE Processors -----------------------------
(***************************************************************************)
(* The two processors of the console and the words of memory they talk     *)
(* through (share/ipctool.h).  The ARM9 runs the menu; the ARM7 waits for  *)
(* messages in its own main loop (arm7/source/main.cpp): the brightness,   *)
(* the lid, and the restart of both processors in another program, which   *)
(* the menu (romloader.cpp) and the loader begin with the same dance.      *)
(*                                                                         *)
(* There is no lock: each access to a shared word is a step.  The header   *)
(* of the program lies in shared memory too.  Two of its words are used    *)
(* for the dance: at 027FFE08 the ARM9 executes the instruction that jumps *)
(* through the word at 027FFE24.                                           *)
(***************************************************************************)
EXTENDS Integers

CONSTANTS
  Levels,        \* the brightness the settings may hold at first
  Lite,          \* the cases: the console is a DS Lite, it is not
  Prompt         \* a delay is long enough for what it waits for; see the README

ASSUME ProcessorsAssumption == Levels \subseteq Nat /\ Lite \subseteq BOOLEAN /\ Prompt \in BOOLEAN

VARIABLES
  pc9, pc7,      \* where the processors are
  prog9, prog7,  \* the program each of them runs
  ipc9,          \* IPC_ARM9, the message from the ARM9
  p1,            \* IPC_ARM9_P1
  ipc7,          \* IPC_ARM7
  fe08, fe24,    \* the words at 027FFE08 and 027FFE24
  saved,         \* what the ARM7 keeps of them
  lite, level,   \* the machine and the brightness of its screens
  brightness,    \* gs().brightness
  lights,        \* the screens are on
  lid            \* the lid, as the last sample found it: "open" or "closed"

wordVars   == <<fe08, fe24, saved>>
screenVars == <<lite, level, brightness, lights, lid>>
procVars   == <<pc9, pc7, prog9, prog7, ipc9, p1, ipc7, wordVars, screenVars>>

Programs == {"menu", "loader", "game"}
Jump   == <<"jump through", "027FFE24">>   \* the instruction, written over the header
Itself == <<"jump to", "027FFE08">>
Header(p) == <<"header", p>>
Entry(p)  == <<"entry", p>>
Messages == {"none", "reboot", "slot1", "slot2", "homebrew", "getLevel", "setLevel", "suspend", "wakeup"}
Answers  == {"none", "ready", "loadDone"}

(* The menu is started by the firmware; what the words of the messages     *)
(* held before is not known.                                               *)
ProcessorsInit ==
    /\ pc9 = "start" /\ pc7 = "clear9" /\ prog9 = "menu" /\ prog7 = "menu"
    /\ ipc9 \in {"none", "slot1"} /\ ipc7 \in {"none", "ready"} /\ p1 = 0
    /\ fe08 = Header("menu") /\ fe24 = Entry("menu") /\ saved = <<Header("menu"), Entry("menu")>>
    /\ lite \in Lite /\ level = 0 /\ brightness \in Levels /\ lights = TRUE /\ lid = "open"

-----------------------------------------------------------------------------
(* The ARM7, in the menu and in the loader: clear the words, then read a   *)
(* message after each vertical blank.                                      *)
Clear9 == pc7 = "clear9" /\ ipc9' = "none" /\ pc7' = "clear7"
          /\ UNCHANGED <<pc9, prog9, prog7, p1, ipc7, wordVars, screenVars>>

Clear7 == pc7 = "clear7" /\ ipc7' = "none" /\ pc7' = "poll"
          /\ UNCHANGED <<pc9, prog9, prog7, ipc9, p1, wordVars, screenVars>>

Understood == IF prog7 = "menu" THEN {"reboot", "getLevel", "setLevel", "suspend", "wakeup"}
                                ELSE {"homebrew", "slot1", "slot2"}

Poll ==
    /\ pc7 = "poll" /\ ipc9 \in Understood
    /\ pc7' = IF ipc9 \in {"reboot", "slot1"} THEN "keep08"
              ELSE IF ipc9 = "slot2" THEN "stop2" ELSE ipc9
    /\ UNCHANGED <<pc9, prog9, prog7, ipc9, p1, ipc7, wordVars, screenVars>>

(* setBrightness and getBrightness on the power management chip.           *)
SetLevel ==
    /\ pc7 = "setLevel"
    /\ level' = IF lite THEN p1 % 4 ELSE level
    /\ pc7' = "answer"
    /\ UNCHANGED <<pc9, prog9, prog7, ipc9, p1, ipc7, wordVars, lite, brightness, lights, lid>>

GetLevel ==
    /\ pc7 = "getLevel"
    /\ p1' = level
    /\ pc7' = "answer"
    /\ UNCHANGED <<pc9, prog9, prog7, ipc9, ipc7, wordVars, screenVars>>

(* Mutant of Answer7: the message is left where it is. *)
Answer7Not ==
    /\ pc7 = "answer" /\ pc7' = "poll"
    /\ UNCHANGED <<pc9, prog9, prog7, ipc9, p1, ipc7, wordVars, screenVars>>

Answer7 ==
    /\ pc7 = "answer" /\ ipc9' = "none" /\ pc7' = "poll"
    /\ UNCHANGED <<pc9, prog9, prog7, p1, ipc7, wordVars, screenVars>>

(* The messages about the lid stay where they are, and are read again. *)
Lights ==
    /\ pc7 \in {"suspend", "wakeup"} /\ lights' = (pc7 = "wakeup") /\ pc7' = "poll"
    /\ UNCHANGED <<pc9, prog9, prog7, ipc9, p1, ipc7, wordVars, lite, level, brightness, lid>>

(* The restart.  The words of the header are kept before the ARM9 is told  *)
(* that it may overwrite them; after 100 ms it has, and is let go.         *)
Keep08 ==
    /\ pc7 = "keep08" /\ saved' = <<fe08, saved[2]>> /\ pc7' = "keep24"
    /\ UNCHANGED <<pc9, prog9, prog7, ipc9, p1, ipc7, fe08, fe24, screenVars>>

Keep24 ==
    /\ pc7 = "keep24" /\ saved' = <<saved[1], fe24>> /\ pc7' = "stop"
    /\ UNCHANGED <<pc9, prog9, prog7, ipc9, p1, ipc7, fe08, fe24, screenVars>>

PrepairReset ==
    /\ pc7 \in {"stop", "stop2"} /\ ipc7' = "ready"
    /\ pc7' = IF pc7 = "stop" THEN "wait100" ELSE "reset"
    /\ UNCHANGED <<pc9, prog9, prog7, ipc9, p1, wordVars, screenVars>>

(* The loader's ARM7 also clears the words of the messages. *)
Wait100 ==
    /\ pc7 = "wait100" /\ (Prompt => pc9 = "loop")
    /\ IF prog7 = "loader" THEN ipc9' = "none" /\ ipc7' = "none" /\ p1' = 0
                           ELSE UNCHANGED <<ipc9, ipc7, p1>>
    /\ pc7' = "release"
    /\ UNCHANGED <<pc9, prog9, prog7, wordVars, screenVars>>

Release9 ==
    /\ pc7 = "release" /\ fe24' = saved[2] /\ pc7' = "wait10"
    /\ UNCHANGED <<pc9, prog9, prog7, ipc9, p1, ipc7, fe08, saved, screenVars>>

(* Mutant of Wait10: the wait is left out. *)
Wait10Not ==
    /\ pc7 = "wait10" /\ fe08' = saved[1] /\ pc7' = "reset"
    /\ UNCHANGED <<pc9, prog9, prog7, ipc9, p1, ipc7, fe24, saved, screenVars>>

Wait10 ==
    /\ pc7 = "wait10" /\ (Prompt => pc9 # "loop")
    /\ fe08' = saved[1] /\ pc7' = "reset"
    /\ UNCHANGED <<pc9, prog9, prog7, ipc9, p1, ipc7, fe24, saved, screenVars>>

After(p) == IF p = "menu" THEN "loader" ELSE "game"

(* swiSoftReset of the ARM7.  A program from slot 2 is started from there. *)
Reset7 ==
    /\ pc7 = "reset"
    /\ prog7' = After(prog7) /\ pc7' = IF prog7 = "menu" THEN "clear9" ELSE "game"
    /\ UNCHANGED <<pc9, prog9, ipc9, p1, ipc7, wordVars, screenVars>>

Arm7 ==
    \/ Clear9 \/ Clear7 \/ Poll \/ SetLevel \/ GetLevel \/ Answer7 \/ Lights
    \/ Keep08 \/ Keep24 \/ PrepairReset \/ Wait100 \/ Release9 \/ Wait10 \/ Reset7

-----------------------------------------------------------------------------
(* The ARM9's part in the restart, resetAndLoop.  m is the message.        *)
Ask(m) == ipc9' = m

WaitReady ==
    /\ pc9 = "waitReady" /\ ipc7 = "ready"
    /\ fe08' = Jump /\ pc9' = "write24"
    /\ UNCHANGED <<pc7, prog9, prog7, ipc9, p1, ipc7, fe24, saved, screenVars>>

Write24 ==
    /\ pc9 = "write24" /\ fe24' = Itself /\ pc9' = "reset"
    /\ UNCHANGED <<pc7, prog9, prog7, ipc9, p1, ipc7, fe08, saved, screenVars>>

(* swiSoftReset of the ARM9 goes on at the address in 027FFE24, and so     *)
(* does the instruction at 027FFE08.                                       *)
Enter(to) ==
    IF to = Itself THEN pc9' = "loop" /\ UNCHANGED prog9
    ELSE prog9' = to[2] /\ pc9' = IF to[2] = "game" THEN "game" ELSE "start"

Reset9 ==
    /\ pc9 = "reset" /\ Enter(fe24)
    /\ UNCHANGED <<pc7, prog7, ipc9, p1, ipc7, wordVars, screenVars>>

Loop ==
    /\ pc9 = "loop"
    /\ IF fe08 = Jump THEN fe24 # Itself /\ Enter(fe24)
                      ELSE pc9' = "lost" /\ UNCHANGED prog9
    /\ UNCHANGED <<pc7, prog7, ipc9, p1, ipc7, wordVars, screenVars>>

-----------------------------------------------------------------------------
(* The menu on the ARM9.  Before its main loop it reads the settings and   *)
(* sets the brightness; that takes it longer than it takes the ARM7 to be  *)
(* listening.                                                              *)
Listening == Prompt => (prog7 = prog9 /\ pc7 = "poll")

WriteP1 ==
    /\ pc9 = "start" /\ prog9 = "menu" /\ Listening
    /\ p1' = brightness /\ pc9' = "sendLevel"
    /\ UNCHANGED <<pc7, prog9, prog7, ipc9, ipc7, wordVars, screenVars>>

SendLevel ==
    /\ pc9 = "sendLevel" /\ Ask("setLevel") /\ pc9' = "levelSet"
    /\ UNCHANGED <<pc7, prog9, prog7, p1, ipc7, wordVars, screenVars>>

LevelSet ==
    /\ pc9 = "levelSet" /\ ipc9 = "none" /\ pc9' = "main"
    /\ brightness' = p1
    /\ UNCHANGED <<pc7, prog9, prog7, ipc9, p1, ipc7, wordVars, lite, level, lights, lid>>

(* brightnessButtonClicked: the level is read, and set one higher. *)
BrightnessButton ==
    /\ pc9 = "main" /\ Ask("getLevel") /\ pc9' = "levelAsked"
    /\ UNCHANGED <<pc7, prog9, prog7, p1, ipc7, wordVars, screenVars>>

LevelAsked ==
    /\ pc9 = "levelAsked" /\ ipc9 = "none"
    /\ p1' = p1 + 1 /\ pc9' = "sendLevel"
    /\ UNCHANGED <<pc7, prog9, prog7, ipc9, ipc7, wordVars, screenVars>>

(* processInput when the lid was moved since the last sample. *)
MoveLid ==
    /\ pc9 = "main"
    /\ lid' = IF lid = "open" THEN "closed" ELSE "open"
    /\ Ask(IF lid = "open" THEN "suspend" ELSE "wakeup")
    /\ UNCHANGED <<pc9, pc7, prog9, prog7, p1, ipc7, wordVars, lite, level, brightness, lights>>

(* loadRom puts the loader's code and its address in place and restarts. *)
Reboot ==
    /\ pc9 = "main" /\ fe24' = Entry("loader")
    /\ Ask("reboot") /\ pc9' = "waitReady"
    /\ UNCHANGED <<pc7, prog9, prog7, p1, ipc7, fe08, saved, screenVars>>

Menu9 == WriteP1 \/ SendLevel \/ LevelSet \/ LevelAsked
Restart9 == WaitReady \/ Write24 \/ Reset9 \/ Loop
=============================================================================
