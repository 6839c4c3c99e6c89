----------------------------- MODULE CardCalls -----------------------------
(***************************************************************************)
(* What the card adapters of libfat share: one IO_INTERFACE, the calls     *)
(* libfat makes of it, the memory behind it, and the part of the card the  *)
(* adapters depend on.  An adapter's calls run in steps, one for each      *)
(* place where it waits for the card; between two steps the card can be    *)
(* pulled out, finish what it programs, or let the adapter wait too long.  *)
(*                                                                         *)
(* A card that is pulled out does not come back, and a block is            *)
(* transferred as a whole.  What is written last is New + i for the i-th   *)
(* block of the buffer, so that a block in the wrong place shows.          *)
(***************************************************************************)
EXTENDS Naturals, Sequences

CONSTANTS Kinds,          \* the adapters to consider
          LastBlock,      \* of the card
          MaxBlocks,      \* of a call; a CF card takes 256 at once
          Lateness,       \* how often the card keeps an adapter waiting too long
          Tries,          \* limit of a loop that polls the card
          MaxWritten      \* blocks written in a behaviour

ASSUME CardAssumption ==
    /\ {LastBlock, Lateness, MaxWritten} \subseteq Nat
    /\ {MaxBlocks, Tries} \subseteq Nat \ {0}

VARIABLES
  kind,       \* the adapter
  present,    \* the card, or the cartridge, is in its slot
  late,       \* how often it may still be late
  memory,     \* block -> contents
  card,       \* the card: its state, the block it transfers next, what it programs
  port,       \* the adapter: media mode, and whether its address is the card's
  op,         \* the call
  buf,        \* what it has read
  written,    \* blocks asked to be written so far
  started,    \* startUp succeeded, shutdown has not been called
  clean,      \* history: nothing has failed since the adapter was (re)set and got
              \* the card's address, or since a CF card last took a command
  owed        \* history: block -> what may be there once no call runs

cardVars == <<present, memory, card, late>>
callVars == <<op, buf, written, started, clean, owed>>
base     == <<kind, cardVars, port, callVars>>

Blocks == 0 .. LastBlock
New    == 100
Junk   == 99
Many   == MaxBlocks + 1
Nothing == [block |-> 0, value |-> Junk]

SdKinds  == {"scsd", "m3sd", "njsd"}
CfKinds  == {"m3cf", "sccf", "mpcf", "mmcf"}
Soldered == {"efa2", "fcsr"}     \* their memory is part of the cartridge

Calls == {"startUp", "isInserted", "readSectors", "writeSectors", "clearStatus", "shutdown"}

At(at)      == op.at = at
Transfers   == op.s .. op.s + op.n - 1
DataFor(b)  == New + (b - op.s)
Value       == DataFor(op.s + op.i)
LastOne     == op.i + 1 = op.n

(* The code the adapter computes over a block and the card checks: it      *)
(* tells blocks apart.                                                     *)
Crc16(value) == <<"crc", value>>

(* The card and the adapter when the console is switched on.               *)
CardOn(k) == [state |-> IF k \in SdKinds \cup {"nmmc"} THEN "off" ELSE "tran",
              pos |-> 0, left |-> 0, wide |-> FALSE, pend |-> Nothing]
PortOn(k) == [media |-> k \in {"njsd", "mpcf", "mmcf", "ak2"}, addressed |-> FALSE]
NoCall == [fn |-> "shutdown", s |-> 0, n |-> 0, i |-> 0, at |-> "done", ok |-> TRUE,
           rsp |-> "none", tries |-> 0, crc |-> Crc16(New)]

CardsInit ==
    /\ kind \in Kinds /\ late = Lateness
    /\ present \in IF kind \in Soldered THEN BOOLEAN ELSE {TRUE}
    /\ memory = [b \in Blocks |-> b] /\ owed = [b \in Blocks |-> {b}]
    /\ card = CardOn(kind) /\ port = PortOn(kind) /\ op = NoCall
    /\ buf = <<>> /\ written = 0 /\ started = FALSE /\ clean = FALSE

(* Only startUp before the adapter is started; of the rest any call.  The  *)
(* sectors of a request lie on the card.                                   *)
Call ==
    /\ At("done")
    /\ \E fn \in IF started THEN Calls \ {"startUp"} ELSE {"startUp"}, s \in Blocks, n \in 1 .. MaxBlocks :
         /\ IF fn \in {"readSectors", "writeSectors"} THEN s + n <= LastBlock + 1 ELSE s = 0 /\ n = 1
         /\ written' = IF fn = "writeSectors" THEN written + n ELSE written
         /\ written' <= MaxWritten
         /\ op' = [NoCall EXCEPT !.fn = fn, !.s = s, !.n = n, !.at = fn]
    /\ buf' = <<>> /\ UNCHANGED <<kind, cardVars, port, started, clean, owed>>

(* Calls after which the adapter says that the card can be used again.     *)
(* NinjaDS's clearStatus resets the adapter only (io_njsd.c:427); no call  *)
(* resets a CF card.                                                       *)
Restores == CASE kind = "njsd"     -> {"startUp"}
              [] kind \in CfKinds -> {}
              [] OTHER             -> {"startUp", "clearStatus"}
(* The address with which the adapter speaks to an SD card is the card's.  *)
Known == kind \in SdKinds => port.addressed

(* What NinjaDS says of a write after one that timed out means nothing:    *)
(* the answer to WRITE_BLOCK is not looked at (io_njsd.c:264).  Nor what   *)
(* is said of a CF card that was busy when it was given the command.       *)
Sure(ok) == ok /\ (kind \in {"njsd"} \cup CfKinds => clean)

Return(ok) ==
    /\ op' = IF ok /\ op.fn = "readSectors"
             THEN [NoCall EXCEPT !.fn = "readSectors", !.s = op.s, !.n = op.n] ELSE NoCall
    /\ started' = (IF op.fn = "startUp" THEN ok ELSE started /\ op.fn # "shutdown")
    /\ clean' = IF op.fn \in Restores THEN ok /\ Known ELSE clean /\ (ok \/ op.fn = "isInserted")
    /\ owed' = IF op.fn # "writeSectors" THEN owed
               ELSE [b \in Blocks |-> IF b \notin Transfers THEN owed[b]
                                      ELSE (IF Sure(ok) THEN {} ELSE owed[b]) \cup {DataFor(b)}]
    /\ UNCHANGED <<kind, written>>

GoTo(at) == op' = [op EXCEPT !.at = at, !.tries = 0] /\ UNCHANGED <<kind, written, started, clean, owed>>
NextBlock(at) == op' = [op EXCEPT !.at = at, !.i = @ + 1, !.tries = 0] /\ UNCHANGED <<kind, written, started, clean, owed>>
TryAgainUncounted(at) == GoTo(at)
TryAgain(at) == op' = [op EXCEPT !.at = at, !.tries = @ + 1] /\ UNCHANGED <<kind, written, started, clean, owed>>

Got(v) == buf' = Append(buf, v)

(* The adapter's mode: the card's lines in place of the cartridge's memory. *)
M3ChangeMode(media) == port' = [port EXCEPT !.media = media]
ScChangeMode(media) == port' = [port EXCEPT !.media = media]

-----------------------------------------------------------------------------
(* The card.                                                               *)

Reached == present /\ port.media
InState(s) == Reached /\ card.state = s

(* A wait with a limit ends without success: what is waited for will not   *)
(* come, or comes too late.                                                *)
TimesOut(never) == \/ never /\ UNCHANGED late
                   \/ ~never /\ late > 0 /\ late' = late - 1

Pull == /\ kind \notin Soldered /\ present
        /\ present' = FALSE /\ card' = [CardOn(kind) EXCEPT !.state = "off"]
        /\ UNCHANGED <<kind, memory, late, port, callVars>>

(* What may be lost with the power: a CF card may still program the last block *)
(* when the call has returned (io_cf_common.c:284).                        *)
Lost == IF kind \notin CfKinds \/ card.pend = Nothing THEN owed
        ELSE [owed EXCEPT ![card.pend.block] = @ \cup {memory[card.pend.block]}]

(* The console is switched off and on.                                     *)
PowerCycle ==
    /\ card' = [CardOn(kind) EXCEPT !.state = IF present THEN @ ELSE "off"] /\ port' = PortOn(kind)
    /\ op' = NoCall /\ buf' = <<>> /\ started' = FALSE /\ clean' = FALSE
    /\ owed' = [b \in Blocks |-> Lost[b] \cup IF op.fn = "writeSectors" /\ ~At("done") /\ b \in Transfers
                                              THEN {DataFor(b)} ELSE {}]
    /\ UNCHANGED <<kind, present, memory, late, written>>

Programmed ==
    /\ present /\ card.pend # Nothing
    /\ memory' = [memory EXCEPT ![card.pend.block] = card.pend.value]
    /\ card' = [card EXCEPT !.pend = Nothing, !.state = IF @ = "prg" THEN "tran" ELSE @]
    /\ UNCHANGED <<kind, present, late, port, callVars>>

(* A block of a stream: over one data line the adapter, which reads four,  *)
(* gets nonsense.                                                          *)
Sent == IF kind \in SdKinds /\ ~card.wide THEN Junk ELSE memory[card.pos]
AfterSent == IF card.left = 1 THEN [card EXCEPT !.pos = 0, !.left = 0, !.state = "tran"]
             ELSE [card EXCEPT !.pos = @ + 1, !.left = IF @ = Many THEN Many ELSE @ - 1]
Streaming == InState("data") /\ card.pos \in Blocks
=============================================================================
