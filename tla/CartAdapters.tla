---------------------------- MODULE CartAdapters ----------------------------
(***************************************************************************)
(* The other adapters: CompactFlash (io_cf_common.c and the four adapters  *)
(* that use it), the MMC card of the Neo MK2/MK3 over SPI (io_nmmc.c), the *)
(* Acekard (io_acekard.c, io_ak_sd.c, io_ak2_sd.c), and the cartridges     *)
(* whose memory is their own: EFA-Linker II (io_efa2.c) and a file system  *)
(* in ROM with battery-backed RAM over parts of it (io_fcsr.c).            *)
(***************************************************************************)
EXTENDS CardCalls

CONSTANTS Regions,      \* FCSR: the parts in RAM, <<first block, number of blocks>>
          CutsInCopy    \* the power may fail while FCSR fills its RAM

ASSUME CartAssumption == /\ Regions \in Seq(Blocks \X Nat) /\ Len(Regions) <= 4
                         /\ CutsInCopy \in BOOLEAN

VARIABLE sram           \* FCSR: is it marked "FCSR", and its blocks

cartVars == <<base, sram>>

-----------------------------------------------------------------------------
(* CompactFlash.  A card that programs a block is busy.                    *)
Idle == Reached /\ card.pend = Nothing
Busy == Reached /\ (card.pend # Nothing \/ card.state # "tran")
CfStartup == At("startUp") /\ Return(present) /\ UNCHANGED <<cardVars, buf, sram>>
M3cfStartup == kind = "m3cf" /\ CfStartup /\ M3ChangeMode(TRUE)
SccfStartup == kind = "sccf" /\ CfStartup /\ ScChangeMode(TRUE)
MpcfStartup == kind = "mpcf" /\ CfStartup /\ UNCHANGED port
MmcfStartup == kind = "mmcf" /\ CfStartup /\ UNCHANGED port

CfIsInserted == /\ kind \in CfKinds /\ At("isInserted") /\ Return(Reached)
                /\ UNCHANGED <<cardVars, port, buf, sram>>
(* The wait for a busy card has a limit, and reaching it is no error.      *)
BusyForLong == Busy /\ late > 0 /\ late' = late - 1
CfClearStatus == /\ kind \in CfKinds /\ (At("clearStatus") \/ At("shutdown"))
                 /\ \/ Idle /\ Return(TRUE) /\ UNCHANGED late
                    \/ BusyForLong /\ Return(TRUE)
                    \/ TimesOut(~Reached) /\ Return(FALSE)
                 /\ UNCHANGED <<present, memory, card, port, buf, sram>>

(* The count register holds a byte: 0 stands for its whole range.          *)
CountRegister(n) == IF n < MaxBlocks THEN n ELSE 0
Counted(n) == IF CountRegister(n) = 0 THEN MaxBlocks ELSE CountRegister(n)

(* A busy card does not take the command: it goes on with the last one.    *)
CfGiven(state, taken) == /\ op' = [op EXCEPT !.at = state, !.tries = 0] /\ clean' = taken
                         /\ UNCHANGED <<kind, written, started, owed>>
CfCommand(state) ==
    \/ /\ Idle /\ CfGiven(state, TRUE) /\ UNCHANGED late
       /\ card' = [card EXCEPT !.state = state, !.pos = op.s, !.left = Counted(op.n)]
    \/ BusyForLong /\ CfGiven(state, FALSE) /\ UNCHANGED card
    \/ TimesOut(~Reached) /\ Return(FALSE) /\ UNCHANGED card
(* Ready for a block, of this command or of the one before.                *)
CfReadyFor(state) == InState(state) /\ Idle
CfReadSectors ==
    /\ kind \in CfKinds /\ UNCHANGED <<present, memory, port, sram>>
    /\ \/ At("readSectors") /\ CfCommand("data") /\ UNCHANGED buf
       \/ /\ At("data") /\ Streaming /\ Got(Sent) /\ card' = AfterSent /\ UNCHANGED late
          /\ IF LastOne THEN Return(TRUE) ELSE NextBlock("data")
       \/ /\ At("data") /\ CfReadyFor("rcv") /\ Got(Junk) /\ UNCHANGED <<card, late>>
          /\ IF LastOne THEN Return(TRUE) ELSE NextBlock("data")
       \/ At("data") /\ TimesOut(~Streaming) /\ Return(FALSE) /\ UNCHANGED <<card, buf>>
(* What is written for a command the card did not take goes to the blocks  *)
(* of the one it did: they are owed it from then on.                       *)
CfLast == IF LastOne THEN Return(TRUE) ELSE NextBlock("rcv")
CfStray == /\ op' = IF LastOne THEN NoCall ELSE [op EXCEPT !.at = "rcv", !.i = @ + 1, !.tries = 0]
           /\ owed' = [b \in Blocks |-> owed[b] \cup IF b = card.pos THEN {Value} ELSE
                                          IF LastOne /\ b \in Transfers THEN {DataFor(b)} ELSE {}]
           /\ UNCHANGED <<kind, written, started, clean>>
CfWriteSectors ==
    /\ kind \in CfKinds /\ UNCHANGED <<present, memory, port, buf, sram>>
    /\ \/ At("writeSectors") /\ CfCommand("rcv")
       \/ /\ At("rcv") /\ CfReadyFor("rcv") /\ UNCHANGED late
          /\ card' = [AfterSent EXCEPT !.pend = [block |-> card.pos, value |-> Value]]
          /\ IF clean THEN CfLast ELSE CfStray
       \/ At("rcv") /\ CfReadyFor("data") /\ CfLast /\ UNCHANGED <<card, late>>
       \/ At("rcv") /\ TimesOut(~InState("rcv")) /\ Return(FALSE) /\ UNCHANGED card

CfNext == \/ M3cfStartup \/ SccfStartup \/ MpcfStartup \/ MmcfStartup
          \/ CfIsInserted \/ CfClearStatus \/ CfReadSectors \/ CfWriteSectors

-----------------------------------------------------------------------------
(* Neo MMC.  The port to the card is opened by every call and closed at    *)
(* its end, except by isInserted when it finds the card.                   *)
EnableMMC(enable) == port' = [port EXCEPT !.media = enable]
Ends(ok) == Return(ok) /\ EnableMMC(FALSE)

(* The cartridge may not take the configuration that is written to it.     *)
MK2Config == BOOLEAN
NmmcInit == /\ kind = "nmmc" /\ At("startUp") /\ UNCHANGED <<cardVars, port, buf, sram>>
            /\ \E accepted \in MK2Config : IF accepted THEN GoTo("reset") ELSE Return(FALSE)
(* 256 bytes without the answer that is expected.                          *)
NoResponse(state) == TimesOut(~(present /\ card.state = state))
NmmcIsInserted ==
    /\ kind = "nmmc" /\ At("isInserted") /\ UNCHANGED <<cardVars, buf, sram>>
    /\ IF present /\ card.state = "tran" THEN Return(TRUE) /\ EnableMMC(TRUE) ELSE Ends(FALSE)
NmmcClearStatus ==
    /\ kind = "nmmc" /\ UNCHANGED <<present, memory, late, buf, sram>>
    /\ \/ /\ At("reset") \/ At("clearStatus") \/ At("shutdown")
          /\ IF present THEN GoTo("poll") /\ EnableMMC(TRUE) ELSE Ends(FALSE)
          /\ card' = IF present THEN [CardOn(kind) EXCEPT !.state = "idle"] ELSE card
       \/ At("poll") /\ op.tries = Tries /\ Ends(FALSE) /\ UNCHANGED card
       \/ /\ At("poll") /\ op.tries < Tries /\ InState("idle") /\ card' = [card EXCEPT !.state = "tran"]
          /\ IF op.fn = "startUp" THEN GoTo("blocklen") /\ EnableMMC(TRUE) ELSE Ends(TRUE)
       \/ At("poll") /\ op.tries < Tries /\ TryAgain("poll") /\ UNCHANGED <<card, port>>
NmmcStartUp == /\ kind = "nmmc" /\ At("blocklen") /\ Ends(InState("tran"))
               /\ UNCHANGED <<cardVars, buf, sram>>
NmmcReadSectors ==
    /\ kind = "nmmc" /\ UNCHANGED <<present, memory, card, sram>>
    /\ \/ At("readSectors") /\ GoTo("block") /\ EnableMMC(TRUE) /\ UNCHANGED <<late, buf>>
       \/ /\ At("block") /\ InState("tran") /\ Got(memory[op.s + op.i]) /\ UNCHANGED late
          /\ IF LastOne THEN Ends(TRUE) ELSE NextBlock("block") /\ UNCHANGED port
       \/ At("block") /\ NoResponse("tran") /\ Ends(FALSE) /\ UNCHANGED buf
(* A block the card refuses ends the call without the stop token.          *)
NmmcWriteSectors ==
    /\ kind = "nmmc" /\ UNCHANGED <<present, memory, buf, sram>>
    /\ \/ /\ At("writeSectors") /\ present /\ card.state = "tran" /\ GoTo("token") /\ EnableMMC(TRUE)
          /\ card' = [card EXCEPT !.state = "rcv", !.pos = op.s] /\ UNCHANGED late
       \/ /\ At("writeSectors") /\ NoResponse("tran")
          /\ Ends(FALSE) /\ UNCHANGED card
       \/ /\ At("token") /\ InState("rcv") /\ GoTo("busy") /\ UNCHANGED <<late, port>>
          /\ card' = [card EXCEPT !.pend = [block |-> card.pos, value |-> Value], !.pos = @ + 1]
       \/ At("token") /\ NoResponse("rcv") /\ Ends(FALSE) /\ UNCHANGED card
       \/ /\ At("busy") /\ card.pend = Nothing /\ (IF LastOne THEN GoTo("stop") ELSE NextBlock("token"))
          /\ UNCHANGED <<card, late, port>>
       \/ /\ At("stop") /\ Ends(TRUE) /\ UNCHANGED late
          /\ card' = IF InState("rcv") THEN [card EXCEPT !.state = "tran", !.pos = 0] ELSE card
NmmcNext == NmmcInit \/ NmmcIsInserted \/ NmmcClearStatus \/ NmmcStartUp \/ NmmcReadSectors \/ NmmcWriteSectors

-----------------------------------------------------------------------------
(* Acekard.  Nothing it does reports an error: a write is read back, and   *)
(* made again, up to Tries times, when what comes back differs.            *)
AkStartUp == /\ kind = "ak" /\ At("startUp") /\ Return(TRUE)
             /\ port' = [port EXCEPT !.media = TRUE] /\ UNCHANGED <<cardVars, buf, sram>>
AkReads(b) == IF InState("tran") THEN memory[b] ELSE Junk
AkReadSectors ==
    /\ kind = "ak" /\ At("readSectors") /\ Got(AkReads(op.s + op.i))
    /\ IF LastOne THEN Return(TRUE) ELSE NextBlock("readSectors")
    /\ UNCHANGED <<cardVars, port, sram>>
SdSector(value) == [data |-> value, crc |-> Crc16(value)]
AkBusy == card.pend # Nothing
AkSend ==
    /\ At("writeSectors") /\ UNCHANGED <<present, memory, port, buf, sram>>
    /\ op' = [op EXCEPT !.at = "busy"] /\ UNCHANGED <<kind, written, started, clean, owed>>
    /\ \/ /\ InState("tran") /\ SdSector(Value).crc = Crc16(Value) /\ UNCHANGED late
          /\ card' = [card EXCEPT !.state = "prg",
                                  !.pend = [block |-> op.s + op.i, value |-> SdSector(Value).data]]
       \/ TimesOut(~InState("tran")) /\ UNCHANGED card
AkVerify ==
    /\ At("busy") /\ ~AkBusy /\ UNCHANGED <<cardVars, port, buf, sram>>
    /\ LET same == AkReads(op.s + op.i) = Value IN
       \/ same /\ LastOne /\ Return(TRUE)
       \/ same /\ ~LastOne /\ NextBlock("writeSectors")
       \/ ~same /\ op.tries + 1 < Tries /\ TryAgain("writeSectors")
       \/ ~same /\ op.tries + 1 >= Tries /\ Return(FALSE)
AkWriteSectors == kind = "ak" /\ (AkSend \/ AkVerify)
AkOthers == /\ kind = "ak" /\ op.at \in {"isInserted", "clearStatus", "shutdown"} /\ Return(TRUE)
            /\ UNCHANGED <<cardVars, port, buf, sram>>

(* Acekard 2: the library's functions do the work, their results are       *)
(* dropped.                                                                *)
Ak2StartUp == /\ kind = "ak2" /\ At("startUp") /\ Return(present)
              /\ UNCHANGED <<cardVars, port, buf, sram>>
Ak2ReadSectors ==
    /\ kind = "ak2" /\ At("readSectors") /\ Return(TRUE)
    /\ buf' = [i \in 1 .. op.n |-> IF present THEN memory[op.s + i - 1] ELSE Junk]
    /\ UNCHANGED <<cardVars, port, sram>>
Ak2WriteSectors ==
    /\ kind = "ak2" /\ At("writeSectors") /\ Return(TRUE)
    /\ memory' = [b \in Blocks |-> IF present /\ b \in Transfers THEN DataFor(b) ELSE memory[b]]
    /\ UNCHANGED <<present, card, late, port, buf, sram>>
Ak2IsInserted == /\ kind = "ak2" /\ At("isInserted") /\ Return(present)
                 /\ UNCHANGED <<cardVars, port, buf, sram>>
Ak2Others == /\ kind = "ak2" /\ (At("clearStatus") \/ At("shutdown")) /\ Return(TRUE)
             /\ UNCHANGED <<cardVars, port, buf, sram>>
AcekardNext == \/ AkStartUp \/ AkReadSectors \/ AkWriteSectors \/ AkOthers
               \/ Ak2StartUp \/ Ak2ReadSectors \/ Ak2WriteSectors \/ Ak2IsInserted \/ Ak2Others

-----------------------------------------------------------------------------
(* EFA-Linker II.  The page's address is sent once and advances; the       *)
(* buffer's does not: every sector is stored over the one before it.       *)
Efa2Identify == /\ kind = "efa2" /\ (At("startUp") \/ At("isInserted")) /\ Return(present)
                /\ UNCHANGED <<cardVars, port, buf, sram>>
Efa2Others == /\ kind = "efa2" /\ (At("clearStatus") \/ At("shutdown")) /\ Return(TRUE)
              /\ UNCHANGED <<cardVars, port, buf, sram>>
Efa2ReadSectors ==
    /\ kind = "efa2" /\ At("readSectors") /\ Return(TRUE)
    /\ buf' = [i \in 1 .. op.n |-> IF i = 1 THEN memory[op.s + op.n - 1] ELSE Junk]
    /\ UNCHANGED <<cardVars, port, sram>>
Efa2WriteSectors == /\ kind = "efa2" /\ At("writeSectors") /\ Return(FALSE)
                    /\ UNCHANGED <<cardVars, port, buf, sram>>

(* FCSR.  The regions lie one after the other in the RAM.                  *)
Start(r) == Regions[r][1]
End(r)   == Regions[r][1] + Regions[r][2]
In(b, r) == b >= Start(r) /\ b < End(r)
(* The header of the ROM gives no block to two regions: a call looks at    *)
(* the first region with its first block, and at no other.                 *)
ASSUME RegionAssumption == \A r, q \in DOMAIN Regions, b \in Blocks : In(b, r) /\ In(b, q) => r = q

Overlaid(b) == \E r \in DOMAIN Regions : In(b, r)
RegionOf(b) == CHOOSE r \in DOMAIN Regions : In(b, r) /\ \A q \in DOMAIN Regions : In(b, q) => r <= q
Base[r \in 1 .. 5] == IF r = 1 THEN 0 ELSE Base[r - 1] + Regions[r - 1][2]
Cell(r, b) == Base[r] + (b - Start(r))
Cells == 0 .. Base[Len(Regions) + 1]

FcsrSearch ==
    /\ kind = "fcsr" /\ At("startUp") /\ UNCHANGED <<cardVars, port, buf>>
    /\ \/ ~present /\ Return(FALSE) /\ UNCHANGED sram
       \/ present /\ ~sram.marked /\ GoTo("copy") /\ sram' = [sram EXCEPT !.marked = TRUE]
       \/ present /\ sram.marked /\ Return(TRUE) /\ UNCHANGED sram
FcsrCopy ==
    /\ kind = "fcsr" /\ At("copy") /\ Return(TRUE) /\ UNCHANGED <<cardVars, port, buf>>
    /\ sram' = [sram EXCEPT !.cells = [c \in Cells |->
         IF \E r \in DOMAIN Regions, b \in Blocks : In(b, r) /\ Cell(r, b) = c
         THEN memory[CHOOSE b \in Blocks : \E r \in DOMAIN Regions : In(b, r) /\ Cell(r, b) = c] ELSE @[c]]]
Inside == Overlaid(op.s) /\ op.s + op.n <= End(RegionOf(op.s))
FcsrReadSectors ==
    /\ kind = "fcsr" /\ At("readSectors") /\ UNCHANGED <<cardVars, port, sram>>
    /\ \/ /\ ~Overlaid(op.s) /\ Return(TRUE)
          /\ buf' = [i \in 1 .. op.n |-> memory[op.s + i - 1]]
       \/ /\ Inside /\ Return(TRUE)
          /\ buf' = [i \in 1 .. op.n |-> sram.cells[Cell(RegionOf(op.s), op.s + i - 1)]]
       \/ Overlaid(op.s) /\ ~Inside /\ Return(FALSE) /\ UNCHANGED buf
FcsrWriteSectors ==
    /\ kind = "fcsr" /\ At("writeSectors") /\ UNCHANGED <<cardVars, port, buf>>
    /\ \/ /\ Inside /\ Return(TRUE)
          /\ sram' = [sram EXCEPT !.cells = [c \in Cells |->
               LET b == c - Base[RegionOf(op.s)] + Start(RegionOf(op.s)) IN
               IF c >= Base[RegionOf(op.s)] /\ b \in Transfers THEN DataFor(b) ELSE @[c]]]
       \/ ~Inside /\ Return(FALSE) /\ UNCHANGED sram
FcsrIsInserted == /\ kind = "fcsr" /\ At("isInserted") /\ Return(present)
                  /\ UNCHANGED <<cardVars, port, buf, sram>>
FcsrOthers == /\ kind = "fcsr" /\ (At("clearStatus") \/ At("shutdown")) /\ Return(TRUE)
              /\ UNCHANGED <<cardVars, port, buf, sram>>

CartNext == \/ Efa2Identify \/ Efa2Others \/ Efa2ReadSectors \/ Efa2WriteSectors
            \/ FcsrSearch \/ FcsrCopy \/ FcsrReadSectors \/ FcsrWriteSectors
            \/ FcsrIsInserted \/ FcsrOthers

(* What the memory holds as the adapter sees it.                           *)
Content(b) == IF kind = "fcsr" /\ sram.marked /\ Overlaid(b) THEN sram.cells[Cell(RegionOf(b), b)] ELSE memory[b]
=============================================================================
