----------------------------- MODULE SdAdapters -----------------------------
(***************************************************************************)
(* The adapters that talk to an SD card in its own protocol: SuperCard SD  *)
(* (io_scsd.c), M3 SD (io_m3sd.c), NinjaDS (io_njsd.c), and the start of   *)
(* the card they share (io_sd_common.c).                                   *)
(***************************************************************************)
EXTENDS CardCalls

(* The states in which the card obeys a command (the SD specification).    *)
Obeyed == [app |-> {"idle"}, opcond |-> {"idle"}, cid |-> {"ready"}, rca |-> {"ident"},
           select |-> {"stby"}, width |-> {"tran"}, blocklen |-> {"tran"},
           status |-> {"stby", "tran", "data", "prg"}, read |-> {"tran"}, write |-> {"tran"},
           stop |-> {"data"}]
Addressed == {"select", "width", "status"}
Hears(cmd) == Reached /\ card.state \in Obeyed[cmd] /\ (cmd \in Addressed => port.addressed)

(* Is there an answer in time?  If not the buffer stays what it was; the   *)
(* card may have obeyed all the same.                                      *)
Answer(cmd) == {Hears(cmd)} \cup IF Hears(cmd) /\ late > 0 THEN {FALSE} ELSE {}
Waited(cmd, answered) == late' = IF Hears(cmd) /\ ~answered THEN late - 1 ELSE late

(* With no card the command line may be stuck, and nothing is sent.  (What *)
(* a line stuck low would be taken for, an answer of zeros, is left out.)  *)
ScsdSendCommand == IF Reached THEN {TRUE} ELSE BOOLEAN
M3sdSendCommand == IF Reached THEN {TRUE} ELSE BOOLEAN
ScsdCommand(cmd) == {sent /\ a : sent \in ScsdSendCommand, a \in Answer(cmd)}
M3sdResponse(cmd) == {sent /\ a : sent \in M3sdSendCommand, a \in Answer(cmd)}
NjsdSendCMDR(cmd) == Answer(cmd)

Command(cmd) == CASE kind = "scsd" -> ScsdCommand(cmd)
                  [] kind = "m3sd" -> M3sdResponse(cmd)
                  [] kind = "njsd" -> NjsdSendCMDR(cmd)

-----------------------------------------------------------------------------
(* GO_IDLE_STATE puts any card back to the beginning.                      *)
GoIdle == /\ card' = IF Reached THEN [CardOn(kind) EXCEPT !.state = "idle"] ELSE card
          /\ UNCHANGED <<present, memory, late>>
Initialising == GoTo("app") /\ port' = [port EXCEPT !.addressed = FALSE]

ScsdStartUp == /\ kind = "scsd" /\ At("startUp") /\ GoTo("init") /\ ScChangeMode(TRUE)
               /\ UNCHANGED <<cardVars, buf>>
M3sdStartUp == /\ kind = "m3sd" /\ At("startUp") /\ GoTo("init") /\ M3ChangeMode(TRUE)
               /\ UNCHANGED <<cardVars, buf>>
NjsdReset    == IF present THEN {TRUE} ELSE BOOLEAN
NjsdSendCMDN == IF Reached THEN {TRUE} ELSE BOOLEAN
NjsdStartUp == /\ kind = "njsd" /\ At("startUp") /\ UNCHANGED <<cardVars, port, buf>>
               /\ \E done \in NjsdReset : IF done THEN GoTo("init") ELSE Return(FALSE)

ScsdInitCard ==
    /\ kind = "scsd" /\ (At("init") \/ At("clearStatus"))
    /\ \/ TRUE \in ScsdSendCommand /\ GoIdle /\ Initialising
       \/ FALSE \in ScsdSendCommand /\ Return(FALSE) /\ UNCHANGED <<cardVars, port>>
    /\ UNCHANGED buf
M3sdInitCard ==
    /\ kind = "m3sd" /\ (At("init") \/ At("clearStatus"))
    /\ \/ TRUE \in M3sdSendCommand /\ GoIdle /\ Initialising
       \/ FALSE \in M3sdSendCommand /\ Return(FALSE) /\ UNCHANGED <<cardVars, port>>
    /\ UNCHANGED buf
(* The address is not reset: io_sd_common.c assigns it.                    *)
NjsdCardInit ==
    /\ kind = "njsd" /\ At("init")
    /\ \E done \in NjsdSendCMDN : IF done THEN GoIdle /\ GoTo("app")
                                 ELSE Return(FALSE) /\ UNCHANGED cardVars
    /\ UNCHANGED <<port, buf>>

(* _SD_InitCard.  op.rsp is what the response buffer looks like; "tran" if *)
(* its fourth byte reads like a card ready in the transfer state.          *)
AppCmd ==
    /\ kind \in SdKinds /\ At("app")
    /\ \/ op.tries >= Tries /\ Return(FALSE) /\ UNCHANGED late
       \/ /\ op.tries < Tries
          /\ \E answered \in Command("app") :
               /\ Waited("app", answered)
               /\ IF answered \/ op.rsp = "app"
                  THEN op' = [op EXCEPT !.at = "opcond", !.rsp = "app"] /\ UNCHANGED <<kind, written, started, clean, owed>>
                  ELSE Return(FALSE)
    /\ UNCHANGED <<present, memory, card, port, buf>>

OpCond ==
    /\ kind \in SdKinds /\ At("opcond")
    /\ \E answered \in Command("opcond"), powered \in BOOLEAN :
         /\ Waited("opcond", answered)
         /\ card' = IF Hears("opcond") /\ powered THEN [card EXCEPT !.state = "ready"] ELSE card
         /\ op' = IF answered /\ powered THEN [op EXCEPT !.at = "cid", !.rsp = "op", !.tries = 0]
                  ELSE [op EXCEPT !.at = "app", !.rsp = IF answered THEN "op" ELSE @, !.tries = @ + 1]
    /\ UNCHANGED <<kind, present, memory, port, buf, written, started, clean, owed>>

(* The card's name fills the buffer, whatever its bytes are.               *)
AllSendCid ==
    /\ kind \in SdKinds /\ At("cid")
    /\ \E answered \in Command("cid"), looks \in {"op", "tran"} :
         /\ Waited("cid", answered)
         /\ card' = IF Hears("cid") THEN [card EXCEPT !.state = "ident"] ELSE card
         /\ op' = [op EXCEPT !.at = "rca", !.rsp = IF answered THEN looks ELSE @, !.tries = 0]
    /\ UNCHANGED <<kind, present, memory, port, buf, written, started, clean, owed>>

(* The answer says that the card was not yet in stand-by; with no answer   *)
(* the address is made of the old buffer, which may say anything.          *)
SendRelativeAddr ==
    /\ kind \in SdKinds /\ At("rca")
    /\ \E answered \in Command("rca"), standby \in BOOLEAN :
         /\ Waited("rca", answered)
         /\ standby => op.rsp # "tran"
         /\ card' = IF Hears("rca") THEN [card EXCEPT !.state = "stby"] ELSE card
         /\ port' = [port EXCEPT !.addressed = answered]
         /\ CASE answered \/ ~standby -> GoTo("select")
              [] ~answered /\ standby /\ op.tries + 1 < Tries -> TryAgain("rca")
              [] OTHER -> Return(FALSE)
    /\ UNCHANGED <<present, memory, buf>>

(* SEND_CSD fills the buffer once more.                                    *)
SelectCard ==
    /\ kind \in SdKinds /\ At("select")
    /\ \E answered \in Command("select"), looks \in {"op", "tran"} :
         /\ Waited("select", answered)
         /\ card' = IF Hears("select") THEN [card EXCEPT !.state = "tran"] ELSE card
         /\ op' = [op EXCEPT !.at = "width", !.tries = 0, !.rsp = IF answered THEN "op"
                                                                   ELSE IF Hears("select") THEN looks ELSE @]
    /\ UNCHANGED <<kind, present, memory, port, buf, written, started, clean, owed>>

(* The answer also reports the transfer state.                             *)
SetBusWidth ==
    /\ kind \in SdKinds /\ At("width")
    /\ \E answered \in Command("width") :
         /\ Waited("width", answered)
         /\ card' = IF Hears("width") THEN [card EXCEPT !.wide = TRUE] ELSE card
         /\ op' = [op EXCEPT !.at = "status", !.rsp = IF answered THEN "tran" ELSE @, !.tries = 0]
    /\ UNCHANGED <<kind, present, memory, port, buf, written, started, clean, owed>>

(* The loop ends with the first answer, whatever state it reports, and     *)
(* without one if the buffer says so.                                      *)
WaitStatus ==
    /\ kind \in SdKinds /\ At("status")
    /\ \E answered \in Command("status") :
         /\ Waited("status", answered)
         /\ CASE op.tries >= Tries -> Return(FALSE)
              [] op.tries < Tries /\ (answered \/ op.rsp = "tran") -> Return(TRUE)
              [] OTHER -> TryAgain("status")
    /\ UNCHANGED <<present, memory, card, port, buf>>

InitCard == AppCmd \/ OpCond \/ AllSendCid \/ SendRelativeAddr \/ SelectCard \/ SetBusWidth \/ WaitStatus

-----------------------------------------------------------------------------
(* SEND_STATUS without the card's address: a card may answer or not.       *)
ScsdIsInserted ==
    /\ kind = "scsd" /\ At("isInserted")
    /\ \E answered \in BOOLEAN : (answered => Reached) /\ Return(answered)
    /\ UNCHANGED <<cardVars, port, buf>>
M3sdIsInserted ==
    /\ kind = "m3sd" /\ At("isInserted")
    /\ \E answered \in BOOLEAN : (answered => Reached) /\ Return(answered)
    /\ UNCHANGED <<cardVars, port, buf>>
(* A command that fails leaves the response unset, and it is looked at.    *)
NjsdIsInserted ==
    /\ kind = "njsd" /\ At("isInserted")
    /\ \E there \in BOOLEAN : Return(there)
    /\ UNCHANGED <<cardVars, port, buf>>
NjsdClearStatus ==
    /\ kind = "njsd" /\ (At("clearStatus") \/ At("shutdown"))
    /\ \E done \in NjsdReset : Return(done)
    /\ UNCHANGED <<cardVars, port, buf>>
ScsdShutdown == /\ kind = "scsd" /\ At("shutdown") /\ Return(TRUE) /\ ScChangeMode(FALSE)
                /\ UNCHANGED <<cardVars, buf>>
M3sdShutdown == /\ kind = "m3sd" /\ At("shutdown") /\ Return(TRUE) /\ M3ChangeMode(FALSE)
                /\ UNCHANGED <<cardVars, buf>>

-----------------------------------------------------------------------------
(* Reads.  READ_SINGLE_BLOCK for one block, else a stream that is stopped. *)
ReadFrom(left) == IF Hears("read") THEN [card EXCEPT !.state = "data", !.pos = op.s, !.left = left] ELSE card
StoppedNot == card
Stopped == IF Hears("stop") THEN [card EXCEPT !.state = "tran", !.pos = 0, !.left = 0] ELSE card
Left == IF op.n = 1 THEN 1 ELSE Many

SendRead(sends) ==
    /\ At("readSectors") /\ UNCHANGED <<present, memory, late, port, buf>>
    /\ \/ TRUE \in sends /\ GoTo("data") /\ card' = ReadFrom(Left)
       \/ FALSE \in sends /\ Return(FALSE) /\ UNCHANGED card
ReadBlockAnyway ==
    /\ At("data") /\ UNCHANGED <<present, memory, late, port>>
    /\ Got(IF Streaming THEN Sent ELSE Junk) /\ card' = IF Streaming THEN AfterSent ELSE card
    /\ CASE ~LastOne -> NextBlock("data")
         [] LastOne /\ op.n > 1 -> NextBlock("stop")
         [] OTHER -> Return(TRUE)
ReadBlock ==
    /\ At("data") /\ UNCHANGED <<present, memory, port>>
    /\ \/ /\ Streaming /\ Got(Sent) /\ card' = AfterSent /\ UNCHANGED late
          /\ CASE ~LastOne -> NextBlock("data")
               [] LastOne /\ op.n > 1 -> NextBlock("stop")
               [] OTHER -> Return(TRUE)
       \/ TimesOut(~Streaming) /\ Return(FALSE) /\ UNCHANGED <<card, buf>>
StopStream ==
    /\ At("stop") /\ card' = Stopped /\ Return(TRUE) /\ UNCHANGED <<present, memory, late, port, buf>>

ScsdReadSectors == kind = "scsd" /\ (SendRead(ScsdSendCommand) \/ StopStream)
ScsdReadData    == kind = "scsd" /\ ReadBlock
M3sdReadSectors == kind = "m3sd" /\ (SendRead(M3sdSendCommand) \/ StopStream)
M3sdReadData    == kind = "m3sd" /\ ReadBlock

(* NinjaDS: the command's failure is not looked at; the last but one block *)
(* is asked for with the command that ends the stream; the last is copied  *)
(* without waiting for the adapter.                                        *)
NjsdSendRead ==
    /\ At("readSectors") /\ card' = ReadFrom(Left)
    /\ GoTo("data") /\ UNCHANGED <<present, memory, late, port, buf>>
NjsdReadBlock ==
    /\ At("data") /\ UNCHANGED <<present, memory, port>>
    /\ Got(IF Streaming THEN Sent ELSE Junk)
    /\ \/ /\ card' = IF ~Streaming THEN card
                     ELSE IF op.i + 2 = op.n THEN [AfterSent EXCEPT !.left = 1] ELSE AfterSent
          /\ IF LastOne THEN Return(TRUE) ELSE Streaming /\ NextBlock("data")
          /\ UNCHANGED late
       \/ ~LastOne /\ TimesOut(~Streaming) /\ Return(FALSE) /\ UNCHANGED card
NjsdReadSectors == kind = "njsd" /\ (NjsdSendRead \/ NjsdReadBlock)

-----------------------------------------------------------------------------
(* Writes, block by block: WRITE_BLOCK, the data with its CRC, and         *)
(* SEND_STATUS until the card is in the transfer state again.              *)
Takes(crc) == IF ~InState("rcv") THEN card
              ELSE IF crc = Crc16(Value)
              THEN [card EXCEPT !.state = "prg", !.pos = 0, !.pend = [block |-> card.pos, value |-> Value]]
              ELSE [card EXCEPT !.state = "tran"]
Receives == IF Hears("write") THEN [card EXCEPT !.state = "rcv", !.pos = op.s + op.i] ELSE card

SendWrite ==
    /\ At("writeSectors") /\ UNCHANGED <<present, memory, port, buf>>
    /\ \E answered \in Command("write") :
         /\ Waited("write", answered) /\ card' = Receives
         /\ IF answered THEN GoTo("send") ELSE Return(FALSE)

(* _SCSD_writeData_s waits a limited time for the card to take the data.   *)
ScsdWriteData ==
    /\ kind = "scsd" /\ At("send") /\ UNCHANGED <<present, memory, port, buf>>
    /\ card' = Takes(Crc16(Value))
    /\ \/ GoTo("programming") /\ UNCHANGED late
       \/ TimesOut(~InState("rcv")) /\ Return(FALSE)
(* _M3SD_writeData has no limit; the lines of an empty slot read high.     *)
M3sdWriteDataOldCrc ==
    /\ kind = "m3sd" /\ At("send") /\ UNCHANGED <<present, memory, late, port, buf>>
    /\ card' = Takes(op.crc) /\ GoTo("programming")
M3sdWriteData ==
    /\ kind = "m3sd" /\ At("send") /\ UNCHANGED <<present, memory, late, port, buf>>
    /\ card' = Takes(op.crc)
    /\ op' = [op EXCEPT !.at = "programming", !.tries = 0, !.crc = IF LastOne THEN @ ELSE Crc16(Value + 1)]
    /\ UNCHANGED <<kind, written, started, clean, owed>>

PollStatus ==
    /\ At("programming") /\ UNCHANGED <<present, memory, card, port, buf>>
    /\ \E answered \in Command("status") :
         /\ Waited("status", answered)
         /\ CASE op.tries + 1 >= Tries -> Return(FALSE)
              [] op.tries + 1 < Tries /\ ~(answered /\ card.state = "tran") -> TryAgain("programming")
              [] op.tries + 1 < Tries /\ answered /\ card.state = "tran" ->
                   IF LastOne THEN Return(TRUE) ELSE NextBlock("writeSectors")

ScsdWriteSectors == kind = "scsd" /\ (SendWrite \/ PollStatus)
M3sdWriteSectors == kind = "m3sd" /\ (SendWrite \/ PollStatus)

(* NinjaDS: the block goes to the adapter, which sends it with the command. *)
NjsdWriteBlock ==
    /\ At("writeSectors") /\ UNCHANGED <<present, memory, port, buf>>
    /\ card' = IF ~Hears("write") THEN card
               ELSE [card EXCEPT !.state = "prg", !.pend = [block |-> op.s + op.i, value |-> Value]]
    /\ \/ GoTo("programming") /\ UNCHANGED late
       \/ TimesOut(~Hears("write")) /\ Return(FALSE)
NjsdWriteSector == kind = "njsd" /\ (NjsdWriteBlock \/ PollStatus)

SdAdapterNext ==
    \/ ScsdStartUp \/ ScsdInitCard \/ ScsdIsInserted \/ ScsdShutdown
    \/ ScsdReadSectors \/ ScsdReadData \/ ScsdWriteSectors \/ ScsdWriteData
    \/ M3sdStartUp \/ M3sdInitCard \/ M3sdIsInserted \/ M3sdShutdown
    \/ M3sdReadSectors \/ M3sdReadData \/ M3sdWriteSectors \/ M3sdWriteData
    \/ NjsdStartUp \/ NjsdCardInit \/ NjsdIsInserted \/ NjsdClearStatus
    \/ NjsdReadSectors \/ NjsdWriteSector
    \/ InitCard
=============================================================================
