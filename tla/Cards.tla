------------------------------- MODULE Cards -------------------------------
(***************************************************************************)
(* The adapters of libfat's disc_io directory, any one of them, with the   *)
(* card or cartridge behind it: what a caller of the IO_INTERFACE can rely *)
(* on whatever the adapter is.                                             *)
(***************************************************************************)
EXTENDS SdAdapters, CartAdapters

cardsVars == <<base, sram>>

AdaptersInit == CardsInit /\ sram = [marked |-> FALSE, cells |-> [c \in Cells |-> Junk]]

Step == \/ SdAdapterNext /\ UNCHANGED sram
        \/ CfNext \/ NmmcNext \/ AcekardNext \/ CartNext

AdaptersNext ==
    \/ Step
    \/ (Call \/ Programmed \/ Pull) /\ UNCHANGED sram
    \/ (CutsInCopy \/ ~At("copy")) /\ PowerCycle /\ UNCHANGED sram

(* The console runs; a card ends what it programs.                         *)
Fairness == WF_cardsVars(Step) /\ WF_cardsVars(Programmed /\ UNCHANGED sram)
AdaptersSpec == AdaptersInit /\ [][AdaptersNext]_cardsVars /\ Fairness

-----------------------------------------------------------------------------
BlockContents == Blocks \cup {New + i : i \in 0 .. MaxBlocks} \cup {Junk}

AdaptersTypeOK ==
    /\ kind \in Kinds /\ {present, started, clean} \subseteq BOOLEAN /\ late \in 0 .. Lateness
    /\ memory \in [Blocks -> BlockContents] /\ owed \in [Blocks -> SUBSET BlockContents]
    /\ card.state \in {"off", "idle", "ready", "ident", "stby", "tran", "data", "rcv", "prg"}
    /\ card.left \in 0 .. Many /\ card.wide \in BOOLEAN
    /\ port \in [media : BOOLEAN, addressed : BOOLEAN]
    /\ op.fn \in Calls /\ op.i \in 0 .. MaxBlocks /\ op.tries \in 0 .. Tries
    /\ written \in 0 .. MaxWritten /\ buf \in Seq(BlockContents) /\ Len(buf) <= MaxBlocks
    /\ sram \in [marked : BOOLEAN, cells : [Cells -> BlockContents]]

(* Adapters that notice when the card is gone.                             *)
Notices == {"scsd", "m3sd", "nmmc"} \cup CfKinds \cup Soldered
(* Adapters that make sure that the card has programmed a block.           *)
Confirms == SdKinds \cup Soldered \cup {"ak"}
(* A read the adapter serves: EFA2 reads one sector at a time, FCSR does   *)
(* not look for a region that begins inside the request.                   *)
Served == CASE kind = "efa2" -> op.n = 1
            [] kind = "fcsr" -> Overlaid(op.s) \/ \A b \in Transfers : ~Overlaid(b)
            [] OTHER -> TRUE

TheBlocks == [i \in 1 .. op.n |-> Content(op.s + i - 1)]

(* A read that reports success has filled the buffer with the sectors that *)
(* were asked for, in order (io_scsd.c:288, io_m3sd.c:414, io_njsd.c:464,  *)
(* io_cf_common.c:106, io_nmmc.c:305, io_fcsr.c:119).  On an SD card only  *)
(* as long as no call has failed since startUp or clearStatus got its      *)
(* address; on a CF card if it took the command; on the others also after  *)
(* errors.                                                                 *)
ReadsTheBlocks ==
    /\ At("done") /\ op.fn = "readSectors" /\ op.ok
    /\ kind \in SdKinds \cup CfKinds => clean
    /\ present \/ kind \in Notices
    /\ Served
    => buf = TheBlocks

(* What disc.h:71 says of every read: the sectors that were asked for, if  *)
(* it succeeds.  The code does not keep it: a read that times out leaves   *)
(* the card sending, and the next read, which does not ask whether the     *)
(* card obeyed, takes what it sends (io_scsd.c:309).                       *)
ReadsAfterErrors == At("done") /\ op.fn = "readSectors" /\ op.ok /\ present /\ Served => buf = TheBlocks

(* Once no call runs every sector holds what was written to it last; only  *)
(* a write that failed, or was cut off, leaves it open whether the sector  *)
(* is the old or the new one, and it touches no other sector               *)
(* (io_scsd.c:324, io_m3sd.c:450, io_njsd.c:446, io_cf_common.c:204,       *)
(* io_nmmc.c:258, io_acekard.c:114, io_fcsr.c:187).                        *)
BlocksKept ==
    At("done") /\ (present \/ kind \in Confirms) => \A b \in Blocks :
        \/ Content(b) \in owed[b]
        \/ card.pend # Nothing /\ card.pend.block = b /\ card.pend.value \in owed[b]

(* After a startUp or clearStatus that got the card's address, and as long *)
(* as every transfer since has succeeded, an SD card is selected, over     *)
(* four lines, and ready for the next transfer, however late its other     *)
(* answers were (io_sd_common.c:142).                                      *)
Selected ==
    At("done") /\ started /\ clean /\ present =>
        /\ kind \in SdKinds => card.state = "tran" /\ card.wide
        /\ kind = "nmmc" => card.state = "tran"

(* What disc.h:98 says of startUp, for SD cards: the card is ready.  The   *)
(* code does not keep it: when the answer to SEND_RELATIVE_ADDR comes too  *)
(* late, the wait for the transfer state can end on a byte of the card's   *)
(* name (io_sd_common.c:205).                                              *)
StartsReady ==
    [][(kind \in SdKinds /\ ~started /\ started' /\ present) => (card'.state = "tran" /\ card'.wide)]_cardsVars

(* The card and the adapter agree between the calls. *)
CardsSound == AdaptersTypeOK /\ Selected

(* Every call ends, also when the card is pulled out in the middle: each   *)
(* wait has a limit or ends with the card (io_scsd.c:353, io_m3sd.c:164,   *)
(* io_nmmc.c:283, io_acekard.c:130).                                       *)
CallsEnd == ~At("done") ~> At("done")
=============================================================================
