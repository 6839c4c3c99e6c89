------------------------------- MODULE SdCard -------------------------------
(***************************************************************************)
(* The SD card driver of libiorpg (sddriver.cpp, with the commands it      *)
(* sends through rpgprotocol.cpp): initialisation, block reads and writes, *)
(* the card's identification, and the menu's speed check (sdidentify.cpp), *)
(* which reads past the driver.                                            *)
(*                                                                         *)
(* The card is outside src/: it answers a command in the states in which   *)
(* the driver expects an answer, and can be pulled out and exchanged       *)
(* between any two commands.  A card that does not answer leaves the       *)
(* response lines all low or all high.                                     *)
(***************************************************************************)
EXTENDS Integers, Sequences

CONSTANTS Cards, NoCard,
          Kind,           \* card |-> "v1", "v2" or "hc": version 1, 2, high capacity
          Capacity,       \* card |-> number of blocks
          BlockSize,      \* bytes of a block
          AddressSpace,   \* number of addresses a command can name: 2^32
          MaxRetry,       \* ACMD41 is sent at most so often: 10000
          MaxBlocks,      \* of a request
          Data, Blank,    \* contents of a block
          Formatted       \* card |-> its blocks before anything is written

ASSUME SdAssumption ==
    /\ NoCard \notin Cards
    /\ Kind \in [Cards -> {"v1", "v2", "hc"}]
    /\ Capacity \in [Cards -> Nat \ {0}]
    /\ {BlockSize, AddressSpace, MaxRetry, MaxBlocks} \subseteq Nat \ {0}
    /\ \A c \in Cards : Kind[c] # "hc" => Capacity[c] * BlockSize <= AddressSpace
    /\ \A c \in Cards : Capacity[c] <= AddressSpace
    /\ Blank \in Data
    /\ DOMAIN Formatted = Cards /\ \A c \in Cards : Formatted[c] \in [0 .. Capacity[c] - 1 -> Data]

VARIABLES
  slot,       \* the card in the slot
  state,      \* of that card
  cursor,     \* the block it transfers next
  stored,     \* card |-> its blocks
  isSD20, isSDHC,
  selected,   \* SDCardAddr is the address of the card in the slot
  retry,
  at,         \* where the driver is
  job,        \* the request being served
  got,        \* blocks read
  ready       \* history: the card the driver has initialised, while it stays

cardVars == <<slot, state, cursor, stored>>
flags    == <<isSD20, isSDHC, selected, retry>>
request  == <<job, got>>
sdVars   == <<cardVars, flags, at, request, ready>>

States   == {"idle", "checked", "ready", "ident", "stby", "tran", "data", "rcv"}
InitSteps == {"cmd8", "acmd41", "cmd2", "cmd3", "cmd7", "acmd6", "cmd13"}
NoJob    == [op |-> "none", addr |-> 0, count |-> 0, left |-> 0, data |-> Blank]
Blocks(c) == 0 .. Capacity[c] - 1
AllBlocks == UNION {Blocks(c) : c \in Cards}

SdTypeOK ==
    /\ slot \in Cards \cup {NoCard} /\ state \in States
    /\ cursor \in 0 .. AddressSpace + MaxBlocks
    /\ DOMAIN stored = Cards /\ \A c \in Cards : stored[c] \in [Blocks(c) -> Data]
    /\ {isSD20, isSDHC, selected} \subseteq BOOLEAN /\ retry \in 0 .. MaxRetry
    /\ at \in InitSteps \cup {"off", "idle", "read", "write", "probe", "stop", "cid"}
    /\ job \in [op : {"none", "read", "write"}, addr : AllBlocks \cup {0}, count : 0 .. MaxBlocks,
                left : 0 .. MaxBlocks, data : Data]
    /\ got \in Seq(Data) /\ Len(got) <= MaxBlocks
    /\ ready \in Cards \cup {NoCard}

SdInit ==
    /\ slot \in Cards \cup {NoCard} /\ state = "idle" /\ cursor = 0
    /\ stored = Formatted
    /\ isSD20 = FALSE /\ isSDHC = FALSE /\ selected = FALSE /\ retry = 0
    /\ at = "off" /\ job = NoJob /\ got = <<>> /\ ready = NoCard

-----------------------------------------------------------------------------
In(s) == slot # NoCard /\ state \in s

(* sddInitSD.  CMD0 resets whatever card is there. *)
Reset ==
    /\ at \in {"off", "idle"}
    /\ state' = "idle" /\ cursor' = 0
    /\ retry' = 0 /\ at' = "cmd8"
    /\ ready' = NoCard /\ job' = NoJob /\ got' = <<>>
    /\ UNCHANGED <<slot, stored, isSD20, isSDHC, selected>>

(* CMD8: cards of version 2 return the pattern. *)
Cmd8 ==
    /\ at = "cmd8"
    /\ isSD20' = (In({"idle"}) /\ Kind[slot] # "v1")
    /\ state' = IF isSD20' THEN "checked" ELSE state
    /\ at' = "acmd41"
    /\ UNCHANGED <<slot, cursor, stored, isSDHC, selected, retry, request, ready>>

(* The card is ready to answer ACMD41: one of high capacity only when it   *)
(* has seen CMD8 and is asked for it.                                      *)
Willing == In({"idle", "checked"}) /\ (Kind[slot] = "hc" => state = "checked" /\ isSD20)

(* Mutant of Acmd41: the capacity is kept from the card before. *)
Acmd41Keeps ==
    /\ at = "acmd41"
    /\ \/ /\ retry' = retry + 1
          /\ at' = IF retry + 1 < MaxRetry THEN "acmd41" ELSE "cmd2"
          /\ UNCHANGED <<state, isSDHC>>
       \/ /\ Willing \/ ~In(States)
          /\ state' = IF Willing THEN "ready" ELSE state
          /\ isSDHC' = (isSDHC \/ IF Willing THEN Kind[slot] = "hc" ELSE TRUE)
          /\ at' = "cmd2"
          /\ UNCHANGED retry
    /\ UNCHANGED <<slot, cursor, stored, isSD20, selected, request, ready>>

(* The loop of ACMD41: the driver goes on when the card is ready, when the *)
(* lines say so because there is no card, and when it has tried enough.    *)
Acmd41 ==
    /\ at = "acmd41"
    /\ \/ /\ retry' = retry + 1
          /\ at' = IF retry + 1 < MaxRetry THEN "acmd41" ELSE "cmd2"
          /\ UNCHANGED <<state, isSDHC>>
       \/ /\ Willing \/ ~In(States)
          /\ state' = IF Willing THEN "ready" ELSE state
          /\ isSDHC' = IF Willing THEN Kind[slot] = "hc" ELSE TRUE
          /\ at' = "cmd2"
          /\ UNCHANGED retry
    /\ UNCHANGED <<slot, cursor, stored, isSD20, selected, request, ready>>

(* CMD2, CMD3, CMD7 and ACMD6 are sent whatever the card has answered.     *)
Identify ==
    /\ at = "cmd2" /\ at' = "cmd3"
    /\ state' = IF In({"ready"}) THEN "ident" ELSE state
    /\ UNCHANGED <<slot, cursor, stored, flags, request, ready>>

(* The card that answers CMD3 names its address; without an answer the     *)
(* address is that of no card.                                             *)
Address ==
    /\ at = "cmd3" /\ at' = "cmd7"
    /\ selected' = In({"ident"})
    /\ state' = IF In({"ident"}) THEN "stby" ELSE state
    /\ UNCHANGED <<slot, cursor, stored, isSD20, isSDHC, retry, request, ready>>

Select ==
    /\ at = "cmd7" /\ at' = "acmd6"
    /\ state' = IF In({"stby"}) /\ selected THEN "tran" ELSE state
    /\ UNCHANGED <<slot, cursor, stored, flags, request, ready>>

BusWidth ==
    /\ at = "acmd6" /\ at' = "cmd13"
    /\ UNCHANGED <<cardVars, flags, request, ready>>

(* CMD13: the card must be in the transfer state. *)
Status ==
    /\ at = "cmd13"
    /\ IF In({"tran"}) /\ selected
         THEN at' = "idle" /\ ready' = slot /\ UNCHANGED <<isSD20, isSDHC>>
         ELSE at' = "off" /\ ready' = NoCard /\ isSD20' = FALSE /\ isSDHC' = FALSE
    /\ UNCHANGED <<cardVars, selected, retry, request>>

-----------------------------------------------------------------------------
(* Mutant of AddressOf: blocks are addressed by their number on every card. *)
AddressOfBlocks(b) == b

(* The address a command names for block b, and the block a card takes it  *)
(* for.                                                                    *)
AddressOf(b) == IF isSDHC THEN b ELSE (b * BlockSize) % AddressSpace
BlockAt(a)   == IF Kind[slot] = "hc" THEN a ELSE a \div BlockSize

(* sddReadBlocks, sddWriteBlocks: the command.  A card that is not in the  *)
(* transfer state ignores it.                                              *)
Command(op, b, n, d) ==
    /\ at = "idle"
    /\ job' = [op |-> op, addr |-> b, count |-> n, left |-> n, data |-> d]
    /\ got' = <<>>
    /\ at' = op
    /\ IF In({"tran"})
         THEN /\ state' = IF op = "read" THEN "data" ELSE "rcv"
              /\ cursor' = BlockAt(AddressOf(b))
         ELSE UNCHANGED <<state, cursor>>
    /\ UNCHANGED <<slot, stored, flags, ready>>

(* After the last block of several the transfer has to be stopped. *)
AfterBlock(busy) ==
    /\ job' = [job EXCEPT !.left = @ - 1]
    /\ cursor' = IF job.left > 1 THEN cursor + 1 ELSE 0
    /\ at' = IF job.left > 1 THEN at ELSE IF job.count = 1 THEN "idle" ELSE "stop"
    /\ state' = IF job.count = 1 THEN "tran" ELSE busy

(* A block is sent by the card: until then the driver polls. *)
ReadBlock ==
    /\ at = "read" /\ In({"data"}) /\ cursor \in Blocks(slot)
    /\ got' = Append(got, stored[slot][cursor])
    /\ AfterBlock("data")
    /\ UNCHANGED <<slot, stored, flags, ready>>

(* A block is taken by the card.  The command is sent again before each    *)
(* block of several; a card that receives goes on where it was.            *)
WriteBlock ==
    /\ at = "write" /\ In({"rcv"}) /\ cursor \in Blocks(slot)
    /\ stored' = [stored EXCEPT ![slot][cursor] = job.data]
    /\ AfterBlock("rcv")
    /\ UNCHANGED <<slot, flags, got, ready>>

(* Mutant of StopTransmission: CMD12 is not sent. *)
StopForgotten ==
    /\ at = "stop" /\ at' = "idle"
    /\ UNCHANGED <<cardVars, flags, request, ready>>

(* CMD12; after a write the driver waits until the card is done. *)
StopTransmission ==
    /\ at = "stop" /\ (job.op = "write" => slot # NoCard)
    /\ state' = IF In({"data", "rcv"}) THEN "tran" ELSE state
    /\ at' = "idle"
    /\ UNCHANGED <<slot, cursor, stored, flags, request, ready>>

(* sddGetSDInfo: the card is deselected for CMD10, and selected again. *)
Deselect ==
    /\ at = "idle" /\ at' = "cid"
    /\ state' = IF In({"tran"}) THEN "stby" ELSE state
    /\ UNCHANGED <<slot, cursor, stored, flags, request, ready>>

Reselect ==
    /\ at = "cid" /\ at' = "idle"
    /\ state' = IF In({"stby"}) /\ selected THEN "tran" ELSE state
    /\ UNCHANGED <<slot, cursor, stored, flags, request, ready>>

(* sdidCheckSDSpeed: single blocks anywhere on the volume; on a card of    *)
(* high capacity the block is rounded down.                                *)
Probe(b) ==
    /\ at = "idle" /\ at' = "probe"
    /\ LET a == IF isSDHC THEN (b \div BlockSize) * BlockSize ELSE (b * BlockSize) % AddressSpace
       IN  IF In({"tran"}) THEN state' = "data" /\ cursor' = BlockAt(a)
                           ELSE UNCHANGED <<state, cursor>>
    /\ UNCHANGED <<slot, stored, flags, request, ready>>

ProbeAnswered ==
    /\ at = "probe" /\ In({"data"}) /\ cursor \in Blocks(slot)
    /\ state' = "tran" /\ at' = "idle" /\ cursor' = 0
    /\ UNCHANGED <<slot, stored, flags, request, ready>>

-----------------------------------------------------------------------------
(* The card is pulled out, or one is put in. *)
Remove ==
    /\ slot # NoCard
    /\ slot' = NoCard /\ state' = "idle" /\ ready' = NoCard /\ selected' = FALSE /\ cursor' = 0
    /\ UNCHANGED <<stored, isSD20, isSDHC, retry, at, request>>

Insert(c) ==
    /\ slot = NoCard
    /\ slot' = c /\ state' = "idle"
    /\ UNCHANGED <<cursor, stored, flags, at, request, ready>>

(* The console is switched off and on. *)
SwitchOff ==
    /\ at' = "off" /\ state' = "idle"
    /\ isSD20' = FALSE /\ isSDHC' = FALSE /\ selected' = FALSE /\ retry' = 0
    /\ job' = NoJob /\ got' = <<>> /\ ready' = NoCard /\ cursor' = 0
    /\ UNCHANGED <<slot, stored>>

Initialise == Cmd8 \/ Acmd41 \/ Identify \/ Address \/ Select \/ BusWidth \/ Status
Transfer   == ReadBlock \/ WriteBlock \/ StopTransmission \/ Reselect \/ ProbeAnswered
=============================================================================
