------------------------------- MODULE Mshc -------------------------------
(***************************************************************************)
(* Block transfers of MshcDxe: the command that MshcSendCommand remembers,    *)
(* MshcReadBlockData and MshcWriteBlockData that issue it, and SendCommand,    *)
(* against the controller with its FIFO and the card.                       *)
(*                                                                         *)
(* A block stands for its words, and is known by its number on the card.     *)
(* The client is MmcDxe: it asks for the state of the card after a transfer,  *)
(* and stops a transfer that failed, or that is of more than one block.      *)
(***************************************************************************)
EXTENDS Integers, Sequences

CONSTANTS
  Last,       \* the last block of the card
  MaxLength,  \* bound on the blocks of a transfer
  FifoDepth

ASSUME SizeAssumption ==
  /\ Last \in Nat /\ MaxLength \in Nat \ {0} /\ FifoDepth \in Nat \ {0}

Blocks == 0 .. Last

VARIABLES
  pc,             \* the step a call is at
  cmd,            \* what the call issues: the remembered command, or another
  mMshcCommand, mMshcArgument,
  length,         \* blocks of the transfer
  left,           \* DataLen, or Size32 - Count
  got,            \* what has been stored in the reader's Buffer
  status,         \* what the last call returned
  start, issued,  \* CMD_START_BIT, and the command of that register
  RINTSTS,        \* interrupt bits
  fifo,           \* each block with whether it came intact
  xfer, bytcnt,   \* the transfer of the controller, and what is left of it
  crc,            \* the last block received has a wrong CRC, not seen yet
  card, pos,      \* state of the card, the block it sends or stores next
  stored          \* what the card has stored in this transfer, and where

CMD == <<start, issued>>
remembered == <<mMshcCommand, mMshcArgument, length>>
buffer == <<left, got>>
hc == <<xfer, bytcnt, crc>>
medium == <<card, pos, stored>>
mshcVars == <<pc, cmd, remembered, buffer, status, CMD, RINTSTS, fifo, hc, medium>>

CmdErrors == {"RTO", "RCRC"}
DataErrors == {"DCRC", "DRT"}

\* DWEMMC_STS_DATA_BUSY: the card is programming and holds the data line
DataBusy == card = "prg"

ReturnWith(s) == pc' = "returned" /\ status' = s

-----------------------------------------------------------------------------
(* MshcSendCommand with CMD17, CMD18, CMD24 or CMD25: nothing is sent yet.    *)
MshcSendCommand(k, b, n) ==
  /\ pc = "idle"
  /\ mMshcCommand' = k /\ mMshcArgument' = b /\ length' = n
  /\ pc' = "prvdata" /\ cmd' = "data" /\ got' = <<>> /\ left' = n
  /\ UNCHANGED <<status, CMD, RINTSTS, fifo, hc, medium>>

(* The wait for the card, which only MshcWriteBlockData gives up.             *)
PrvDataComplete ==
  /\ pc = "prvdata" /\ ~ DataBusy
  /\ pc' = "fifo"
  /\ UNCHANGED <<cmd, remembered, buffer, status, CMD, RINTSTS, fifo, hc, medium>>

PrvDataTimeout ==
  /\ pc = "prvdata" /\ DataBusy /\ mMshcCommand = "write"
  /\ ReturnWith("error")
  /\ UNCHANGED <<cmd, remembered, buffer, CMD, RINTSTS, fifo, hc, medium>>

\* mutant: what is in the FIFO stays there
FifoKept == fifo
FifoAfterReset == <<>>

FifoEmptied ==
  /\ pc = "fifo"
  /\ fifo' = FifoAfterReset
  /\ pc' = "send"
  /\ UNCHANGED <<cmd, remembered, buffer, status, CMD, RINTSTS, hc, medium>>

FifoResetTimeout ==
  /\ pc = "fifo" /\ fifo # <<>>
  /\ fifo' \in {fifo, <<>>}
  /\ ReturnWith("error")
  /\ UNCHANGED <<cmd, remembered, buffer, CMD, RINTSTS, hc, medium>>

-----------------------------------------------------------------------------
(* SendCommand.  The delay of 100 microseconds at its start outlasts the CRC  *)
(* and the end bit of a transfer whose data have all been received, and a     *)
(* command that is on its way.                                              *)
\* mutant: without the delay
NoDelay == ~ start
DelayOver == ~ start /\ ~ (xfer = "read" /\ bytcnt = 0)

SendCommand ==
  /\ pc = "send" /\ DelayOver /\ ~ DataBusy
  /\ pc' = "sent"
  /\ RINTSTS' = {} /\ start' = TRUE /\ issued' = cmd
  /\ UNCHANGED <<cmd, remembered, buffer, status, fifo, hc, medium>>

(* The loop ends with the command, or with the end of a transfer.            *)
CommandEnds ==
  /\ pc = "sent" /\ RINTSTS \cap {"CMD_DONE", "DTO"} # {}
  /\ LET error == RINTSTS \cap (CmdErrors \cup DataErrors) # {} IN
       \/ /\ cmd = "data" /\ error /\ ReturnWith("error")
       \/ /\ cmd = "data" /\ ~ error /\ UNCHANGED status
          /\ pc' = IF mMshcCommand = "read" THEN "check" ELSE "push"
       \/ cmd # "data" /\ ReturnWith(IF error THEN "error" ELSE "success")
  /\ UNCHANGED <<cmd, remembered, buffer, CMD, RINTSTS, fifo, hc, medium>>

-----------------------------------------------------------------------------
(* The rest of MshcReadBlockData: errors are looked for, then the FIFO is     *)
(* emptied, and so on.                                                     *)
ReadChecks ==
  /\ pc = "check"
  /\ IF RINTSTS \cap DataErrors # {} THEN ReturnWith("error")
     ELSE pc' = "look" /\ UNCHANGED status
  /\ UNCHANGED <<cmd, remembered, buffer, CMD, RINTSTS, fifo, hc, medium>>

ReadTakes ==
  /\ pc = "look" /\ left > 0 /\ fifo # <<>>
  /\ got' = Append(got, Head(fifo)) /\ fifo' = Tail(fifo) /\ left' = left - 1
  /\ UNCHANGED <<pc, cmd, remembered, status, CMD, RINTSTS, hc, medium>>

ReadPolls ==
  /\ pc = "look" /\ left > 0 /\ fifo = <<>>
  /\ pc' = "check"
  /\ UNCHANGED <<cmd, remembered, buffer, status, CMD, RINTSTS, fifo, hc, medium>>

ReadTimeout ==
  /\ pc = "look" /\ left > 0 /\ fifo = <<>>
  /\ ReturnWith("error")
  /\ UNCHANGED <<cmd, remembered, buffer, CMD, RINTSTS, fifo, hc, medium>>

ReadResult == IF RINTSTS \cap DataErrors # {} THEN "error" ELSE "success"

ReadEnds ==
  /\ pc = "look" /\ left = 0
  /\ ReturnWith(ReadResult)
  /\ UNCHANGED <<cmd, remembered, buffer, CMD, RINTSTS, fifo, hc, medium>>

-----------------------------------------------------------------------------
(* The rest of MshcWriteBlockData.                                          *)
WritePushes ==
  /\ pc = "push" /\ left > 0 /\ Len(fifo) < FifoDepth
  /\ fifo' = Append(fifo, [block |-> mMshcArgument + length - left, intact |-> TRUE])
  /\ left' = left - 1
  /\ UNCHANGED <<pc, cmd, remembered, got, status, CMD, RINTSTS, hc, medium>>

WriteTimeout ==
  /\ pc = "push" /\ left > 0 /\ Len(fifo) = FifoDepth
  /\ ReturnWith("error")
  /\ UNCHANGED <<cmd, remembered, buffer, CMD, RINTSTS, fifo, hc, medium>>

\* mutant: only the end of the transfer is waited for
WriteFailsNever == FALSE
WriteFails == RINTSTS \cap DataErrors # {}

WriteMask ==
  /\ pc = "push" /\ left = 0 /\ pc' = "mask"
  /\ UNCHANGED <<cmd, remembered, buffer, status, CMD, RINTSTS, fifo, hc, medium>>

WriteEnds ==
  /\ pc = "mask"
  /\ \/ WriteFails /\ ReturnWith("error")
     \/ ~ WriteFails /\ "DTO" \in RINTSTS /\ ReturnWith("success")
     \/ ~ WriteFails /\ "DTO" \notin RINTSTS /\ pc' = "push" /\ UNCHANGED status
  /\ UNCHANGED <<cmd, remembered, buffer, CMD, RINTSTS, fifo, hc, medium>>

-----------------------------------------------------------------------------
(* MmcDxe after a call: the state after a transfer (CMD13), and a stop (CMD12) *)
(* after a transfer that failed or the state of one of several blocks.       *)
ClientSends(c) ==
  /\ pc = "returned"
  /\ \/ c = "status" /\ cmd = "data" /\ status = "success"
     \/ c = "stop" /\ cmd = "data" /\ status = "error"
     \/ c = "stop" /\ cmd = "status" /\ length > 1
  /\ cmd' = c /\ pc' = "send"
  /\ UNCHANGED <<remembered, buffer, status, CMD, RINTSTS, fifo, hc, medium>>

ClientDone ==
  /\ pc = "returned" /\ (cmd = "stop" \/ (cmd = "status" /\ length = 1))
  /\ pc' = "idle"
  /\ UNCHANGED <<cmd, remembered, buffer, status, CMD, RINTSTS, fifo, hc, medium>>

-----------------------------------------------------------------------------
(* The controller and the card.  A data command or CMD13 is held back while a  *)
(* transfer is under way (BIT_CMD_WAIT_PRVDATA_COMPLETE).                     *)
Held == issued # "stop" /\ xfer # "none"

CardTakes ==
  CASE issued = "data"   -> card = "tran"
    [] issued = "stop"   -> card \in {"data", "rcv"}
    [] issued = "status" -> TRUE

(* The card has taken the command.                                          *)
CardHasTaken ==
  /\ CardTakes
  /\ RINTSTS' \in {RINTSTS \cup {"CMD_DONE"}, RINTSTS \cup {"CMD_DONE", "RCRC"}}
  /\ CASE issued = "data" ->
            /\ xfer' = mMshcCommand /\ bytcnt' = length /\ crc' = FALSE
            /\ card' = IF mMshcCommand = "read" THEN "data" ELSE "rcv"
            /\ pos' = mMshcArgument /\ stored' = <<>>
       [] issued = "stop" ->
            /\ xfer' = "none" /\ crc' = FALSE
            /\ card' = IF card = "data" THEN "tran" ELSE "prg"
            /\ UNCHANGED <<bytcnt, pos, stored>>
       [] issued = "status" -> UNCHANGED <<hc, medium>>

(* It has not: it refuses it, or the command is lost.  A stop is not lost.    *)
CardHasNotTaken ==
  /\ issued = "stop" => ~ CardTakes
  /\ RINTSTS' = RINTSTS \cup {"CMD_DONE", "RTO"}
  /\ UNCHANGED <<hc, medium>>

HcCommand ==
  /\ start /\ ~ Held
  /\ start' = FALSE /\ UNCHANGED issued
  /\ CardHasTaken \/ CardHasNotTaken
  /\ UNCHANGED <<pc, cmd, remembered, buffer, status, fifo>>

HcReceive ==
  /\ xfer = "read" /\ card = "data" /\ bytcnt > 0 /\ ~ crc /\ Len(fifo) < FifoDepth
  /\ \E intact \in BOOLEAN :
       /\ fifo' = Append(fifo, [block |-> pos, intact |-> intact])
       /\ crc' = ~ intact
  /\ bytcnt' = bytcnt - 1 /\ pos' = pos + 1
  /\ card' = IF length = 1 THEN "tran" ELSE card
  /\ UNCHANGED <<pc, cmd, remembered, buffer, status, CMD, RINTSTS, xfer, stored>>

HcCrc ==
  /\ crc
  /\ crc' = FALSE /\ RINTSTS' = RINTSTS \cup {"DCRC"}
  /\ UNCHANGED <<pc, cmd, remembered, buffer, status, CMD, fifo, xfer, bytcnt, medium>>

HcSend ==
  /\ xfer = "write" /\ card = "rcv" /\ bytcnt > 0 /\ fifo # <<>>
  /\ fifo' = Tail(fifo)
  /\ stored' = Append(stored, [at |-> pos, block |-> Head(fifo).block])
  /\ bytcnt' = bytcnt - 1 /\ pos' = pos + 1
  /\ UNCHANGED <<pc, cmd, remembered, buffer, status, CMD, RINTSTS, xfer, crc, card>>

(* All the blocks are through; one written by itself is then programmed.     *)
HcDto ==
  /\ xfer # "none" /\ bytcnt = 0 /\ ~ crc
  /\ RINTSTS' = RINTSTS \cup {"DTO"} /\ xfer' = "none"
  /\ card' = IF xfer = "write" /\ length = 1 THEN "prg" ELSE card
  /\ UNCHANGED <<pc, cmd, remembered, buffer, status, CMD, fifo, bytcnt, crc, pos, stored>>

(* The card is late with a block, or has refused one.                        *)
HcDataError ==
  /\ xfer # "none" /\ bytcnt > 0
  /\ RINTSTS' = RINTSTS \cup {IF xfer = "read" THEN "DRT" ELSE "DCRC"}
  /\ xfer' = "none"
  /\ UNCHANGED <<pc, cmd, remembered, buffer, status, CMD, fifo, bytcnt, crc, medium>>

CardReady ==
  /\ card = "prg" /\ card' = "tran"
  /\ UNCHANGED <<pc, cmd, remembered, buffer, status, CMD, RINTSTS, fifo, hc, pos, stored>>

-----------------------------------------------------------------------------
(* The card has been initialised, and selected by CMD7.                      *)
MshcInit ==
  /\ pc = "idle" /\ cmd = "stop" /\ status = "success"
  /\ mMshcCommand = "read" /\ mMshcArgument = 0 /\ length = 1
  /\ left = 0 /\ got = <<>>
  /\ start = FALSE /\ issued = "stop" /\ RINTSTS = {} /\ fifo = <<>>
  /\ xfer = "none" /\ bytcnt = 0 /\ crc = FALSE
  /\ card = "tran" /\ pos = 0 /\ stored = <<>>

CallSteps ==
  \/ PrvDataComplete \/ PrvDataTimeout \/ FifoEmptied \/ FifoResetTimeout
  \/ SendCommand \/ CommandEnds
  \/ ReadChecks \/ ReadTakes \/ ReadPolls \/ ReadTimeout \/ ReadEnds
  \/ WritePushes \/ WriteTimeout \/ WriteMask \/ WriteEnds

Hc == HcCommand \/ HcReceive \/ HcCrc \/ HcSend \/ HcDto \/ HcDataError

MshcNext ==
  \/ \E k \in {"read", "write"}, b \in Blocks, n \in 1 .. MaxLength :
       b + n <= Last + 1 /\ MshcSendCommand(k, b, n)
  \/ CallSteps
  \/ \E c \in {"status", "stop"} : ClientSends(c)
  \/ ClientDone
  \/ Hc
  \/ CardReady

(* The driver runs, the controller ends what it has begun and the card what   *)
(* it programs.                                                            *)
MshcFairness ==
  /\ WF_mshcVars(CallSteps) /\ WF_mshcVars(Hc) /\ WF_mshcVars(CardReady)

MshcSpec == MshcInit /\ [][MshcNext]_mshcVars /\ MshcFairness

-----------------------------------------------------------------------------
Entry == [block : Blocks, intact : BOOLEAN]

MshcTypeOK ==
  /\ pc \in {"idle", "prvdata", "fifo", "send", "sent", "check", "look", "push", "mask", "returned"}
  /\ {cmd, issued} \subseteq {"data", "status", "stop"} /\ status \in {"success", "error"}
  /\ mMshcCommand \in {"read", "write"} /\ mMshcArgument \in Blocks
  /\ length \in 1 .. MaxLength /\ left \in 0 .. MaxLength
  /\ got \in Seq(Entry) /\ fifo \in Seq(Entry)
  /\ start \in BOOLEAN /\ RINTSTS \subseteq {"CMD_DONE", "DTO"} \cup CmdErrors \cup DataErrors
  /\ xfer \in {"none", "read", "write"} /\ bytcnt \in 0 .. MaxLength /\ crc \in BOOLEAN
  /\ card \in {"tran", "data", "rcv", "prg"} /\ pos \in 0 .. Last + 1
  /\ stored \in Seq([at : Blocks, block : Blocks])

Succeeded(k) ==
  pc = "returned" /\ cmd = "data" /\ status = "success" /\ mMshcCommand = k

(* A read that succeeds has filled the buffer with the blocks asked for, in    *)
(* order, whatever an earlier transfer that failed has left in the FIFO, and   *)
(* those before the last have come intact: the last one's CRC is not waited   *)
(* for.                                                                    *)
ReadRight ==
  Succeeded("read") =>
    /\ Len(got) = length
    /\ \A i \in 1 .. length : got[i].block = mMshcArgument + i - 1
    /\ \A i \in 1 .. length - 1 : got[i].intact

(* The card never stores data under the number of another block, whatever      *)
(* transfers have been given up before, and has stored all of a write that    *)
(* succeeds.                                                               *)
WriteRight ==
  /\ \A i \in DOMAIN stored : stored[i].at = stored[i].block
  /\ Succeeded("write") => Len(stored) = length

(* Either way a transfer that succeeds is exactly the one asked for, after any *)
(* transfers that failed (MshcReadBlockData, MshcWriteBlockData).             *)
TransfersRight == ReadRight /\ WriteRight

(* The state asked for after a transfer is the card's answer to that command:   *)
(* the wait for CMD_DONE is not ended by the late DTO of the transfer, which   *)
(* would leave the response of an earlier command in RESP0.                   *)
StateIsAnswered == pc = "returned" /\ cmd = "status" => ~ start

(* Every call returns, although SendCommand and the end of a write wait without *)
(* a bound.                                                                *)
CallsReturn == (pc \notin {"idle", "returned"}) ~> (pc = "returned")
=============================================================================
