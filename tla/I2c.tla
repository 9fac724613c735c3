-------------------------------- MODULE I2c ---------------------------------
(***************************************************************************)
(* The I2C master (I2cLib.c), as the set of outcomes one transfer can      *)
(* have.  Each transfer starts by resetting the controller (I2cInit), so   *)
(* nothing of a failed one reaches the next; but a transfer that fails is  *)
(* left without its stop condition, and one that fails late has already    *)
(* moved its data: an error says nothing about what the device did.        *)
(***************************************************************************)
EXTENDS Naturals

\* The end of a wait: the awaited bit, a NAK, or the end of the retries.
I2cWait == {"success", "device_error", "timeout"}
I2cStart == I2cWait
I2cStop == I2cWait

Fails(wait) == wait \ {"success"}

\* "fresh": Value holds the device's register, otherwise what it held before.
I2cRead == [status : Fails(I2cStart), fresh : {FALSE}]
      \cup [status : Fails(I2cWait), fresh : {FALSE}]
      \cup [status : I2cStop, fresh : {TRUE}]

\* "written": the device has taken the value.
I2cWrite == [status : Fails(I2cStart), written : {FALSE}]
       \cup [status : Fails(I2cWait), written : BOOLEAN]
       \cup [status : I2cStop, written : {TRUE}]

I2cOk(transfer) == transfer.status = "success"
=============================================================================
