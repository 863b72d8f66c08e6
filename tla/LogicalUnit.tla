----------------------------- MODULE LogicalUnit -----------------------------
(* What the mass storage function promises the host: commands are served one at  *)
(* a time and block by block.  A block that is read is one the disk held at one    *)
(* moment of the command; a block that is written is on the disk before the next   *)
(* is asked for and before the command passes; a refused command writes nothing.   *)
EXTENDS Integers

CONSTANTS
  Commands,   \* records of op, addr and n
  Lba, Fixed, \* the blocks, and those that are not stored
  Data, NULL

VARIABLES
  disk,
  command,   \* the command being served, or NULL
  done,      \* the blocks of it that were moved
  buffer,    \* the block between disk and host, or NULL
  status     \* "pass" or "fail" once it is known, or NULL

vars == <<disk, command, done, buffer, status>>
Idle == command = NULL /\ done = 0 /\ buffer = NULL /\ status = NULL
Serving(op) == command # NULL /\ command.op = op /\ status = NULL
Here == command.addr + done

Init == Idle

Begin == Idle /\ command' \in Commands /\ UNCHANGED <<disk, done, buffer, status>>
Refuse ==
  /\ Idle /\ command' \in Commands /\ command'.op = "write"
  /\ status' = "fail"
  /\ UNCHANGED <<disk, done, buffer>>

Moved ==
  /\ buffer' = NULL /\ done' = done + 1
  /\ UNCHANGED command

Fetch ==
  /\ Serving("read") /\ buffer = NULL /\ done < command.n
  /\ buffer' = disk[Here]
  /\ UNCHANGED <<disk, command, done, status>>
Give ==
  /\ Serving("read") /\ buffer # NULL
  /\ Moved
  /\ status' = IF done' = command.n THEN "pass" ELSE NULL
  /\ UNCHANGED disk

Receive ==
  /\ Serving("write") /\ buffer = NULL /\ done < command.n
  /\ buffer' \in Data
  /\ UNCHANGED <<disk, command, done, status>>
Commit ==
  /\ Serving("write") /\ buffer # NULL
  /\ disk' = [disk EXCEPT ![Here] = IF Here \in Fixed THEN @ ELSE buffer]
  /\ Moved
  /\ UNCHANGED status
Pass ==
  /\ Serving("write") /\ done = command.n
  /\ status' = "pass"
  /\ UNCHANGED <<disk, command, done, buffer>>

End == status # NULL /\ Idle' /\ UNCHANGED disk

(* The program in the device may write too.                                       *)
Program ==
  /\ \E b \in Lba \ Fixed, d \in Data : disk' = [disk EXCEPT ![b] = d]
  /\ UNCHANGED <<command, done, buffer, status>>

Next ==
  \/ Begin \/ Refuse \/ Fetch \/ Give \/ Receive \/ Commit \/ Pass \/ End \/ Program

Spec == Init /\ [][Next]_vars
=============================================================================
