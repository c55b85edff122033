--------------------------------- MODULE Disk ---------------------------------
(***************************************************************************)
(* What the block cache of fs.c promises to the file system: a disk.  A    *)
(* read answers the block's latest contents or fails, a write is there at  *)
(* once, and buffers, hashing and replacement are invisible.               *)
(***************************************************************************)
CONSTANTS Blocks, Contents, Failure

VARIABLES
  disk,    \* the contents of each block
  answer   \* block and contents returned by the last read, or Failure

diskvars == <<disk, answer>>

Answers == [block : Blocks, data : Contents] \cup {Failure}

DiskInit == disk \in [Blocks -> Contents] /\ answer = Failure

ReadBlock == /\ \/ \E b \in Blocks : answer' = [block |-> b, data |-> disk[b]]
                \/ answer' = Failure
             /\ UNCHANGED disk

WriteBlock == /\ \E b \in Blocks, d \in Contents : disk' = [disk EXCEPT ![b] = d]
              /\ UNCHANGED answer

DiskSpec == DiskInit /\ [][ReadBlock \/ WriteBlock]_diskvars
==============================================================================
