----------------------------- MODULE FlashImage ------------------------------
(***************************************************************************)
(* What writing a HEX file to flash promises, without pages, records or a  *)
(* page buffer: the bytes of an image are collected in any order, the ones *)
(* collected are programmed each at its own address and nothing else is    *)
(* touched, and the writer is finished only when the whole image is in     *)
(* memory.  FlashWriter is shown to implement it.                          *)
(***************************************************************************)
CONSTANTS
  Images,   \* the images, functions from their addresses to bytes
  Memories  \* what the memory may hold before

VARIABLES
  image,    \* the image being written
  memory,   \* a function from addresses to bytes
  pending,  \* addresses of the bytes collected and not yet programmed
  finished

vars == <<image, memory, pending, finished>>

Init ==
  /\ image \in Images
  /\ memory \in Memories
  /\ pending = {}
  /\ finished = FALSE

Collect(a) ==
  /\ ~finished
  /\ pending' = pending \cup {a}
  /\ UNCHANGED <<image, memory, finished>>

\* Bits can only be cleared, so programming intersects.
Program ==
  /\ ~finished
  /\ memory' = [a \in DOMAIN memory |->
                  IF a \in pending THEN memory[a] \cap image[a] ELSE memory[a]]
  /\ pending' = {}
  /\ UNCHANGED <<image, finished>>

Finish ==
  /\ ~finished
  /\ pending = {}
  /\ \A a \in DOMAIN image : memory[a] \subseteq image[a]
  /\ finished' = TRUE
  /\ UNCHANGED <<image, memory, pending>>

Next == (\E a \in DOMAIN image : Collect(a)) \/ Program \/ Finish

Spec == Init /\ [][Next]_vars
=============================================================================
