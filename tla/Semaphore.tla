----------------------------- MODULE Semaphore -----------------------------
(***************************************************************************)
(* What a counting semaphore promises: a wait completes only against the   *)
(* initial value or a post, each of which is used once.                    *)
(***************************************************************************)
EXTENDS Integers

CONSTANT Value               \* the initial value

VARIABLES value,             \* the semaphore's value
          posts, waits       \* how many posts and waits have completed

svars == <<value, posts, waits>>

SemInit == value = Value /\ posts = 0 /\ waits = 0

SemPost ==
  /\ value' = value + 1
  /\ posts' = posts + 1
  /\ UNCHANGED waits

SemWait ==
  /\ value > 0
  /\ value' = value - 1
  /\ waits' = waits + 1
  /\ UNCHANGED posts

SemSpec == SemInit /\ [][SemPost \/ SemWait]_svars
=============================================================================
