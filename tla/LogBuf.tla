-------------------------------- MODULE LogBuf --------------------------------
(***************************************************************************)
(* The log ring (logbuf.c): every task's log lines go into a ring of Cap   *)
(* bytes under a lock, and a reader asks for the bytes after a position.   *)
(* Positions count the bytes ever written in 32 bits and wrap at W.  A     *)
(* byte is told apart by its number among all the bytes logged, so that    *)
(* what a reader gets can be compared with what was logged.                *)
(***************************************************************************)
EXTENDS Integers, Sequences

CONSTANTS Cap,      \* LOGBUF_CAP
          W,        \* 2^32, the number of positions
          LineCap   \* the longest line logbuf_vprintf keeps: 255

ASSUME CapAssumption  == Cap \in Nat \ {0}
ASSUME LineAssumption == LineCap \in 1 .. Cap
ASSUME WAssumption    == W \in Nat /\ W > Cap

VARIABLES
  ring,     \* s_ring
  total,    \* s_total_written
  written,  \* history: the bytes ever logged, over all boots and wraps
  origin,   \* history: those logged before this boot
  torn      \* history: the positions below it are those of the line that
            \* was being written when the count wrapped

bufVars == << ring, total, written, origin, torn >>

Blank == 0 - 1

BufInit ==
  /\ ring = [q \in 0 .. Cap - 1 |-> Blank]
  /\ total = 0 /\ written = 0 /\ origin = 0 /\ torn = 0

AtMost(n, limit) == IF n <= limit THEN n ELSE limit

(* What of a line reaches the ring (logbuf_vprintf cuts it, logbuf_write     *)
(* would keep the end of what is longer than the ring).                      *)
Kept(len) == AtMost(AtMost(len, LineCap), Cap)

(* Mutant: the last slot is left out.                                        *)
FirstOff(pos, n) == AtMost(n, Cap - pos - 1)

(* What fits between a slot and the end of the ring.                         *)
First(pos, n) == AtMost(n, Cap - pos)

(* One line: copied up to the end of the ring, then from its start.          *)
LogWrite(len) ==
  LET n     == Kept(len)
      pos   == total % Cap
      first == First(pos, n)
  IN /\ ring' = [q \in 0 .. Cap - 1 |->
                   CASE q \in pos .. pos + first - 1 -> written + (q - pos)
                     [] q \in 0 .. n - first - 1     -> written + (first + q)
                     [] OTHER -> ring[q]]
     /\ total' = (total + n) % W
     /\ written' = written + n
     /\ torn' = IF total + n >= W THEN total + n - W ELSE torn
     /\ UNCHANGED origin

(* The RAM starts out as zeros.                                              *)
Restart ==
  /\ ring' = [q \in 0 .. Cap - 1 |-> Blank]
  /\ total' = 0 /\ torn' = 0 /\ origin' = written /\ UNCHANGED written

(* Mutant: one position too old.                                             *)
OldestOff == IF total > Cap THEN total - Cap - 1 ELSE 0

(* The oldest position the ring still has, as the code computes it.          *)
Oldest == IF total > Cap THEN total - Cap ELSE 0

(* Mutant: no room is kept for the terminator.                               *)
RoomForAll(outSize) == outSize

Room(outSize) == outSize - 1

(* logbuf_read: at most outSize - 1 bytes from `after' on, or from the       *)
(* oldest when that position is gone or is none.                             *)
LogRead(after, outSize) ==
  LET lost  == after < Oldest \/ after > total
      start == IF lost THEN Oldest ELSE after
      n     == AtMost(total - start, Room(outSize))
      pos   == start % Cap
      first == First(pos, n)
  IN [text    |-> [i \in 1 .. n |-> IF i <= first THEN ring[pos + i - 1] ELSE ring[i - first - 1]],
      next    |-> start + n,
      dropped |-> lost]

-------------------------------------------------------------------------------
(* The ring holds what was logged: every position a reader may get, except  *)
(* those of a line that was being written when the count wrapped, has the    *)
(* byte that was written there, whatever overwrote the rest (logbuf_write).  *)
Slot(p) == p % Cap

RingHolds ==
  \A p \in 0 .. total - 1 :
    p >= Oldest /\ p >= torn => ring[Slot(p)] = written - (total - p)
===============================================================================
