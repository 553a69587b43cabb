----------------------------- MODULE SerialRing -----------------------------
(***************************************************************************)
(* The typeahead buffer of serial.sys (the device extension's              *)
(* InterruptReadBuffer) and the pointer arithmetic the driver does on it.  *)
(* A ring is a record: `slots' is the memory, `size' is BufferSize,        *)
(* `first' and `current' are FirstReadableChar and CurrentCharSlot as      *)
(* offsets from InterruptReadBuffer, `count' is CharsInInterruptBuffer.    *)
(* LastCharSlot is always the slot size - 1 while the interrupt service    *)
(* routine writes to the ring, so it needs no field.                       *)
(*                                                                         *)
(* The code does not keep first, current and count in step: a read moves   *)
(* `first' under the control lock and lowers `count' later, at device      *)
(* level.  Skip and Release are therefore two operators.                   *)
(***************************************************************************)
EXTENDS Naturals, Sequences

CONSTANT Stale  \* what a slot holds before a character is stored in it

\* The rings of n slots with characters from S.
Rings(n, S) ==
  [slots : [0 .. n - 1 -> S], size : {n}, first : 0 .. n - 1,
   current : 0 .. n - 1, count : 0 .. n]

IsRing(r, S) == r.size \in Nat \ {0} /\ r \in Rings(r.size, S)

EmptyRing(n) ==
  [slots |-> [k \in 0 .. n - 1 |-> Stale], size |-> n,
   first |-> 0, current |-> 0, count |-> 0]

\* Moving a pointer n slots on, back to slot 0 after the last one.
\* Mutant: back only when it is one slot past the end already.
AdvanceTooFar(r, slot, n) ==
  IF slot + n <= r.size THEN slot + n ELSE slot + n - r.size
Advance(r, slot, n) ==
  IF slot + n < r.size THEN slot + n ELSE slot + n - r.size

\* The character k places (k >= 1) after FirstReadableChar.
CharAt(r, k) == r.slots[Advance(r, r.first, k - 1)]

\* The first n characters a read would copy out.
CopyOut(r, n) == [k \in 1 .. n |-> CharAt(r, k)]

\* What the ring holds: the characters a read of any length would be given.
Content(r) == CopyOut(r, r.count)

\* SerialPutChar storing into a ring with room.
Put(r, c) ==
  [r EXCEPT !.slots = [@ EXCEPT ![r.current] = c],
            !.count = @ + 1,
            !.current = Advance(r, @, 1)]

\* SerialGetCharsFromIntBuffer moving FirstReadableChar past n characters.
\* Mutant: the pointer stays where it was.
SkipNothing(r, n) == r
Skip(r, n) == [r EXCEPT !.first = Advance(r, @, n)]

\* SerialUpdateInterruptBuffer taking them off the count.
Release(r, n) == [r EXCEPT !.count = @ - n]

\* The three pointers back at the base of the buffer.
Reset(r) == [r EXCEPT !.first = 0, !.current = 0, !.count = 0]

\* The larger buffer SerialResizeBuffer installs, the characters moved over.
Resized(r, n) ==
  [slots |-> [k \in 0 .. n - 1 |-> IF k < r.count THEN Content(r)[k + 1] ELSE Stale],
   size |-> n, first |-> 0, current |-> r.count, count |-> r.count]

\* The pointers and the count agree when `copied' characters have been
\* skipped but not yet released.
Aligned(r, copied) ==
  /\ copied <= r.count
  /\ r.count <= r.size
  /\ Advance(r, r.first, r.count - copied) = r.current
=============================================================================
