------------------------------- MODULE Buffer -------------------------------
(***************************************************************************)
(* crypto::buffer_struct (utils.h): an array of max_size_ characters of    *)
(* which the first size_ are in use.  append and the copy constructor are  *)
(* operators on the value of a buffer; what new char[] leaves in an array  *)
(* is garbage.                                                             *)
(***************************************************************************)
EXTENDS Integers, Sequences

CONSTANTS
    Char,       \* what is stored
    garbage     \* what an array holds where nothing was stored

ASSUME GarbageAssumption == garbage \notin Char

\* buffer_struct(): no array.
Empty == [data |-> [i \in 0 .. -1 |-> garbage], size_ |-> 0, max_size_ |-> 0]

\* Mutant: the new array is not filled from the old one.
MovedUnfilled(b, n) ==
    [data |-> [i \in 0 .. n - 1 |-> garbage], size_ |-> b.size_, max_size_ |-> n]

\* The first size_ characters of b in a new array of length n.
Moved(b, n) ==
    [data |-> [i \in 0 .. n - 1 |-> IF i < b.size_ THEN b.data[i] ELSE garbage],
     size_ |-> b.size_,
     max_size_ |-> n]

\* b with an array of at least required_size.
Room(b, required_size) ==
    IF required_size > b.max_size_ THEN Moved(b, required_size * 2) ELSE b

\* memcpy(data + size_, ptr, size) and size_ += size, within the array.
Stored(b, chunk) ==
    [data |-> [i \in DOMAIN b.data |->
                  IF i \in b.size_ .. b.size_ + Len(chunk) - 1
                  THEN chunk[i - b.size_ + 1] ELSE b.data[i]],
     size_ |-> b.size_ + Len(chunk),
     max_size_ |-> b.max_size_]

append(b, chunk) == Stored(Room(b, b.size_ + Len(chunk)), chunk)

\* buffer_struct(const buffer_struct&)
Copied(b) == Moved(b, b.max_size_)

\* What every buffer satisfies: the array has the length it claims, and every
\* character in use has been stored.
IsBuffer(b) ==
    /\ b.size_ \in Nat /\ b.max_size_ \in Nat
    /\ b.size_ <= b.max_size_
    /\ b.data \in [0 .. b.max_size_ - 1 -> Char \cup {garbage}]
    /\ \A i \in 0 .. b.size_ - 1 : b.data[i] \in Char

\* The characters in use.
Contents(b) == [i \in 1 .. b.size_ |-> b.data[i - 1]]
=============================================================================
