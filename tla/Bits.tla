-------------------------------- MODULE Bits --------------------------------
(***************************************************************************)
(* Unsigned integers of a fixed width, as the sets of the positions of     *)
(* their set bits: 0 is the lowest.  And and or are intersection and       *)
(* union, ## is exclusive or.                                              *)
(***************************************************************************)
EXTENDS Integers, FiniteSetsExt

\* The words of w bits.
Words(w) == SUBSET (0..(w - 1))

\* A number below 2^16 as a word, and a byte as a number.
BitsOf(n) == {i \in 0..15 : (n \div 2^i) % 2 = 1}
ValueOf(b) == MapThenSumSet(LAMBDA i : 2^i, b)

a ## b == (a \ b) \cup (b \ a)

Shl(x, n, w) == {i \in n..(w - 1) : i - n \in x}
Shr(x, n) == {i - n : i \in {j \in x : j >= n}}
Rotr(x, n, w) == {(i + w - n) % w : i \in x}

\* Sum modulo 2^w: carries are added until there are none.
Plus(x, y, w) ==
  LET add[a \in Words(w), b \in Words(w)] ==
        IF b = {} THEN a ELSE add[a ## b, Shl(a \cap b, 1, w)]
  IN add[x, y]

Times(x, y, w) == FoldSet(LAMBDA i, sum : Plus(sum, Shl(x, i, w), w), {}, y)
=============================================================================
