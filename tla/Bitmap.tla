-------------------------------- MODULE Bitmap --------------------------------
(***************************************************************************)
(* kernel/bitmap.c: a set of numbers kept as bits of 32-bit words.         *)
(* bitmap.h takes a word to hold sizeof(word_t) * 32 = 128 bits, so that   *)
(* the mask 1 << BIT_OFFSET(n) is shifted out of the word for 96 of every  *)
(* 128 numbers: on the machine the kernel is built for the mask is then 0, *)
(* and the bit can be neither set nor read.  A bitmap is the set of        *)
(* numbers whose bit is set.                                               *)
(***************************************************************************)
EXTENDS Integers

CONSTANTS
  BitsPerWord,  \* BITS_PER_WORD (128)
  WordBits      \* the bits of a word_t (32)

ASSUME BitmapAssumption ==
  /\ BitsPerWord \in Nat \ {0}
  /\ WordBits \in Nat \ {0}

HasBit(n) == n % BitsPerWord < WordBits

SetBit(bits, n) == IF HasBit(n) THEN bits \cup {n} ELSE bits

ClearBit(bits, n) == bits \ {n}

GetBit(bits, n) == n \in bits
=============================================================================
