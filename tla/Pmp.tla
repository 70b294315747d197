-------------------------------- MODULE Pmp ---------------------------------
(* The addresses that pmp.c gives to physical memory protection.           *)
EXTENDS Integers

AddressBits == 16   \* bound: addresses are below 2^AddressBits

Bit(n, k) == (n \div 2^k) % 2

(* "a | b": or[k] is that of the k lowest bits. *)
BitOr(a, b) ==
  LET or[k \in 0..AddressBits] ==
        IF k = 0 THEN 0
        ELSE or[k - 1] + (IF 1 \in {Bit(a, k - 1), Bit(b, k - 1)} THEN 2^(k - 1) ELSE 0)
  IN  or[AddressBits]

(* The power of two that n is rounded up to. *)
NextPowerOf2(n) ==
  LET enough == {k \in 0..AddressBits : 2^k >= n}
  IN  2^(CHOOSE k \in enough : \A j \in enough : k <= j)

(* pmp_napot_addr: "(base >> 2) | ((napot_size >> 3) - 1)" *)
NapotAddr(base, size) == BitOr(base \div 4, NextPowerOf2(size) \div 8 - 1)

(* The same in v1-secure, where the size is taken as it is. *)
NapotOf(base, size) == BitOr(base \div 4, size \div 8 - 1)

(* The region that the hardware makes of it: the ones at the end give the  *)
(* size, the rest the base.                                                *)
Region(addr) ==
  LET ones == CHOOSE k \in 0..AddressBits : Bit(addr, k) = 0 /\ \A j \in 0..k - 1 : Bit(addr, j) = 1
      base == (addr - (2^ones - 1)) * 4
  IN  base..base + 2^(ones + 3) - 1
=============================================================================
