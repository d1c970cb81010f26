----------------------------- MODULE UserAccess ------------------------------
(***************************************************************************)
(* utils.c: which blocks of memory a system call accepts from its caller,  *)
(* and the copies from and to there.  Addresses are unsigned and wrap      *)
(* around at ADDRESSES; the byte stored at an address is named by that     *)
(* address.                                                                *)
(***************************************************************************)
EXTENDS Integers, Sequences

CONSTANTS
  ADDRESSES,        \* 2^32 in the source
  PAGE_SIZE,        \* 4096 in the source
  USER_FIRST_PAGE,
  NUM_PAG_CODE,
  NUM_PAG_DATA

ASSUME AccessAssumption ==
  /\ {ADDRESSES, PAGE_SIZE, USER_FIRST_PAGE} \subseteq Nat \ {0}
  /\ {NUM_PAG_CODE, NUM_PAG_DATA} \subseteq Nat
  /\ ADDRESSES % PAGE_SIZE = 0
  /\ (USER_FIRST_PAGE + NUM_PAG_CODE + NUM_PAG_DATA + 1) * PAGE_SIZE <= ADDRESSES

Page(addr) == addr \div PAGE_SIZE

\* The address k bytes after addr.
Offset(addr, k) == (addr + k) % ADDRESSES

EndOfData == USER_FIRST_PAGE + NUM_PAG_CODE + NUM_PAG_DATA

\* Mutant: no overflow check.
access_ok_wraps(type, addr, size) ==
  USER_FIRST_PAGE <= Page(addr) /\ Page(Offset(addr, size)) <= EndOfData

(* The case VERIFY_WRITE falls through to the one of VERIFY_READ, so a block
   that touches code pages is accepted for both. *)
access_ok(type, addr, size) ==
  LET addr_ini == Page(addr)
      addr_fin == Page(Offset(addr, size))
  IN  /\ addr_ini <= addr_fin
      /\ \/ /\ type = "VERIFY_WRITE"
            /\ USER_FIRST_PAGE + NUM_PAG_CODE <= addr_ini /\ addr_fin <= EndOfData
         \/ USER_FIRST_PAGE <= addr_ini /\ addr_fin <= EndOfData

\* The bytes that copy_from_user moves, first to last.
copy_from_user(start, size) == [k \in 1 .. size |-> Offset(start, k - 1)]

\* The addresses that copy_to_user stores to.
copy_to_user(dest, size) == {Offset(dest, k) : k \in 0 .. size - 1}
=============================================================================
