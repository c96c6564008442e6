----------------------------- MODULE MemoryLabels -----------------------------
(***************************************************************************)
(* Labels that stand for memory accesses: a number whose lowest four bits  *)
(* are the flags load, release or acquire, assume and equal, whose next    *)
(* eight bits are a byte and whose highest bits are an address.            *)
(***************************************************************************)
EXTENDS Naturals

shift_byte == 16
shift_address == shift_byte * 256

none_store_label(a, b) == a * shift_address + b * shift_byte
none_load_label(a) == none_store_label(a, 0) + 1
release_store_label(a, b) == none_store_label(a, b) + 2
acquire_load_label(a) == release_store_label(a, 0) + 1
assume_acquire_neq_label(a, b) == acquire_load_label(a) + b * shift_byte + 4
assume_acquire_eq_label(a, b) == assume_acquire_neq_label(a, b) + 8

is_none_store(op) == op % 4 = 0
is_none_load(op) == op % 4 = 1
is_release_store(op) == op % 4 = 2
is_acquire_load(op) == op % 4 = 3
is_store(op) == is_none_store(op) \/ is_release_store(op)
is_load(op) == is_none_load(op) \/ is_acquire_load(op)
is_assume(op) == (op \div 4) % 2 = 1
is_assume_acquire_eq(op) == (op \div 4) % 4 = 3
is_assume_acquire_neq(op) == (op \div 4) % 4 = 1

byte(op) == (op \div shift_byte) % 256
address(op) == op \div shift_address
=============================================================================
