------------------------------- MODULE TaskId -------------------------------
(***************************************************************************)
(* The identifiers of task/task_id.rs and object/handle.rs: one word with  *)
(* a generation in its upper and a slot's index in its lower half.  A half *)
(* has Half values, 2^32 in the source.                                    *)
(***************************************************************************)
EXTENDS Integers

CONSTANT Half

HalfWord == 0 .. Half - 1
Raw == 0 .. Half * Half - 1

new(index, generation) == generation * Half + index
index_of(raw) == raw % Half
generation_of(raw) == raw \div Half

IDLE == 0
next_generation(raw) == (raw + Half) % (Half * Half)
=============================================================================
