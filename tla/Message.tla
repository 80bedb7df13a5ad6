------------------------------- MODULE Message ------------------------------
(***************************************************************************)
(* The IPC message of ipc/message.rs as a value: two constructors, the     *)
(* accessors, and take_handles(), which returns a new message besides its  *)
(* result.  Arrays are functions on 1 .. their size, filled up with zero   *)
(* bytes or the invalid handle; sender and tx_id are only stored.          *)
(***************************************************************************)
EXTENDS Integers, Sequences

CONSTANTS
  MAX_INLINE_PAYLOAD,
  MAX_HANDLES,
  VMO_REFERENCE_SIZE,   \* size_of::<VmoReference>()
  INVALID               \* Handle::INVALID

Error(what) == [error |-> what]
IsError(m) == "error" \in DOMAIN m

\* copy_from_slice() into the front of a filled array.
Array(size, s, fill) == [i \in 1 .. size |-> IF i <= Len(s) THEN s[i] ELSE fill]

\* The first n elements.
Slice(a, n) == [i \in 1 .. n |-> a[i]]

New(flag, size, payload, handles) ==
  [payload_size |-> size, num_handles |-> Len(handles), flag |-> flag,
   payload |-> payload, handles |-> Array(MAX_HANDLES, handles, INVALID)]

new_inline(data, handles) ==
  IF Len(data) > MAX_INLINE_PAYLOAD THEN Error("PayloadTooLarge")
  ELSE IF Len(handles) > MAX_HANDLES THEN Error("TooManyHandles")
  ELSE New("INLINE_PAYLOAD", Len(data), Array(MAX_INLINE_PAYLOAD, data, 0), handles)

\* The payload is the bytes of a VmoReference, which names the handle again.
new_zero_copy(vmo, offset, size, handles) ==
  IF Len(handles) + 1 > MAX_HANDLES THEN Error("TooManyHandles")
  ELSE New("ZERO_COPY_VMO", VMO_REFERENCE_SIZE,
           [handle |-> vmo, offset |-> offset, size |-> size], <<vmo>> \o handles)

payload(m) == Slice(m.payload, m.payload_size)
handles_of(m) == Slice(m.handles, m.num_handles)

\* The message that take_handles() leaves; its result is handles_of(m).
take_handles(m) ==
  [m EXCEPT !.num_handles = 0,
            !.handles = [i \in 1 .. MAX_HANDLES |->
                           IF i <= m.num_handles THEN INVALID ELSE @[i]]]

is_zero_copy(m) == m.flag = "ZERO_COPY_VMO"
has_vmo_reference(m) == is_zero_copy(m) /\ VMO_REFERENCE_SIZE <= m.payload_size
vmo_reference(m) == m.payload
=============================================================================
