-------------------------------- MODULE Buffer --------------------------------
(***************************************************************************)
(* keymaster::Buffer (src/google_keymaster_utils.cpp): a byte array        *)
(* buffer_ of buffer_size_ bytes with a read and a write position, and     *)
(* the calls that change it: reserve, both Reinitialize overloads, write,  *)
(* read, Deserialize, and construction and destruction.                    *)
(*                                                                         *)
(* Data abstraction: a byte is a member of Bytes, or Garbage for a byte of *)
(* a new array nothing has written.  storage says what buffer_ points to:  *)
(* NULL, an array the Buffer owns, or an array already deleted.  new[]     *)
(* throws rather than returning NULL, so the NULL checks after it are dead *)
(* code.  Callers use a Buffer whose Deserialize failed only to refill or  *)
(* destroy it (a message that fails to parse is discarded).               *)
(***************************************************************************)
EXTENDS Naturals, Sequences

CONSTANTS
  Bytes,     \* byte values
  Wires,     \* serialized inputs: [len |-> length prefix, data |-> bytes after it]
  MaxSize    \* bound: buffer_size_ and the length of any byte string

Garbage == "?"

VARIABLES
  exists,    \* the Buffer object is alive
  storage,   \* what buffer_ points to: "null", "owned" or "deleted"
  mem,       \* the bytes of buffer_ while it is owned
  size,      \* buffer_size_
  rpos,      \* read_position_
  wpos,      \* write_position_
  last       \* latest call: [call, in, n, ok, out]

vars == <<exists, storage, mem, size, rpos, wpos, last>>

Strings == UNION {[1 .. k -> Bytes] : k \in 0 .. MaxSize}
Fresh(k) == [i \in 1 .. k |-> Garbage]

available_write == size - wpos
available_read == wpos - rpos

Answer(call, in, n, ok, out) ==
  last' = [call |-> call, in |-> in, n |-> n, ok |-> ok, out |-> out]

\* A buffer its owner reads, writes or grows: alive, and not left by a
\* failed Deserialize.
Usable == exists /\ ~(last.call = "deserialize" /\ ~last.ok)

Max2(a, b) == IF a >= b THEN a ELSE b

(***************************************************************************)
(* Mutants: each is the definition after it with one plausible bug.        *)
(***************************************************************************)
reserveNoRebase(k) ==
  /\ Usable
  /\ IF available_write < k
     THEN LET new_size == size + k - available_write IN
          /\ new_size <= MaxSize
          /\ mem' = SubSeq(mem, rpos + 1, wpos) \o Fresh(new_size - available_read)
          /\ storage' = "owned"
          /\ size' = new_size
          /\ UNCHANGED <<rpos, wpos>>
     ELSE UNCHANGED <<mem, storage, size, rpos, wpos>>
  /\ Answer("reserve", <<>>, k, TRUE, <<>>)
  /\ UNCHANGED exists

reserveExactSize(k) ==
  /\ Usable
  /\ IF available_write < k
     THEN LET new_size == k IN
          /\ new_size <= MaxSize
          /\ mem' = SubSeq(mem, rpos + 1, wpos) \o Fresh(new_size - available_read)
          /\ storage' = "owned"
          /\ size' = new_size
          /\ wpos' = wpos - rpos
          /\ rpos' = 0
     ELSE UNCHANGED <<mem, storage, size, rpos, wpos>>
  /\ Answer("reserve", <<>>, k, TRUE, <<>>)
  /\ UNCHANGED exists

writeOffByOne(d) ==
  /\ Usable
  /\ IF available_write + 1 < Len(d)
     THEN /\ Answer("write", d, 0, FALSE, <<>>)
          /\ UNCHANGED <<mem, wpos>>
     ELSE /\ mem' = [i \in 1 .. Max2(Len(mem), wpos + Len(d)) |->
                       IF wpos < i /\ i <= wpos + Len(d) THEN d[i - wpos] ELSE mem[i]]
          /\ wpos' = wpos + Len(d)
          /\ Answer("write", d, 0, TRUE, <<>>)
  /\ UNCHANGED <<exists, storage, size, rpos>>

(***************************************************************************)
(* The Buffer.                                                             *)
(***************************************************************************)

\* Buffer(): buffer_ NULL, every size and position 0.
Construct ==
  /\ ~exists
  /\ exists' = TRUE
  /\ storage' = "null"
  /\ mem' = <<>>
  /\ size' = 0 /\ rpos' = 0 /\ wpos' = 0
  /\ Answer("construct", <<>>, 0, TRUE, <<>>)

Init ==
  /\ exists = FALSE /\ storage = "null" /\ mem = <<>>
  /\ size = 0 /\ rpos = 0 /\ wpos = 0
  /\ last = [call |-> "construct", in |-> <<>>, n |-> 0, ok |-> TRUE, out |-> <<>>]

\* ~Buffer: delete[] buffer_.
Destroy ==
  /\ exists
  /\ exists' = FALSE
  /\ storage' = IF storage = "null" THEN "null" ELSE "deleted"
  /\ Answer("destroy", <<>>, 0, TRUE, <<>>)
  /\ UNCHANGED <<mem, size, rpos, wpos>>

\* reserve(k): when fewer than k bytes are free, copy the unread bytes to
\* the front of a new array with room for k more; the old array is not
\* deleted.
reserve(k) ==
  /\ Usable
  /\ IF available_write < k
     THEN LET new_size == size + k - available_write IN
          /\ new_size <= MaxSize
          /\ mem' = SubSeq(mem, rpos + 1, wpos) \o Fresh(new_size - available_read)
          /\ storage' = "owned"
          /\ size' = new_size
          /\ wpos' = wpos - rpos
          /\ rpos' = 0
     ELSE UNCHANGED <<mem, storage, size, rpos, wpos>>
  /\ Answer("reserve", <<>>, k, TRUE, <<>>)
  /\ UNCHANGED exists

\* Reinitialize(size): delete[] buffer_, then a new empty array.
ReinitializeSize(k) ==
  /\ exists
  /\ storage' = "owned"
  /\ mem' = Fresh(k)
  /\ size' = k /\ rpos' = 0 /\ wpos' = 0
  /\ Answer("reinitialize", <<>>, 0, TRUE, <<>>)
  /\ UNCHANGED exists

\* Reinitialize(data, data_len): delete[] buffer_, then a copy of data.
ReinitializeData(d) ==
  /\ exists
  /\ storage' = "owned"
  /\ mem' = d
  /\ size' = Len(d) /\ rpos' = 0 /\ wpos' = Len(d)
  /\ Answer("reinitialize", d, 0, TRUE, <<>>)
  /\ UNCHANGED exists

\* write(src, len): fails unless len bytes are free; copies at the write
\* position.
write(d) ==
  /\ Usable
  /\ IF available_write < Len(d)
     THEN /\ Answer("write", d, 0, FALSE, <<>>)
          /\ UNCHANGED <<mem, wpos>>
     ELSE /\ mem' = [i \in 1 .. Len(mem) |->
                       IF wpos < i /\ i <= wpos + Len(d) THEN d[i - wpos] ELSE mem[i]]
          /\ wpos' = wpos + Len(d)
          /\ Answer("write", d, 0, TRUE, <<>>)
  /\ UNCHANGED <<exists, storage, size, rpos>>

\* read(dest, len): fails unless len bytes are unread; copies from the read
\* position.
read(k) ==
  /\ Usable
  /\ IF available_read < k
     THEN /\ Answer("read", <<>>, k, FALSE, <<>>)
          /\ UNCHANGED rpos
     ELSE /\ rpos' = rpos + k
          /\ Answer("read", <<>>, k, TRUE, SubSeq(mem, rpos + 1, rpos + k))
  /\ UNCHANGED <<exists, storage, mem, size, wpos>>

\* Deserialize: delete[] buffer_, then copy_size_and_data_from_buf reads
\* the length prefix into buffer_size_ and, if that many bytes follow, a
\* new array with them.  When they do not, it fails with buffer_ still
\* pointing at the deleted array, and buffer_size_ either unchanged or the
\* length just read.
Deserialize(w) ==
  /\ exists
  /\ IF w.len <= Len(w.data)
     THEN /\ storage' = "owned"
          /\ mem' = SubSeq(w.data, 1, w.len)
          /\ size' = w.len /\ rpos' = 0 /\ wpos' = w.len
          /\ Answer("deserialize", mem', 0, TRUE, <<>>)
     ELSE /\ storage' = IF storage = "null" THEN "null" ELSE "deleted"
          /\ size' \in {size, w.len}
          /\ Answer("deserialize", <<>>, 0, FALSE, <<>>)
          /\ UNCHANGED <<mem, rpos, wpos>>
  /\ UNCHANGED exists

Next ==
  \/ Construct
  \/ Destroy
  \/ \E k \in 0 .. MaxSize : reserve(k) \/ ReinitializeSize(k) \/ read(k)
  \/ \E d \in Strings : ReinitializeData(d) \/ write(d)
  \/ \E w \in Wires : Deserialize(w)

Spec == Init /\ [][Next]_vars

(***************************************************************************)
(* Properties.                                                             *)
(***************************************************************************)

\* Type of the state, with the representation invariant spec 3.4 states
\* (read_position <= write_position <= buffer_size) and the array holding
\* buffer_size_ bytes, for every buffer its owner may use.
TypeOK ==
  /\ exists \in BOOLEAN
  /\ storage \in {"null", "owned", "deleted"}
  /\ mem \in Seq(Bytes \cup {Garbage}) /\ Len(mem) <= MaxSize
  /\ Usable => /\ rpos <= wpos /\ wpos <= size
               /\ storage = "owned" => Len(mem) = size
               /\ storage = "null" => size = 0

\* reserve(k) returning true leaves room for k more bytes, whatever was
\* already written and read.
ReserveMakesRoom ==
  [][last'.call = "reserve" /\ last'.ok => size' - wpos' >= last'.n]_vars

\* Every delete[] of buffer_ (in ~Buffer, Reinitialize and Deserialize)
\* deletes an array the Buffer still owns, never one already deleted.
NoDoubleDelete ==
  [][last'.call \in {"destroy", "reinitialize", "deserialize"} => storage # "deleted"]_vars

\* The Buffer implements ByteQueue: the unread bytes of buffer_ are the
\* queue.
AbsQueue == IF Usable THEN SubSeq(mem, rpos + 1, wpos) ELSE <<>>

Abs == INSTANCE ByteQueue WITH queue <- AbsQueue

Refinement == Abs!Spec

=============================================================================
