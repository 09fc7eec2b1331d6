------------------------------ MODULE Buffers -------------------------------
(***************************************************************************)
(* File sizes, record sizes and the buffers that files are written from    *)
(* and compared with: get_next_file_size, get_record_size_to_use,          *)
(* create_biggest_buf, prepare_buf and the record loops of do_create,      *)
(* do_write, do_read and the swift operations.                             *)
(*                                                                         *)
(* p is a record of the fields of a SmallfileWorkload: record_sz_kb,       *)
(* total_sz_kb, random (sizes), xattr_size, xattr_count, incompressible,   *)
(* tid.  A byte of the big buffer is named by the position it was made at. *)
(***************************************************************************)
EXTENDS Integers, Sequences, Powers

CONSTANTS
  BYTES_PER_KB,
  random_seg_size_bits,
  biggest_buf_size_bits,
  buf_offset_range,      \* extra space at the end of the big buffer
  random_size_limit      \* largest random size, in mean sizes

random_segment_size == Power(2)[random_seg_size_bits]
biggest_buf_size == Power(2)[biggest_buf_size_bits]

\* All of these are 2^10 in the code, and the biggest buffer is 2^20.
ASSUME BuffersAssumption ==
  /\ {BYTES_PER_KB, buf_offset_range, random_size_limit} \subseteq Nat \ {0}
  /\ {random_seg_size_bits, biggest_buf_size_bits} \subseteq Nat \ {0}
  /\ random_seg_size_bits <= biggest_buf_size_bits
  /\ BYTES_PER_KB % random_segment_size = 0
  /\ BYTES_PER_KB <= biggest_buf_size
  /\ buf_offset_range <= biggest_buf_size

Least(a, b) == IF a < b THEN a ELSE b
Greatest(a, b) == IF a > b THEN a ELSE b

\* Sizes in KB: one draw of get_next_file_size.
FileSizes(p) ==
  IF p.random THEN 1 .. p.total_sz_kb * random_size_limit ELSE {p.total_sz_kb}

\* Mutant: not limited by the buffer.
MutRecordSize(p) == IF p.record_sz_kb = 0 THEN p.total_sz_kb ELSE p.record_sz_kb

RecordSize(p) ==
  Least(IF p.record_sz_kb = 0 THEN p.total_sz_kb ELSE p.record_sz_kb,
        biggest_buf_size \div BYTES_PER_KB)

\* The record loop: remaining_kb after some rounds, for a file of some KB.
Remaining(p, kb) ==
  LET remaining_kb[i \in Nat] ==
        IF i = 0 THEN kb
        ELSE remaining_kb[i - 1] - Least(RecordSize(p), remaining_kb[i - 1])
  IN remaining_kb

\* The records, in KB.
Records(p, kb) ==
  LET left == Remaining(p, kb)
      rounds == CHOOSE n \in 0 .. kb : left[n] = 0 /\ \A i \in 0 .. n - 1 : left[i] > 0
  IN [i \in 1 .. rounds |-> Least(RecordSize(p), left[i - 1])]

\* How long the big buffer gets: a segment doubled again and again, or random
\* bytes in powers of two, one before the loop and one after it.
SegmentsDoubled ==
  LET length[n \in Nat] ==
        IF n = 0 THEN random_segment_size ELSE 2 * length[n - 1]
  IN length

RandomPowers ==
  LET powersum[n \in Nat] ==
        IF n = 0 THEN 1 ELSE powersum[n - 1] + Power(2)[n]
  IN powersum

RandomBytes == RandomPowers[biggest_buf_size_bits - 1] + 1

\* The byte at a position of the big buffer, as the position it was made at;
\* the extra space repeats the beginning.
Byte(p, i) ==
  IF p.incompressible THEN i % biggest_buf_size ELSE i % random_segment_size

-----------------------------------------------------------------------------
\* prepare_buf

XattrSpace(p) == p.xattr_size + p.xattr_count

\* Mutant: the size of a record is taken for the size of any file.
MutTotalSpace(p) ==
  LET kb == IF p.record_sz_kb = 0 THEN 1 ELSE p.record_sz_kb
  IN Greatest(Least(kb * BYTES_PER_KB, biggest_buf_size), XattrSpace(p))

TotalSpace(p) ==
  LET kb == IF p.record_sz_kb # 0 THEN p.record_sz_kb
            ELSE IF p.random THEN p.total_sz_kb * random_size_limit
            ELSE p.total_sz_kb
  IN Greatest(Least(kb * BYTES_PER_KB, biggest_buf_size), XattrSpace(p))

UniqueOffset(p, f) == ((p.tid + 1) * f) % buf_offset_range

\* The assertion of prepare_buf.
BufferIsThere(p, f) ==
  TotalSpace(p) + UniqueOffset(p, f) < biggest_buf_size + buf_offset_range

\* Mutant: written one after the other from the buffer, not from its start.
MutContent(p, f, q) == Byte(p, UniqueOffset(p, f) + (q % biggest_buf_size))

\* Every record is the beginning of the buffer: byte q of file f as written,
\* and as compared on reading.
Content(p, f, q) ==
  Byte(p, UniqueOffset(p, f) + (q % (RecordSize(p) * BYTES_PER_KB)))
=============================================================================
