----------------------------- MODULE ByteRange -----------------------------
(***************************************************************************)
(* The Range header of a download: which bytes ServeFile sends for it       *)
(* (parseByteRange in serve.go), and which bytes the header names.          *)
(*                                                                         *)
(* A header is what is left of its text once the numbers are read:          *)
(*   "bytes=5-9"  [form |-> "from", first |-> 5, last |-> 9]                *)
(*   "bytes=5-"   [form |-> "open", first |-> 5]                            *)
(*   "bytes=-5"   [form |-> "suffix", length |-> 5]                         *)
(* and "malformed" for every other text: another unit, several ranges, no   *)
(* dash, something that is no 64-bit integer.                               *)
(***************************************************************************)
EXTENDS Integers

Header ==
    [form: {"malformed"}]
    \cup [form: {"from"}, first: Int, last: Int]
    \cup [form: {"open"}, first: Int]
    \cup [form: {"suffix"}, length: Int]

\* No bytes: the answer is 416 Range Not Satisfiable.
Unsatisfiable == [start |-> 0, end |-> -1]

Span(start, end) == [start |-> start, end |-> end]

Lower(a, b) == IF a < b THEN a ELSE b

\* Mutant: the last byte of a range is compared with the size, not clipped to it.
ParseUnclipped(h, size) ==
    CASE size > 0 /\ h.form = "suffix" /\ h.length > 0 ->
             Span(size - Lower(h.length, size), size - 1)
      [] size > 0 /\ h.form = "open" /\ h.first \in 0..(size - 1) ->
             Span(h.first, size - 1)
      [] size > 0 /\ h.form = "from" /\ h.first \in 0..(size - 1) /\ h.last >= h.first ->
             Span(h.first, Lower(h.last, size))
      [] OTHER -> Unsatisfiable

\* The bytes a download sends for header h of a file of the given size.
ParseByteRange(h, size) ==
    CASE size > 0 /\ h.form = "suffix" /\ h.length > 0 ->
             Span(size - Lower(h.length, size), size - 1)
      [] size > 0 /\ h.form = "open" /\ h.first \in 0..(size - 1) ->
             Span(h.first, size - 1)
      [] size > 0 /\ h.form = "from" /\ h.first \in 0..(size - 1) /\ h.last >= h.first ->
             Span(h.first, Lower(h.last, size - 1))
      [] OTHER -> Unsatisfiable

\* The reference: the bytes of the file that the header names (RFC 9110, 14.1).
Named(h, size) ==
    {b \in 0..(size - 1) :
        \/ h.form = "from" /\ h.first >= 0 /\ h.first <= b /\ b <= h.last
        \/ h.form = "open" /\ h.first >= 0 /\ h.first <= b
        \/ h.form = "suffix" /\ size - h.length <= b}
=============================================================================
