---------------------------- MODULE MCFileReads ----------------------------
(* FileReads on a small instance for TLC.                                   *)
EXTENDS FileReads, TLC

CONSTANTS p1, p3, cut   \* a short and a longer body, and one cut off

MCPayloads == {p1, p3}
MCSize == p1 :> 1 @@ p3 :> 3 @@ cut :> 0
MCCrc == p1 :> "c1" @@ p3 :> "c3" @@ cut :> "c0"

Unconditional == {{}}
OneField == {{"visibility"}}

From(a, b) == [form |-> "from", first |-> a, last |-> b]
Suffix(n) == [form |-> "suffix", length |-> n]
OpenEnded(a) == [form |-> "open", first |-> a]
Malformed == [form |-> "malformed"]

Plain(h) == [head |-> FALSE, want |-> h, have |-> {}]

\* Whole files, no range at all, a range across the end of either body, a suffix
\* longer than the shorter one, a range behind its end, HEAD, and a known tag.
MCAsks ==
    {Plain(h) : h \in {None, Malformed, From(0, 5), Suffix(2), OpenEnded(2)}}
    \cup {[head |-> TRUE, want |-> None, have |-> {}],
          [head |-> TRUE, want |-> From(0, 0), have |-> {}],
          [head |-> FALSE, want |-> None, have |-> {"c3"}]}

\* One range read.
RangeAsk == {Plain(OpenEnded(2))}
============================================================================
