------------------------------- MODULE Removal -------------------------------
(* Removing elements from a sequence, as std::remove_if and erase do.        *)
EXTENDS Integers, Sequences

Elems(s) == {s[i] : i \in 1 .. Len(s)}

\* s without the elements in gone; the others keep their order
Drop(s, gone) ==
    LET kept[n \in 0 .. Len(s)] ==
          IF n = 0 THEN <<>>
          ELSE IF s[n] \in gone THEN kept[n - 1] ELSE Append(kept[n - 1], s[n])
    IN  kept[Len(s)]

\* no element is in s twice
Distinct(s) == \A i, j \in 1 .. Len(s) : s[i] = s[j] => i = j

=============================================================================
