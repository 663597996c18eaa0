------------------------------- MODULE MCVault -------------------------------
(***************************************************************************)
(* The vault on a handful of texts over two letters and a hyphen, chosen   *)
(* for the cases that meet: a value known before it recurs undetected, one *)
(* inside a longer word, overlapping spans of two labels, touching spans,  *)
(* one value under two labels, a value too short for the known-value pass, *)
(* a span that reaches past the text, and a value that comes back after    *)
(* another one in the same text.                                           *)
(***************************************************************************)
EXTENDS VaultProperties

CONSTANTS a, b, h, Name, Mail, MaxOutputs

MCChar == {a, b, h}
MCWordChar == {a, b}
MCLabels == {Name, Mail}

At(label, start, end, score) ==
    [label |-> label, start |-> start, end |-> end, score |-> score]

Detected == [text |-> <<a, b>>, spans |-> <<At(Name, 1, 3, 1)>>]
Recurring == [text |-> <<a, b, h, b, a>>, spans |-> <<At(Mail, 4, 6, 1)>>]
InAWord == [text |-> <<a, b, b, h, a, b>>, spans |-> << >>]
Overlapping == [text |-> <<a, b, h, b>>,
                spans |-> <<At(Mail, 1, 3, 1), At(Name, 2, 5, 1)>>]
TwoLabels == [text |-> <<b, h, b>>,
              spans |-> <<At(Name, 1, 2, 1), At(Mail, 3, 4, 2)>>]
Touching == [text |-> <<b, a, h>>,
             spans |-> <<At(Mail, 2, 5, 1), At(Mail, 1, 2, 1)>>]
Repeated == [text |-> <<a, h, b, h, a>>,
             spans |-> <<At(Name, 1, 2, 1), At(Name, 3, 4, 1), At(Name, 5, 6, 1)>>]

MCRequests == {Detected, Recurring, InAWord, Overlapping, TwoLabels, Touching,
               Repeated}

\* The bound of the exploration: the outputs whose history is kept.
FewOutputs == Cardinality(sent) <= MaxOutputs
=============================================================================
