--------------------------- MODULE MCPlainCommands ---------------------------
(* PlainCommands with one variable more than there is room for, and names of   *)
(* files that are prefixes of one another or differ in the case of a letter.   *)
EXTENDS PlainCommands

b == LowerA + 1
e == LowerA + 4
n == LowerA + 13
o == LowerA + 14
O == o - 32

MCNone == <<n, o, n, e>>
MCNames == {<<b>>, <<n>>, <<n, o>>}

\* A word that my_mkdir refuses, and one that it takes.
MCValues == {<<b, 46>>, MCNone}

LetterWords == {<<n>>, <<o>>, <<O>>}

\* A name that goes on with a digit after another name.
DigitWords == {<<n>>, <<n, Zero + 1>>}
DigitValues == {<<n>>}
=============================================================================
