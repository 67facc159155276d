--------------------------- MODULE MCCommandLine ---------------------------
(* Every line of at most MaxLine characters that matter to the splitting,   *)
(* and each command with up to three, two or two parameters.                *)
EXTENDS CommandLine

CONSTANT MaxLine

ShortLines == UNION {[1..n -> {"a", " ", "\"", "^", "#"}] : n \in 0..MaxLine}

Sp(word) == << " " >> \o word

MemWords == {<< >>, Sp(<< "1", "f" >>), Sp(<< "0", "x", "F" >>), Sp(<< "1", "0", "0" >>),
             Sp(<< "0", "0", "x", "F", "F" >>), Sp(Mmio), Sp(<< "z" >>), Sp(Flag("x")),
             Sp(<< "^", "^", "-", "5" >>)}
ExitWords == {<< >>, Sp(<< "2", "5", "5" >>), Sp(<< "2", "5", "6" >>), Sp(<< "0", "x", "1", "f" >>),
              Sp(<< "1", "f" >>), Sp(<< "0", "0", "x", "1", "f" >>), Sp(<< "^", "^", "-", "5" >>),
             Sp(<< "z" >>), Sp(Flag("b")), Sp(Flag("x"))}
ResetWords == {<< >>, Sp(Flag("w")), Sp(Flag("S")), Sp(Flag("c")), Sp(Flag("p")), Sp(<< "a" >>),
               Sp(<< "\"", "b", "\"" >>), Sp(<< "^", "^", "-", "b" >>), Sp(Flag("?")), Sp(Flag("x"))}

\* ^^# in the command and behind it.
EscapedTwice == {Mem \o << "^", "^", "#" >>, << "^", "^", "#" >> \o Mem, Mem \o Sp(<< "^", "^", "#" >>)}

MCLines ==
    ShortLines
    \union EscapedTwice
    \union {Mem \o a \o b \o c : a \in MemWords, b \in MemWords, c \in MemWords}
    \union {<< "E", "X", "i", "t" >> \o a \o b : a \in ExitWords, b \in ExitWords}
    \union {Reset \o a \o b \o c : a \in ResetWords, b \in ResetWords, c \in ResetWords}

=============================================================================
