------------------------------- MODULE MCCola -------------------------------
(* Instances of Cola for TLC. *)
EXTENDS Cola

\* Two names of one option, as main() gives its options, or of two.
MCName == {<<"c">>, <<"v">>}

Literal(dashes, letters, value) == [dashes |-> dashes, letters |-> letters, value |-> value]

MCDefault == Word(<<"d">>)
MCDefaultText == Word(<<"1", ",", "1">>)

\* -c  -cv  -c1  -  --v  --v=1,1  --v=  --  1
MCLiterals ==
    {Literal(1, s, NoValue) : s \in {<<"c">>, <<"c", "v">>, <<"c", "1">>, << >>}}
      \cup {Literal(2, <<"v">>, v) : v \in {NoValue, <<"1", ",", "1">>, << >>}}
      \cup {Literal(2, << >>, NoValue), Word(<<"1">>)}

Lines(n) == UNION {[1..k -> MCLiterals] : k \in 0..n}

\* All lines of two arguments, and those of three that begin with -c and end with
\* -c1 or 1.
MCArgvs ==
    LET dashC == Literal(1, <<"c">>, NoValue)
        ending == {Literal(1, <<"c", "1">>, NoValue), Word(<<"1">>)}
    IN  <<Lines(2) \cup {<<dashC, t, u>> : t \in MCLiterals, u \in ending}, Lines(1)>>

\* A number is the digit 1; "1,1" is two of them where the delimiter is a comma.
MCCasts(text, type) == text = Word(<<"1">>)
MCSplit(text, d) ==
    IF text = Word(<<"1", ",", "1">>) /\ d = Comma
    THEN <<Word(<<"1">>), Word(<<"1">>)>>
    ELSE <<text>>
=============================================================================
