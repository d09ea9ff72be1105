---------------------------- MODULE MCSimCompiler ----------------------------
(* Instance of SimCompiler for TLC: files like doc/first.txt, and files that  *)
(* end early, go on after their end, or hold what the compiler trips over.    *)
EXTENDS SimCompiler

Act(d, a) == [type |-> "ACTION", do |-> d, arg |-> <<a>>]
If(l, op, r, y, n) == [type |-> "IF_THEN", yes |-> y, no |-> n,
                       c |-> [op |-> op, left |-> l, right |-> r]]
Energy == [type |-> "ENERGY", value |-> <<>>]
Rest   == [type |-> "DAILY_REST", value |-> <<>>]
Const(n) == [type |-> "INT", value |-> <<n>>]
Acts == {Act("MOVET", "N"), Act("RESTT", "9")}
Ifs  == {If(l, "LTT", Const("1"), Act("HUNTT", "E"), n) :
           l \in {Energy, Rest}, n \in {Null, Act("BREEDT", "W")}}
Statements == Acts \cup Ifs
  \cup {If(Energy, "GTT", Const("0"), y, n) : y \in {s \in Ifs : s.no = Null},
                                              n \in {Null, Act("MOVET", "S")}}

Sim(line) == << <<"sim">>, line, <<"end">> >>
Odd == { Sim(<<"move", " ", "N", " ", "end", " ", "bob", " ", "(">>),
         Sim(<<"rest", " ", "1", "0">>),
         Sim(<<"move", " ", "9">>),
         Sim(<<"rest", " ", "9", "x">>),
         Sim(<<"bob", "=", "add", " ", "1", " ", "9">>),
         Sim(<<"block", " ", "move", " ", "N", " ", "end">>),
         Sim(<<"if", "(", "energy", "<", "9", ")">>),
         Sim(<<"if", "(", "energy", "<", "9", ")", "then", " ", "hunt", " ", "W">>),
         Sim(<<"if", "(", "rand", "=", "=", "x", " ", ")", "then", " ", "rest",
               " ", "1", " ", "else", " ", "x", "=", "1", " ", "end">>),
         Sim(<<"if", "(", "x", "<", "1", ")", "then", " ", "x", "=", "1", " ",
               "else", " ", "move", " ", "S", " ", "end">>),
         Sim(<<"x", "=", "(", "x", " ">>),
         << <<"sim", " ", "hunt", " ", "N">> >>,
         << <<"sim", " ", "x", "=", "energy">> >>,
         << <<"move">>, <<>>, <<Bad>> >>, <<>>, Null }
MCFiles == Odd \cup {Source(s) : s \in Statements}

\* A file laid out like doc/first.txt is compiled to what it says.
Compiled == Faithful(Statements)
==============================================================================
