---------------------------- MODULE MCVisualizer ----------------------------
(* Every template of up to four pieces is compiled and rendered by a new   *)
(* writer, and a few are rendered one after another by the same.  Of the   *)
(* programs, all of up to three instructions of a small set are drawn, and *)
(* three longer ones.                                                      *)
EXTENDS Visualizer

A == <<"a">>
B == <<"b">>
Name(n) == Tag("name", n)
Open(n) == Tag("#", n)
Not(n) == Tag("^", n)
Close(n) == Tag("/", n)
Partial(n) == Tag(">", n)
Comment == Piece("!", A, Braces)
Delimiters(t, u) == Piece("=", t, u)

X == Text("x")
Y == Text("y")
Section == [kind |-> "function", gives |-> [kind |-> "section"]]

Percents == <<"<%", "%>">>
Joined == <<"<%=%>">>
Pieces ==
  { Char("t"), Char(" "), Char("\n"), Name(A), Open(A), Close(A), Not(B),
    Close(B), Piece("open", A, Braces), Delimiters(Percents, Braces),
    Delimiters(Joined, Braces),
    Piece("#", A, Percents) }

Short == UNION {[1 .. n -> Pieces] : n \in 0 .. 4}

ViewOf(a, b) == Object(("a" :> a) @@ ("b" :> b))

Alone ==
  { [templates |-> {t}, views |-> {ViewOf(List(<<X, Y>>), False)},
     partials |-> {NoPartials}, tags |-> {}] : t \in Short }

Mixed == << Open(Dot), Name(A), Close(Dot), Partial(<<"p">>), Open(A), Open(Dot),
            Tag("{", B), Close(Dot), Close(A) >>

Sectioned ==
  << Open(A), Char("\n"), Name(<<"a", "b">>), Partial(<<"p">>), Close(A), Char("\n"),
     Partial(<<"q">>), Char("\n"), Not(B), Comment, Close(B) >>

(* The text of its section is parsed with the braces again.                *)
Switched ==
  << Delimiters(Percents, Braces), Piece("#", A, Percents), Open(B), Char("t"),
     Piece("/", A, Percents) >>

PartialP == << Name(B), Char("t"), Partial(<<"q">>) >>
PartialQ == << Char(" "), Open(B), Char("q"), Close(B), Char("\n") >>
Both == [loader |-> FALSE, map |-> (<<"p">> :> PartialP) @@ (<<"q">> :> PartialQ)]
Others == [loader |-> FALSE, map |-> (<<"p">> :> PartialQ) @@ (<<"q">> :> << Name(A) >>)]
OnlyP == [loader |-> FALSE, map |-> (<<"p">> :> PartialP)]
Broken == [loader |-> FALSE, map |-> (<<"p">> :> << Open(A) >>) @@ (<<"q">> :> PartialQ)]
Loader == [loader |-> TRUE, map |-> (<<"p">> :> PartialQ) @@ (<<"q">> :> << Open(B) >>)]

Together ==
  { [templates |-> {Mixed, Sectioned, Switched, <<Close(A)>>},
     views |-> {ViewOf(List(<<ViewOf(X, False), ViewOf(False, Y)>>), Y), ViewOf(Section, False), ViewOf(ViewOf(X, Y), X)},
     partials |-> {Both, Others, OnlyP, Broken, Loader, NoPartials},
     tags |-> {Braces, Percents, Joined}] }

MCLibraries == Alone \cup Together

Instr(instr, arg0, arg1) == [instr |-> instr, arg0 |-> arg0, arg1 |-> arg1]
NOP == Instr("NOP", 0, 0)
HALT == Instr("HALT", 0, 0)
FUTURE(delay, jmp) == Instr("FUTURE", delay, jmp)
IF_(jmp) == Instr("IF", 0, jmp)

Small == {NOP, HALT, IF_(0), IF_(2), IF_(3)} \cup
         {FUTURE(delay, jmp) : delay \in {0, 9}, jmp \in {0, 2}}
Longer ==
  { << FUTURE(9, 3), IF_(3), NOP, HALT >>,
    << FUTURE(40, 3), FUTURE(20, 6), HALT, NOP, IF_(5), HALT, NOP, IF_(0) >>,
    << IF_(2), FUTURE(30, 4), FUTURE(50, 5), HALT, NOP, HALT, IF_(0) >> }
Drawable ==
  {p \in UNION {[1 .. n -> Small] : n \in 1 .. 3} \cup Longer :
     ~Build(p).builder.failed}

(* Of a mean of 4; the lowest percentile makes it negative, as 0.01 does.  *)
Lengths == (1 :> -1) @@ (2 :> 2) @@ (4 :> 4) @@ (5 :> 6) @@ (9 :> 12)
=============================================================================
