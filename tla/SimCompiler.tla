---------------------------- MODULE SimCompiler ----------------------------
(***************************************************************************)
(* sim2-gtk/src/lexer.c, compiler.c and program.c.  A file is a sequence   *)
(* of lines, a line a sequence of symbols: a keyword or a name is one      *)
(* symbol, and so is a digit, a punctuation mark or a blank.  A program is *)
(* compiled in two passes over its file, one that collects the variables   *)
(* and one that parses, and then executed for every creature of its type,  *)
(* which share its variables.                                              *)
(*                                                                         *)
(* The state of the lexer (its statics) is a record, lx, that the          *)
(* operators of the lexer and of the parser take and return; those of the  *)
(* parser return [out, lx]: what they built, or Null, and the lexer after. *)
(***************************************************************************)
EXTENDS Integers, Functions, Sequences, TLC

CONSTANTS Names,      \* names used in the files, longer than one letter
          Null

-----------------------------------------------------------------------------
(* The lexer.                                                              *)

Letters == {"x", "N", "E", "S", "W"}     \* the names of a single character
Digits  == {"0", "1", "9"}
Blank   == " "
Bad     == "#"        \* a character of no type

Keyword == ("sim" :> "SIMT") @@ ("if" :> "IFT") @@ ("end" :> "ENDT")
  @@ ("then" :> "THENT") @@ ("else" :> "ELSET") @@ ("move" :> "MOVET")
  @@ ("block" :> "BLOCKT") @@ ("rest" :> "RESTT") @@ ("breed" :> "BREEDT")
  @@ ("hunt" :> "HUNTT") @@ ("add" :> "ADDT") @@ ("rand" :> "RANDT")
  @@ ("awakeDaily" :> "IDRESTT") @@ ("energy" :> "IDENERGYT")
  @@ ("N" :> "NT") @@ ("E" :> "ET") @@ ("S" :> "ST") @@ ("W" :> "WT")
Mark == ("(" :> "LPART") @@ (")" :> "RPART") @@ ("=" :> "ONEEQT")
  @@ ("<" :> "LTT") @@ (">" :> "GTT")
Directions == {"NT", "ET", "ST", "WT"}

Class(c) == CASE c = Blank -> "white"
              [] c \in Digits -> "digit"
              [] c \in Letters \cup Names \cup DOMAIN Keyword -> "letter"
              [] c \in DOMAIN Mark -> "punc"
              [] OTHER -> "none"
\* A stop at a character of this length is not put back at the end of a line.
Single(c) == Class(c) # "letter" \/ c \in Letters

transition == [s \in {"initial", "identifier", "operator", "number"} |->
  CASE s = "initial" ->
         [white |-> s, digit |-> "number", letter |-> "identifier",
          punc |-> "operator", none |-> "error"]
    [] s = "identifier" ->
         [white |-> "stop", digit |-> s, letter |-> s, punc |-> "stop",
          none |-> "error"]
    [] s = "operator" ->
         [white |-> "stop", digit |-> "stop", letter |-> "stop", punc |-> s,
          none |-> "error"]
    [] s = "number" ->
         [white |-> "stop", digit |-> s, letter |-> "error", punc |-> "stop",
          none |-> "error"]]
-----------------------------------------------------------------------------
Stripped(text) == SelectSeq(text, LAMBDA c : c # Blank)
identifier(text) ==
  IF Len(text) = 1 /\ text[1] \in DOMAIN Keyword THEN Keyword[text[1]]
  ELSE "IDT"
operator(text) ==
  CASE Len(text) = 1 /\ text[1] \in DOMAIN Mark -> Mark[text[1]]
    [] text = <<"=", "=">> -> "TWOEQT"
    [] OTHER -> "NULLT"
First(set) == CHOOSE i \in set : \A j \in set : i <= j

\* The tokens of a line from a column on: none is longer than its line.  The
\* character that ends a token is put back, unless it is the last one of the
\* line: that one becomes part of the token.
RECURSIVE Tokens(_, _)
Tokens(line, column) ==
  LET seen == {i \in column + 1 .. Len(line) : Class(line[i]) # "white"}
      start == First(seen)
      state == transition["initial"][Class(line[start])]
      after(i) == transition[state][Class(line[i])]
      ends == {i \in start + 1 .. Len(line) : after(i) # state}
      stop == First(ends \cup {Len(line) + 1})
      kept == stop > Len(line) \/ (stop = Len(line) /\ Single(line[stop]))
      end == IF kept THEN Len(line) ELSE stop - 1
      text == Stripped(SubSeq(line, start, end))
  IN  IF seen = {} THEN <<>>
      ELSE IF state = "error" \/ (ends # {} /\ after(stop) = "error")
      THEN << [tok |-> "ERROR", text |-> Null] >>
      ELSE << [tok |-> CASE state = "identifier" -> identifier(text)
                         [] state = "operator" -> operator(text)
                         [] state = "number" -> "INTT",
               text |-> text] >> \o Tokens(line, end)
-----------------------------------------------------------------------------
(* The lexer holds the tokens ahead in its line, and the lines after it.   *)
Closed == [open |-> FALSE, ahead |-> <<>>, rest |-> <<>>]
\* lexer_uninit: nothing of the file is left, and every later token is NULLT.
uninit(lx) == Closed
\* lexer_load_file: the line being read is not dropped.  A file that cannot
\* be read leaves the stream as it was.
load_file(lx, file) ==
  IF file = Null THEN lx
  ELSE [lx EXCEPT !.open = TRUE, !.rest = [i \in DOMAIN file |-> Tokens(file[i], 0)]]

\* Mutant: the end of the file is answered as an error is.
AtEndNull(lx) == [tok |-> "NULLT", text |-> Null, lx |-> uninit(lx)]
AtEnd(lx) == [tok |-> "EOFT", text |-> Null, lx |-> uninit(lx)]

\* lexer_get_token: blank lines are skipped.
get_token(lx) ==
  LET lines == <<lx.ahead>> \o lx.rest
      full == {k \in DOMAIN lines : lines[k] # <<>>}
      k == First(full)
      t == Head(lines[k])
  IN  CASE ~lx.open -> [tok |-> "NULLT", text |-> Null, lx |-> lx]
        [] lx.open /\ full = {} -> AtEnd(lx)
        [] OTHER -> IF t.tok = "ERROR"
                    THEN [tok |-> "NULLT", text |-> Null, lx |-> uninit(lx)]
                    ELSE [tok |-> t.tok, text |-> t.text,
                          lx |-> [lx EXCEPT !.ahead = Tail(lines[k]),
                                            !.rest = SubSeq(lines, k + 1, Len(lines))]]
-----------------------------------------------------------------------------
(* The parser.                                                             *)

CONSTANTS Undefined,     \* the process has run into undefined behaviour
          None,          \* no outcome yet
          Files,         \* the files that may be chosen; Null: none, or unreadable
          Energies, Rests,   \* what a creature passes to its program
          MaxCompiles    \* bound

VARIABLES stage,     \* "idle", "find" (variables) or "parse"
          file, lx,  \* the file being compiled, the lexer
          names,     \* the keys of the table of variables
          program, vals,   \* the compiled statement, the variables' values
          outcome,   \* what the last compilation returned
          action,    \* what the last execution returned
          returns,   \* what program_new_expression, which lacks a return
                     \* statement, does in this build: answer its result?
          compiles

vars == <<stage, file, lx, names, program, vals, outcome, action, returns,
          compiles>>

Built(out, l) == [out |-> out, lx |-> l]
Failed(l) == Built(Null, l)
\* compiler_error
Error(l) == Built(Null, uninit(l))
-----------------------------------------------------------------------------
Ident(t) == CASE t.tok = "IDT" -> [type |-> "VAR", value |-> t.text]
              [] t.tok = "INTT" -> [type |-> "INT", value |-> t.text]
              [] t.tok = "IDENERGYT" -> [type |-> "ENERGY", value |-> <<>>]
              [] t.tok = "IDRESTT" -> [type |-> "DAILY_REST", value |-> <<>>]
              [] t.tok = "RANDT" -> [type |-> "RAND", value |-> <<>>]
              [] OTHER -> Null
get_identifier(t) == IF Ident(t) = Null THEN Error(t.lx) ELSE Built(Ident(t), t.lx)

\* The parser goes on with the next token; and, once r is built, with r.
Token(l, next(_)) == next(get_token(l))
Then(r, next(_)) == IF r.out \in {Null, Undefined} THEN r ELSE next(r)

get_condition(first) ==
  IF first.tok # "LPART" THEN Failed(first.lx) ELSE
  Then(get_identifier(get_token(first.lx)), LAMBDA a :
  Token(a.lx, LAMBDA op :
    IF op.tok \notin {"LTT", "GTT", "TWOEQT"} THEN Error(op.lx) ELSE
    Then(get_identifier(get_token(op.lx)), LAMBDA b :
    Token(b.lx, LAMBDA close :
      IF close.tok # "RPART" THEN Error(close.lx)
      ELSE Built([op |-> op.tok, left |-> a.out, right |-> b.out], close.lx)))))

get_arithmetic(l) ==
  Then(get_identifier(get_token(l)), LAMBDA a :
  Then(get_identifier(get_token(a.lx)), LAMBDA b :
    Built([op |-> "ADD", left |-> a.out, right |-> b.out], b.lx)))

\* A condition that failed is wrapped all the same.
get_expression(l) ==
  LET typed(type, r) == Built([type |-> type, e |-> r.out], r.lx) IN
  Token(l, LAMBDA t :
    CASE t.tok \in {"IDT", "INTT", "RANDT"} -> typed("IDENT", get_identifier(t))
      [] t.tok = "LPART" -> typed("COND", get_condition(t))
      [] t.tok = "ADDT" -> Then(get_arithmetic(t.lx), LAMBDA r : typed("ARITH", r))
      [] OTHER -> Error(t.lx))

\* The directions are the last tokens of the enumeration, all before them are
\* refused.
get_action(first) ==
  Token(first.lx, LAMBDA t :
    IF \/ first.tok = "RESTT" /\ t.tok # "INTT"
       \/ first.tok # "RESTT" /\ t.tok \notin Directions
    THEN Failed(t.lx)
    ELSE Built([type |-> "ACTION", do |-> first.tok, arg |-> t.text], t.lx))

get_assign(first) ==
  Token(first.lx, LAMBDA eq :
    IF eq.tok # "ONEEQT" THEN Error(eq.lx)
    ELSE Then(get_expression(eq.lx), LAMBDA e :
           Built([type |-> "ASSIGN", var |-> first.text, e |-> e.out], e.lx)))

\* program_free_statement: of an expression, some part is freed twice.
RECURSIVE Freeable(_)
Freeable(s) == CASE s.type = "ACTION" -> TRUE
                 [] s.type = "ASSIGN" -> FALSE
                 [] OTHER -> Freeable(s.yes) /\ (s.no = Null \/ Freeable(s.no))
Dropped(s, r) == IF Freeable(s) THEN r ELSE Built(Undefined, r.lx)

RECURSIVE get_statement(_), get_block(_)
\* Mutant: the else branch is forgotten.
IfThenOnly(c, y, n) == [type |-> "IF_THEN", c |-> c, yes |-> y, no |-> Null]
IfThen(c, y, n) == [type |-> "IF_THEN", c |-> c, yes |-> y, no |-> n]

get_else(c, yes, no) ==
  IF no.out = Undefined THEN no
  ELSE IF no.out = Null THEN Dropped(yes.out, no)
  ELSE Token(no.lx, LAMBDA end :
         IF end.tok = "ENDT" THEN Built(IfThen(c.out, yes.out, no.out), end.lx)
         ELSE Dropped(yes.out, Dropped(no.out, Error(end.lx))))
\* Without an else, a missing end frees a branch that is not there.
get_if_then(first) ==
  Then(get_condition(get_token(first.lx)), LAMBDA c :
  Token(c.lx, LAMBDA then :
    IF then.tok # "THENT" THEN Failed(then.lx) ELSE
    Then(get_statement(get_token(then.lx)), LAMBDA yes :
    Token(yes.lx, LAMBDA else :
      IF else.tok = "ELSET" THEN get_else(c, yes, get_statement(get_token(else.lx)))
      ELSE IF else.tok = "ENDT"
      THEN Built(IfThen(c.out, yes.out, Null), else.lx)
      ELSE Built(Undefined, else.lx)))))

\* The loop asks for a token that is not end or not EOF: every token is, and
\* the end of a block is taken for the start of a statement.
get_block(l) ==
  LET rest(s, more) == IF more.out = Null THEN Dropped(s.out, more) ELSE more
  IN Then(get_statement(get_token(l)), LAMBDA s : rest(s, get_block(s.lx)))

get_statement(t) ==
  CASE t.tok = "BLOCKT" -> get_block(t.lx)
    [] t.tok = "IFT" -> get_if_then(t)
    [] t.tok = "IDT" -> get_assign(t)
    [] t.tok \in {"MOVET", "HUNTT", "BREEDT", "RESTT"} -> get_action(t)
    [] OTHER -> Error(t.lx)

get_program(l) ==
  Token(l, LAMBDA sim :
    IF sim.tok # "SIMT" THEN Error(sim.lx) ELSE
    Then(get_statement(get_token(sim.lx)), LAMBDA s :
    Token(s.lx, LAMBDA end :
      IF end.tok # "ENDT" THEN Dropped(s.out, Error(end.lx))
      ELSE Built(s.out, end.lx))))
\* What every file compiles to from a lexer that was left uninitialised (TLC
\* evaluates this once).
FromClosed == [f \in Files |-> get_program(load_file(Closed, f))]
Compilation(l, f) ==
  IF l = Closed THEN FromClosed[f] ELSE get_program(load_file(l, f))
-----------------------------------------------------------------------------
(* Execution.  A draw is a value of rand, which the code draws anew for    *)
(* every use.                                                              *)
Number(text) == LET d == [c \in Digits |-> CASE c = "0" -> 0 [] c = "1" -> 1
                                             [] c = "9" -> 9] IN
                IF Len(text) = 1 \/ text[2] \notin Digits THEN d[text[1]]
                ELSE 10 * d[text[1]] + d[text[2]]

identifierValue(i, me, draw) ==
  CASE i.type = "INT" -> Number(i.value)
    [] i.type = "VAR" -> me.vals[i.value]
    [] i.type = "ENERGY" -> me.energy
    [] i.type = "DAILY_REST" -> me.rest
    [] i.type = "RAND" -> draw

arithmetic(a, me, draws) == identifierValue(a.left, me, draws[1])
                            + identifierValue(a.right, me, draws[2])
condition(c, me, draws) ==
  LET l == identifierValue(c.left, me, draws[1])
      r == identifierValue(c.right, me, draws[2])
  IN  CASE c.op = "LTT" -> l < r [] c.op = "GTT" -> l > r [] c.op = "TWOEQT" -> l = r

\* The pairs of draws a condition or an expression may see.
Draws == {<<a, b>> : a \in {0, 1}, b \in {0, 1}}

expression(e, me, draws) ==
  CASE e.type = "IDENT" -> identifierValue(e.e, me, draws[1])
    [] e.type = "COND" -> IF condition(e.e, me, draws) THEN 1 ELSE 0
    [] e.type = "ARITH" -> arithmetic(e.e, me, draws)

\* All the answers a statement can give, as <<action, vals>>.
RECURSIVE Answers(_, _)
Answers(s, me) ==
  CASE s.type = "ACTION" -> {<<s.do, s.arg, me.vals>>}
    [] s.type = "ASSIGN" ->
         IF ~returns \/ s.e.e = Null THEN {<<Undefined, <<>>, me.vals>>}
         ELSE {<<Null, <<>>, [me.vals EXCEPT ![s.var] = expression(s.e, me, d)]>>
                 : d \in Draws}
    [] s.type = "IF_THEN" ->
         UNION {IF condition(s.c, me, d) THEN Answers(s.yes, me)
                ELSE IF s.no # Null THEN Answers(s.no, me)
                ELSE {<<Null, <<>>, me.vals>>} : d \in Draws}
-----------------------------------------------------------------------------
Init == /\ stage = "idle" /\ file = Null /\ lx = Closed /\ names = {}
        /\ program = Null /\ vals = <<>> /\ outcome = None /\ action = None
        /\ returns \in BOOLEAN /\ compiles = 0

\* compiler_get_program: load the file for the first pass...
Load ==
  /\ stage = "idle" /\ outcome # Undefined /\ compiles < MaxCompiles
  /\ \E f \in Files : file' = f /\ lx' = load_file(lx, f)
  /\ stage' = "find" /\ names' = {} /\ compiles' = compiles + 1
  /\ outcome' = None
  /\ UNCHANGED <<program, vals, action, returns>>

\* ... which reads tokens until the end of the file (and waits for it for
\* ever after an error, when there is nothing left to read)...
\* Mutant: ... which stops at the first end.
FindEnd ==
  /\ stage = "find"
  /\ LET t == get_token(lx) IN
       /\ lx' = t.lx
       /\ names' = IF t.tok = "IDT" THEN names \cup {t.text} ELSE names
       /\ stage' = IF t.tok \in {"EOFT", "ENDT"} THEN "parse" ELSE "find"
  /\ UNCHANGED <<file, program, vals, outcome, action, returns, compiles>>
Find ==
  /\ stage = "find"
  /\ LET t == get_token(lx) IN
       /\ lx' = t.lx
       /\ names' = IF t.tok = "IDT" THEN names \cup {t.text} ELSE names
       /\ stage' = IF t.tok = "EOFT" THEN "parse" ELSE "find"
  /\ UNCHANGED <<file, program, vals, outcome, action, returns, compiles>>

\* ... and again for the second.  A program replaces the last one, which is
\* freed.
Parse ==
  /\ stage = "parse"
  /\ LET p == Compilation(lx, file)
         kept == program = Null \/ Freeable(program) \/ p.out = Null
     IN  /\ lx' = p.lx
         /\ outcome' = IF kept THEN p.out ELSE Undefined
         /\ program' = IF p.out \in {Null, Undefined} THEN program ELSE p.out
         /\ vals' = IF p.out \in {Null, Undefined} THEN vals ELSE [n \in names |-> 0]
  /\ stage' = "idle" /\ action' = None
  /\ UNCHANGED <<file, names, returns, compiles>>

\* program_execute, for a creature.
Execute ==
  /\ stage = "idle" /\ program # Null /\ outcome # Undefined
  /\ \E e \in Energies, r \in Rests :
       \E a \in Answers(program, [energy |-> e, rest |-> r, vals |-> vals]) :
         /\ \A n \in DOMAIN vals : a[3][n] <= 10   \* bound
         /\ action' = <<[energy |-> e, rest |-> r], <<a[1], a[2]>>>> /\ vals' = a[3]
         /\ outcome' = IF a[1] = Undefined THEN Undefined ELSE outcome
  /\ UNCHANGED <<stage, file, lx, names, program, returns, compiles>>

Next == Load \/ Find \/ Parse \/ Execute
Spec == Init /\ [][Next]_vars
\* The callback of the refresh button runs on.
FairSpec == Spec /\ WF_vars(Find)
-----------------------------------------------------------------------------
(* Properties.                                                             *)

\* How doc/first.txt lays a statement out: a line for every branch.
RECURSIVE Text(_)
Word(tok) == CHOOSE w \in DOMAIN Keyword : Keyword[w] = tok
Sign(tok) == CHOOSE w \in DOMAIN Mark : Mark[w] = tok
Operand(i) == IF i.type = "ENERGY" THEN <<"energy">>
              ELSE IF i.type = "DAILY_REST" THEN <<"awakeDaily">> ELSE i.value
Text(s) ==
  IF s.type = "ACTION" THEN << <<Blank, Word(s.do), Blank>> \o s.arg >>
  ELSE << <<"if", Blank, "(">> \o Operand(s.c.left) \o <<Blank, Sign(s.c.op), Blank>>
            \o Operand(s.c.right) \o <<")", Blank, "then">> >>
       \o Text(s.yes)
       \o (IF s.no = Null THEN <<>> ELSE << <<"else", Blank>> >> \o Text(s.no))
       \o << <<"end">> >>
Source(s) == << <<"sim">> >> \o Text(s) \o << <<"end">> >>

\* The branches of a statement: the conditions on the way, and what is done.
RECURSIVE Branches(_)
Branches(s) ==
  IF s.type = "ACTION" THEN {[when |-> {}, do |-> <<s.do, s.arg>>]}
  ELSE LET on(v, set) == {[b EXCEPT !.when = @ \cup {<<s.c, v>>}] : b \in set}
       IN  on(TRUE, Branches(s.yes))
           \cup on(FALSE, IF s.no = Null THEN {[when |-> {}, do |-> <<Null, <<>>>>]}
                          ELSE Branches(s.no))

\* A file laid out like doc/first.txt is compiled to the statement it says,
\* whatever was compiled, or failed to compile, before it (compiler.c:422), and
\* a creature does what the one branch says that its energy and its rest lead
\* to (program.c:387, 451).
Faithful(statements) ==
  \A s \in statements :
    stage = "idle" /\ file = Source(s) /\ outcome \notin {None, Undefined}
      => /\ outcome = s
         /\ action # None =>
              \E b \in Branches(s) :
                /\ \A w \in b.when : condition(w[1], action[1], <<0, 0>>) = w[2]
                /\ action[2] = b.do

\* The lexer keeps its line and its column when a compilation ends early
\* (lexer.c:38): what a file compiles to does not depend on them.
Independent ==
  stage = "idle" /\ file # Null /\ outcome \notin {None, Undefined}
    => outcome = FromClosed[file].out

\* The first pass waits for EOF and for nothing else (compiler.c:24), while a
\* lexer that errs closes the file and never answers EOF (lexer.c:200): the
\* refresh button comes back for every file that can be read and in which the
\* lexer finds no error, neither a character that is not of the language nor
\* a number that runs into a letter, whatever was compiled before it.  For the
\* other files the pass goes on for ever; the instance has some of each kind.
Lexes == file # Null /\ \A i \in DOMAIN file :
                          \A t \in Range(Tokens(file[i], 0)) : t.tok # "ERROR"
CompileEnds == (stage = "find" /\ Lexes) ~> (stage = "parse")
=============================================================================
