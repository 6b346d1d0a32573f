--------------------------- MODULE MacroExpansion ---------------------------
(***************************************************************************)
(* Macro expansion in src/src/frontend/preprocessor.rs: a #define expands  *)
(* object-like macros in its replacement at once (expand_tokens_in_macro), *)
(* and text is expanded by expand_macro_tokens_with_stack, whose recursive *)
(* calls are the sequence calls.  A token is the sequence of the pieces it *)
(* is spelled with: ## joins two of them.                                  *)
(***************************************************************************)
EXTENDS Integers, Sequences, SequencesExt

CONSTANTS
  Names,     \* tokens that #define and #undef name
  Programs,  \* the inputs: sequences of lines
  None

ASSUME NoneAssumption == None \notin Names

\* A sequence of whatever elements.
IsSequence(s) == s \in Seq({s[k] : k \in DOMAIN s})

Space == <<" ">>
LParen == <<"(">>
RParen == <<")">>
Comma == <<",">>
Hash == <<"#">>
HashHash == <<"##">>
VaArgs == <<"__VA_ARGS__">>

\* A macro has params (None if it is object-like), the names that stand for its
\* variable arguments, and a body.
IsObject(m) == m.params = None
IsMacro(m) ==
  /\ m = [params |-> m.params, rest |-> m.rest, body |-> m.body]
  /\ IsSequence(m.body)
  /\ m.params # None => IsSequence(m.params)
HasParam(m, t) == \E p \in DOMAIN m.params : m.params[p] = t

IsLine(l) ==
  \/ l.op = "text" /\ IsSequence(l.tokens)
  \/ l.op = "undef" /\ l.name \in Names
  \/ l.op = "define" /\ l.name \in Names /\ IsMacro(l.macro)

ASSUME ProgramsAssumption ==
  \A p \in Programs : IsSequence(p) /\ \A l \in DOMAIN p : IsLine(p[l])

VARIABLES
  program,    \* the file: one of Programs
  line,       \* its next line
  macros,     \* macros[n]: the definition of n, or None
  calls,      \* the calls of expand_macro_tokens_with_stack at work, the innermost last
  expanding,  \* names that are not expanded now
  output,     \* what the text lines were expanded to
  status

vars == <<program, line, macros, calls, expanding, output, status>>

\* A call works on tokens from place i.  It was made for the body of macro name, or for
\* text or what a function-like macro became (None).  With args it is a call of
\* expand_function_macro_tokens.
Call(tokens, name, args) == [tokens |-> tokens, i |-> 1, result |-> <<>>, name |-> name, args |-> args]

Init ==
  /\ program \in Programs
  /\ line = 1
  /\ macros = [n \in Names |-> None]
  /\ calls = <<>>
  /\ expanding = <<>>
  /\ output = <<>>
  /\ status = "running"

-----------------------------------------------------------------------------
(* Directives.                                                             *)

Defined(t) == t \in Names /\ macros[t] # None

expand_tokens_in_macro(tokens) ==
  FlattenSeq([i \in DOMAIN tokens |->
    IF Defined(tokens[i]) /\ IsObject(macros[tokens[i]])
      THEN macros[tokens[i]].body ELSE <<tokens[i]>>])

\* The innermost code at work is resolve_includes, at a line of this kind.
AtLine(op) ==
  /\ status = "running" /\ calls = <<>>
  /\ line <= Len(program) /\ program[line].op = op

process_define ==
  /\ AtLine("define")
  /\ LET l == program[line]
     IN macros' = [macros EXCEPT ![l.name] =
                     [l.macro EXCEPT !.body = expand_tokens_in_macro(@)]]
  /\ line' = line + 1
  /\ UNCHANGED <<program, calls, expanding, output, status>>

process_undef ==
  /\ AtLine("undef")
  /\ macros' = [macros EXCEPT ![program[line].name] = None]
  /\ line' = line + 1
  /\ UNCHANGED <<program, calls, expanding, output, status>>

expand_macro_tokens ==
  /\ AtLine("text")
  /\ calls' = <<Call(program[line].tokens, None, None)>>
  /\ UNCHANGED <<program, line, macros, expanding, output, status>>

Stop ==
  /\ status = "running" /\ calls = <<>> /\ line > Len(program)
  /\ status' = "done"
  /\ UNCHANGED <<program, line, macros, calls, expanding, output>>

-----------------------------------------------------------------------------
(* expand_macro_tokens_with_stack.                                         *)

Top == Last(calls)
Token == Top.tokens[Top.i]

\* The innermost call has a token to look at, or has none left.
AtToken == status = "running" /\ calls # <<>> /\ Top.i <= Len(Top.tokens)
AtEnd == status = "running" /\ calls # <<>> /\ Top.i > Len(Top.tokens)

\* The innermost call has this result and goes on at place i.
Goes(result, i) ==
  [calls EXCEPT ![Len(calls)] = [@ EXCEPT !.result = result, !.i = i]]

Hidden(t) == \E h \in DOMAIN expanding : expanding[h] = t

\* Mutant: a name is expanded within its own expansion.
ExpandsAlways == Top.args = None /\ Defined(Token)

\* The token is the name of a macro that may be expanded here.
Expands == Top.args = None /\ Defined(Token) /\ ~Hidden(Token)

\* The place of the next token that is not white space.
NextPlace ==
  Min({k \in Top.i + 1 .. Len(Top.tokens) : Top.tokens[k] # Space} \cup {Len(Top.tokens) + 1})

IsCalled == NextPlace <= Len(Top.tokens) /\ Top.tokens[NextPlace] = LParen

\* How deep place k of ts is within parentheses, from the one at place open.
Level(ts, open, k) ==
  Cardinality({l \in open + 1 .. k - 1 : ts[l] = LParen})
    - Cardinality({l \in open + 1 .. k - 1 : ts[l] = RParen})

\* The place of the parenthesis that closes the one at open, or one behind the tokens.
ClosePlace(ts, open) ==
  Min({k \in open + 1 .. Len(ts) : ts[k] = RParen /\ Level(ts, open, k) = 0} \cup {Len(ts) + 1})

\* The arguments of macro m between two places.  The last one is lost if nothing closes
\* it, or if it is empty and need not be there.
collect_macro_args(ts, open, close, m) ==
  LET cuts == {k \in open + 1 .. close - 1 : ts[k] = Comma /\ Level(ts, open, k) = 0}
      n == Cardinality(cuts) + 1
      Places(a) ==
        {k \in open + 1 .. close - 1 : k \notin cuts /\ Cardinality({c \in cuts : c < k}) = a - 1}
      given == [a \in 1 .. n |->
        IF Places(a) = {} THEN <<>> ELSE SubSeq(ts, Min(Places(a)), Max(Places(a)))]
  IN IF close <= Len(ts) /\ (given[n] # <<>> \/ n <= Len(m.params) \/ (m.rest # {} /\ n = 1))
       THEN given ELSE Front(given)

\* Mutant: the place behind a parenthesis that is not there.
BehindAlways(ts, close) == close + 1

Behind(ts, close) == IF close <= Len(ts) THEN close + 1 ELSE close

\* Mutant: a name that is not expanded is looked at again.
CopyHidden ==
  /\ AtToken /\ Top.args = None
  /\ Expands => ~IsObject(macros[Token]) /\ ~IsCalled
  /\ calls' = IF Hidden(Token) THEN calls ELSE Goes(Append(Top.result, Token), Top.i + 1)
  /\ UNCHANGED <<program, line, macros, expanding, output, status>>

Copy ==
  /\ AtToken /\ Top.args = None
  /\ Expands => ~IsObject(macros[Token]) /\ ~IsCalled
  /\ calls' = Goes(Append(Top.result, Token), Top.i + 1)
  /\ UNCHANGED <<program, line, macros, expanding, output, status>>

ExpandObject ==
  /\ AtToken /\ Expands /\ IsObject(macros[Token])
  /\ expanding' = Append(expanding, Token)
  /\ calls' = Append(Goes(Top.result, Top.i + 1), Call(macros[Token].body, Token, None))
  /\ UNCHANGED <<program, line, macros, output, status>>

ExpandFunction ==
  /\ AtToken /\ Expands /\ ~IsObject(macros[Token]) /\ IsCalled
  /\ expanding' = Append(expanding, Token)
  /\ \E close \in {ClosePlace(Top.tokens, NextPlace)} :
       calls' = Append(Goes(Top.result, Behind(Top.tokens, close)),
                       Call(macros[Token].body, Token,
                            collect_macro_args(Top.tokens, NextPlace, close, macros[Token])))
  /\ UNCHANGED <<program, line, macros, output, status>>

\* Mutant: the name stays on the stack.
ReturnHidden ==
  /\ AtEnd /\ Top.args = None
  /\ expanding' = expanding
  /\ IF Len(calls) = 1
       THEN calls' = <<>> /\ output' = output \o Top.result /\ line' = line + 1
       ELSE /\ calls' = [Front(calls) EXCEPT ![Len(calls) - 1].result = @ \o Top.result]
            /\ UNCHANGED <<output, line>>
  /\ UNCHANGED <<program, macros, status>>

Return ==
  /\ AtEnd /\ Top.args = None
  /\ expanding' = IF Top.name = None THEN expanding ELSE Front(expanding)
  /\ IF Len(calls) = 1
       THEN calls' = <<>> /\ output' = output \o Top.result /\ line' = line + 1
       ELSE /\ calls' = [Front(calls) EXCEPT ![Len(calls) - 1].result = @ \o Top.result]
            /\ UNCHANGED <<output, line>>
  /\ UNCHANGED <<program, macros, status>>

-----------------------------------------------------------------------------
(* expand_function_macro_tokens: the body with its # and ## carried out    *)
(* and the arguments in the place of the parameters.                       *)

Substitutes == AtToken /\ Top.args # None
Macro == macros[Top.name]

Place(m, t) == CHOOSE p \in DOMAIN m.params : m.params[p] = t
Given(m, args, t) == HasParam(m, t) /\ Place(m, t) <= Len(args)

expand_variadic_args(m, args) ==
  FlattenSeq([a \in 1 .. Max({0, Len(args) - Len(m.params)}) |->
    (IF a = 1 THEN <<>> ELSE <<Comma>>) \o args[Len(m.params) + a]])

\* What stands for token t of the body.
get_param_replacement(m, args, t) ==
  CASE Given(m, args, t) -> args[Place(m, t)]
    [] ~Given(m, args, t) /\ t \in m.rest -> expand_variadic_args(m, args)
    [] OTHER -> <<t>>

Replacement(t) == get_param_replacement(Macro, Top.args, t)

paste_tokens(left, right) == left \o right

\* A string literal: quotes in a token are escaped, white space is a space, and so is
\* what separates two tokens (unless the string ends with a quote there).
stringify_arg(tokens) ==
  LET Escaped(t) ==
        FlattenSeq([c \in DOMAIN t |-> IF t[c] \in {"\"", "\\"} THEN <<"\\", t[c]>> ELSE <<t[c]>>])
      Started(k) == \E j \in 1 .. k - 1 : tokens[j] # Space
      Separator(k) ==
        IF Started(k) /\ (tokens[k] = Space \/ Last(tokens[k - 1]) # "\"") THEN <<" ">> ELSE <<>>
      Written(k) == IF tokens[k] = Space THEN <<>> ELSE Escaped(tokens[k])
  IN <<"\"">> \o FlattenSeq([k \in DOMAIN tokens |-> Separator(k) \o Written(k)]) \o <<"\"">>

HasNext == Top.i < Len(Top.tokens)
NextToken == Top.tokens[Top.i + 1]

\* # turns the parameter behind it into a string.
Stringifies ==
  Token = Hash /\ HasNext /\ (HasParam(Macro, NextToken) \/ NextToken \in Macro.rest)

\* The code takes args[param_idx], which need not be there.
Lacks == HasParam(Macro, NextToken) /\ ~Given(Macro, Top.args, NextToken)

Stringify ==
  /\ Substitutes /\ Stringifies /\ ~Lacks
  /\ \E arg \in {Replacement(NextToken)} :
       calls' = Goes(Append(Top.result, stringify_arg(arg)), Top.i + 2)
  /\ UNCHANGED <<program, line, macros, expanding, output, status>>

Panic ==
  /\ Substitutes /\ Stringifies /\ Lacks
  /\ status' = "panicked"
  /\ UNCHANGED <<program, line, macros, calls, expanding, output>>

\* ## joins what is on its two sides; what it joins to nothing is lost.
Paste ==
  /\ Substitutes /\ Token = HashHash /\ Top.result # <<>> /\ HasNext
  /\ \E right \in {Replacement(NextToken)} :
       calls' = Goes(Front(Top.result) \o
                       (IF right = <<>> THEN <<>>
                        ELSE <<paste_tokens(Last(Top.result), Head(right))>> \o Tail(right)),
                     Top.i + 2)
  /\ UNCHANGED <<program, line, macros, expanding, output, status>>

Replace ==
  /\ Substitutes /\ ~Stringifies /\ (Token = HashHash => Top.result = <<>> \/ ~HasNext)
  /\ calls' = Goes(IF Token = HashHash THEN Top.result ELSE Top.result \o Replacement(Token), Top.i + 1)
  /\ UNCHANGED <<program, line, macros, expanding, output, status>>

\* The name of the macro was on the stack only while its arguments were substituted.
Rescan ==
  /\ AtEnd /\ Top.args # None
  /\ expanding' = Front(expanding)
  /\ calls' = [calls EXCEPT ![Len(calls)] = Call(Top.result, None, None)]
  /\ UNCHANGED <<program, line, macros, output, status>>

Next ==
  \/ process_define \/ process_undef \/ expand_macro_tokens \/ Stop
  \/ Copy \/ ExpandObject \/ ExpandFunction \/ Return
  \/ Stringify \/ Panic \/ Paste \/ Replace \/ Rescan

Spec == Init /\ [][Next]_vars

\* The preprocessor runs in one thread that nothing stops.
FairSpec == Spec /\ WF_vars(Next)

-----------------------------------------------------------------------------
(* Properties.                                                             *)

\* Each call is at one of its tokens or behind the last one, also after a macro call
\* that its tokens do not close.
TypeOK ==
  /\ line \in 1 .. Len(program) + 1
  /\ DOMAIN macros = Names
  /\ \A c \in DOMAIN calls :
       /\ calls[c].i \in 1 .. Len(calls[c].tokens) + 1
       /\ calls[c].name \in Names \cup {None}
  /\ status \in {"running", "done", "panicked"}

\* The hide stack of expand_macro_tokens_with_stack holds the names of the calls at work,
\* and no two of these are of one macro.  An object-like macro is at work until its text is
\* expanded, so it is not expanded within itself, however many other macros are between.
\* A function-like macro is at work only until its arguments are put in: its name is dropped
\* before the result is scanned again, where the macro may be called once more.
NotReentered ==
  /\ Range(expanding) = {calls[c].name : c \in DOMAIN calls} \ {None}
  /\ \A c, d \in DOMAIN calls : c # d /\ calls[c].name # None => calls[c].name # calls[d].name

\* Every file is expanded at last (or the thread panics): the recursion has an end.
ExpansionEnds == <>(status # "running")
=============================================================================
