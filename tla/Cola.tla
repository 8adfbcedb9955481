-------------------------------- MODULE Cola --------------------------------
(***************************************************************************)
(* The command line parser of cola.hpp: a client defines options, lets     *)
(* them parse a command line, asks for their values, and may reset the     *)
(* parser and start again.  A call the code refuses (a name defined twice, *)
(* a definition after parse(), a get() before it) throws before it changes *)
(* anything; here it is an action that is not enabled.                     *)
(*                                                                         *)
(* A text is what its shape is: the dashes it starts with, the letters     *)
(* after them up to a "=", and what follows that.  "-" and "=" are no      *)
(* letters, and a "=" comes only after two dashes.  The name of an option  *)
(* is its letters: make_arg puts one dash before one letter and two before *)
(* more, so that "--a" asks for "-a".                                      *)
(***************************************************************************)
EXTENDS Integers, SequencesExt, FiniteSetsExt

CONSTANTS Name,         \* names a client may give its options
          ArgType,      \* types of arguments it may ask for
          Delim,        \* delimiters it may set
          Comma,        \* ',', the delimiter an option starts with
          Default,      \* default value of an option with an argument
          DefaultText,  \* a vector's default, written as text
          Argvs,        \* for each call of parse(), the command lines it may be
                        \* given, without the command; their number is a bound
          Casts(_, _),  \* can a stringstream read this text as that type?
          Split(_, _),  \* the non-empty pieces of a text between delimiters
          NoValue,      \* a text has no "="
          Refused,      \* the answer of a call that throws
          MaxOptions,   \* bounds: options, and names of an option
          MaxNames

FLAG == "FLAG"
Vectors == {"IVECTOR", "RVECTOR", "SVECTOR"}

ASSUME ColaAssumption ==
    /\ << >> \notin Name
    /\ ArgType \subseteq {"INTEGER", "REAL", "STRING"} \cup Vectors
    /\ Comma \in Delim
    /\ MaxOptions \in Nat /\ MaxNames \in Nat
    /\ Len(Argvs) \in Nat
    /\ \A p \in 1..Len(Argvs) : \A argv \in Argvs[p] :
         /\ argv \in Seq(Range(argv))
         /\ \A t \in Range(argv) : t.dashes \in 0..2 /\ t.letters \in Seq(Range(t.letters))

VARIABLES options,    \* options_, in the order of their definition
          lookup,     \* lookup_: from names to indices of options
          args,       \* args_
          rest,       \* rest_args_
          parsed,     \* parsed_
          undefined,  \* exists_undefined_
          it,         \* the argument parse_impl is at; 0 outside parse()
          parses,     \* calls of parse()
          failed,     \* history: how parse() failed since the last reset
          before      \* history: the options' values when parse() began

colaVars == <<options, lookup, args, rest, parsed, undefined, it, parses, failed, before>>

-----------------------------------------------------------------------------
Word(letters) == [dashes |-> 0, letters |-> letters, value |-> NoValue]

Judge(text) ==
    CASE text.dashes = 0 -> "ELSE"
      [] text.dashes = 1 /\ text.letters = << >> -> "IGNORE"
      [] text.dashes = 1 /\ Len(text.letters) = 1 -> "SHORT"
      [] text.dashes = 1 /\ Len(text.letters) > 1 -> "SHORTS"
      [] text.dashes = 2 /\ text.value # NoValue -> "LONG_ARG"
      [] text.dashes = 2 /\ text.value = NoValue /\ text.letters = << >> -> "IGNORE_AFTER"
      [] OTHER -> "LONG"

IsDefined(name) == name \in DOMAIN lookup

HasArg(o) == options[o].type # FLAG

\* The name leads to an option that takes an argument.
WantsArg(name) == IsDefined(name) /\ HasArg(lookup[name])

\* What from_string makes of a text: its pieces, or itself.
Pieces(option, text) ==
    IF option.type \in Vectors THEN Split(text, option.delim) ELSE <<text>>

Element(type) ==
    CASE type \in {"INTEGER", "IVECTOR"} -> "INTEGER"
      [] type \in {"REAL", "RVECTOR"} -> "REAL"
      [] OTHER -> "STRING"

\* from_string<string> takes every text.
Readable(option, text) ==
    \/ Element(option.type) = "STRING"
    \/ \A p \in Range(Pieces(option, text)) : Casts(p, Element(option.type))

\* as<T>() of an option: its value, if it was defined with that type.
As(o, type) == IF options[o].type = type THEN options[o].value ELSE Refused

\* get() and is_passed() ask for a name after parse().
Get(name, type) == IF parsed /\ IsDefined(name) THEN As(lookup[name], type) ELSE Refused

IsPassed(name) ==
    IF parsed /\ IsDefined(name) THEN options[lookup[name]].passed ELSE Refused

-----------------------------------------------------------------------------
ColaInit ==
    /\ options = << >> /\ lookup = << >>
    /\ args = << >> /\ rest = << >> /\ before = << >>
    /\ parsed = FALSE /\ undefined = FALSE
    /\ it = 0 /\ parses = 0 /\ failed = "none"

\* A call of the client outside parse() and before it.
Setup == it = 0 /\ ~parsed /\ UNCHANGED <<args, rest, parsed, undefined, it, parses,
                                          failed, before>>

NewOption(name) ==
    [names |-> <<name>>, type |-> FLAG, value |-> << >>, passed |-> FALSE, delim |-> Comma]

\* Mutant: the entry is overwritten, as by lookup_[name] = this.
EnterOver(name, o) == (name :> o) @@ lookup

\* map::insert keeps the entry that is there.
Enter(name, o) ==
    [n \in DOMAIN lookup \cup {name} |-> IF IsDefined(n) THEN lookup[n] ELSE o]

Define(name) ==
    /\ Setup /\ ~IsDefined(name) /\ Len(options) < MaxOptions
    /\ options' = Append(options, NewOption(name))
    /\ lookup' = Enter(name, Len(options) + 1)

\* The option may not have the name already; another option may.
Alias(o, name) ==
    /\ Setup /\ name \notin Range(options[o].names)
    /\ Len(options[o].names) < MaxNames
    /\ options' = [options EXCEPT ![o].names = Append(@, name)]
    /\ lookup' = Enter(name, o)

\* with_arg and with_arg_vector with a default of the type.
WithArg(o, type) ==
    /\ Setup /\ ~HasArg(o)
    /\ options' = [options EXCEPT ![o].type = type, ![o].value = <<Default>>]
    /\ UNCHANGED lookup

\* with_arg_vector with a text, cut at the delimiter of this moment; one that cannot
\* be read leaves the option a flag.
WithArgText(o, type) ==
    LET vector == [options[o] EXCEPT !.type = type]
    IN  /\ Setup /\ ~HasArg(o) /\ Readable(vector, DefaultText)
        /\ options' = [options EXCEPT
                         ![o] = [vector EXCEPT !.value = Pieces(vector, DefaultText)]]
        /\ UNCHANGED lookup

Delimiter(o, d) ==
    /\ Setup
    /\ options' = [options EXCEPT ![o].delim = d]
    /\ UNCHANGED lookup

SetUp ==
    \/ \E name \in Name : Define(name)
    \/ \E o \in DOMAIN options :
         \/ \E name \in Name : Alias(o, name)
         \/ \E type \in ArgType : WithArg(o, type)
         \/ \E type \in ArgType \cap Vectors : WithArgText(o, type)
         \/ \E d \in Delim : Delimiter(o, d)

-----------------------------------------------------------------------------
(* parse().                                                                 *)

Parse(argv) ==
    /\ it = 0 /\ ~parsed
    /\ parses' = parses + 1
    /\ args' = argv /\ it' = 1
    /\ before' = [o \in DOMAIN options |-> options[o].value]
    /\ UNCHANGED <<options, lookup, rest, parsed, undefined, failed>>

\* The loop is at a literal of this kind.
At(kind) ==
    /\ it \in DOMAIN args /\ Judge(args[it]) = kind
    /\ UNCHANGED <<lookup, args, parsed, parses, before>>

Goto(i) == it' = i /\ UNCHANGED failed

\* An exception leaves parse(); what earlier literals did remains.
Throw(error) == it' = 0 /\ failed' = error /\ UNCHANGED <<rest, undefined>>

SetAside == rest' = Append(rest, args[it])

\* A name nobody has defined is noted, and the literal set aside.
NoteUndefined ==
    /\ ~IsDefined(args[it].letters)
    /\ undefined' = TRUE /\ SetAside
    /\ Goto(it + 1)
    /\ UNCHANGED options

\* Mutant: the first value stays.
PassKeeping(o, text, next) ==
    \/ /\ Readable(options[o], text)
       /\ options' = [options EXCEPT ![o].passed = TRUE,
                         ![o].value = IF options[o].passed THEN @
                                      ELSE Pieces(options[o], text)]
       /\ Goto(next) /\ UNCHANGED <<rest, undefined>>
    \/ /\ ~Readable(options[o], text)
       /\ Throw("runtime_error") /\ UNCHANGED options

\* parse_arg and passed() of an option that takes an argument.
PassWith(o, text, next) ==
    \/ /\ Readable(options[o], text)
       /\ options' = [options EXCEPT ![o].passed = TRUE,
                                     ![o].value = Pieces(options[o], text)]
       /\ Goto(next) /\ UNCHANGED <<rest, undefined>>
    \/ /\ ~Readable(options[o], text)
       /\ Throw("runtime_error") /\ UNCHANGED options

\* One name, and the next argument of the line if the option wants one, even if it
\* looks like an option itself.
EvalName ==
    LET name == args[it].letters
    IN  \/ NoteUndefined
        \/ /\ IsDefined(name) /\ ~WantsArg(name)
           /\ options' = [options EXCEPT ![lookup[name]].passed = TRUE]
           /\ Goto(it + 1) /\ UNCHANGED <<rest, undefined>>
        \/ /\ WantsArg(name) /\ it < Len(args)
           /\ PassWith(lookup[name], args[it + 1], it + 2)
        \/ /\ WantsArg(name) /\ it = Len(args)
           /\ Throw("runtime_error") /\ UNCHANGED options

EvalShort == At("SHORT") /\ EvalName

EvalLong == At("LONG") /\ EvalName

\* "-a123": the rest of the literal is a's argument.
EvalShortValue ==
    LET letters == args[it].letters
    IN  /\ At("SHORTS") /\ WantsArg(<<letters[1]>>)
        /\ PassWith(lookup[<<letters[1]>>], Word(Tail(letters)), it + 1)

\* Mutant: an option that wants an argument is passed in a group like a flag.
EvalShortsLoose ==
    LET letters == args[it].letters
        done == {j \in DOMAIN letters : \A k \in 1..j : IsDefined(<<letters[k]>>)}
    IN  /\ At("SHORTS") /\ ~WantsArg(<<letters[1]>>)
        /\ options' = [o \in DOMAIN options |->
                         [options[o] EXCEPT !.passed =
                            @ \/ \E j \in done : lookup[<<letters[j]>>] = o]]
        /\ \/ done = DOMAIN letters /\ Goto(it + 1) /\ UNCHANGED <<rest, undefined>>
           \/ done # DOMAIN letters /\ Throw("logic_error")

\* "-abc": one flag after the other, up to one that is none or wants an argument.
EvalShorts ==
    LET letters == args[it].letters
        IsFlag(j) == IsDefined(<<letters[j]>>) /\ ~WantsArg(<<letters[j]>>)
        done == {j \in DOMAIN letters : \A k \in 1..j : IsFlag(k)}
    IN  /\ At("SHORTS") /\ ~WantsArg(<<letters[1]>>)
        /\ options' = [o \in DOMAIN options |->
                         [options[o] EXCEPT !.passed =
                            @ \/ \E j \in done : lookup[<<letters[j]>>] = o]]
        /\ \/ done = DOMAIN letters /\ Goto(it + 1) /\ UNCHANGED <<rest, undefined>>
           \/ \E j \in DOMAIN letters \ done :
                /\ \A k \in 1..(j - 1) : k \in done
                /\ Throw(IF IsDefined(<<letters[j]>>) THEN "runtime_error"
                                                       ELSE "logic_error")

\* "--name=value".
EvalLongParam ==
    LET name == args[it].letters
        value == args[it].value
    IN  /\ At("LONG_ARG")
        /\ \/ NoteUndefined
           \/ /\ IsDefined(name) /\ value = << >>
              /\ Throw("runtime_error") /\ UNCHANGED options
           \/ /\ WantsArg(name) /\ value # << >>
              /\ PassWith(lookup[name], Word(value), it + 1)
           \/ /\ IsDefined(name) /\ ~WantsArg(name) /\ value # << >>
              /\ Throw("logic_error") /\ UNCHANGED options

\* Mutant: the loop does not get past "-".
IgnoreStays == At("IGNORE") /\ Goto(it) /\ UNCHANGED <<options, rest, undefined>>

\* Mutant: "-" takes the argument after it along.
IgnoreTwo == At("IGNORE") /\ Goto(it + 2) /\ UNCHANGED <<options, rest, undefined>>

\* "-" means nothing.
Ignore == At("IGNORE") /\ Goto(it + 1) /\ UNCHANGED <<options, rest, undefined>>

\* Mutant: "--" itself is set aside as well.
IgnoreAfterKeeps ==
    /\ At("IGNORE_AFTER")
    /\ rest' = rest \o SubSeq(args, it, Len(args))
    /\ Goto(Len(args) + 1) /\ UNCHANGED <<options, undefined>>

\* "--": what follows is set aside unread.
IgnoreAfter ==
    /\ At("IGNORE_AFTER")
    /\ rest' = rest \o SubSeq(args, it + 1, Len(args))
    /\ Goto(Len(args) + 1) /\ UNCHANGED <<options, undefined>>

Else == At("ELSE") /\ SetAside /\ Goto(it + 1) /\ UNCHANGED <<options, undefined>>

ParseEnds ==
    /\ it = Len(args) + 1
    /\ parsed' = TRUE /\ Goto(0)
    /\ UNCHANGED <<options, lookup, args, rest, undefined, parses, before>>

ParseImpl ==
    \/ EvalShort \/ EvalLong \/ EvalShortValue \/ EvalShorts \/ EvalLongParam
    \/ Ignore \/ IgnoreAfter \/ Else \/ ParseEnds

-----------------------------------------------------------------------------
\* reset(): values stay, and so does exists_undefined_.
Reset ==
    /\ it = 0 /\ parses > 0
    /\ args' = << >> /\ rest' = << >> /\ parsed' = FALSE
    /\ options' = [o \in DOMAIN options |-> [options[o] EXCEPT !.passed = FALSE]]
    /\ failed' = "none" /\ before' = << >>
    /\ UNCHANGED <<lookup, undefined, it, parses>>

ColaNext ==
    \/ SetUp
    \/ parses < Len(Argvs) /\ \E argv \in Argvs[parses + 1] : Parse(argv)
    \/ ParseImpl
    \/ Reset

ColaSpec == ColaInit /\ [][ColaNext]_colaVars

\* A call of parse() runs on; the client owes nothing.
FairColaSpec == ColaSpec /\ WF_colaVars(ParseImpl)

-----------------------------------------------------------------------------
(* What a command line means, said of the line as a whole.                 *)

TakesNext(i) ==
    /\ Judge(args[i]) \in {"SHORT", "LONG"}
    /\ i < Len(args) /\ WantsArg(args[i].letters)

Takers == {i \in DOMAIN args : TakesNext(i)}

\* An argument is a literal of its own unless the literal before it takes it.
Alone(takers) ==
    LET alone[i \in Nat] == i <= 1 \/ ~(alone[i - 1] /\ i - 1 \in takers)
    IN  alone

OnItsOwn(i) == Alone(Takers)[i]

Ends(i) == OnItsOwn(i) /\ Judge(args[i]) = "IGNORE_AFTER"

Literals == {i \in DOMAIN args : OnItsOwn(i) /\ \A j \in 1..(i - 1) : ~Ends(j)}

\* The names a literal speaks of.
NamesIn(i) ==
    LET t == args[i]
    IN  CASE Judge(t) \in {"SHORT", "LONG", "LONG_ARG"} -> {t.letters}
          [] Judge(t) = "SHORTS" ->
                IF WantsArg(<<t.letters[1]>>) THEN {<<t.letters[1]>>}
                ELSE {<<t.letters[j]>> : j \in DOMAIN t.letters}
          [] OTHER -> {}

\* It gives the one name it speaks of an argument, ...
GivesArgument(i) ==
    LET t == args[i]
    IN  \/ Judge(t) = "LONG_ARG" /\ t.value # << >>
        \/ Judge(t) = "SHORTS" /\ WantsArg(<<t.letters[1]>>)
        \/ TakesNext(i)

\* ... this one.
Argument(i) ==
    LET t == args[i]
    IN  CASE Judge(t) = "LONG_ARG" -> Word(t.value)
          [] Judge(t) = "SHORTS" -> Word(Tail(t.letters))
          [] OTHER -> args[i + 1]

Single(i) == Judge(args[i]) # "SHORTS"

\* A literal parse() has to accept: a single name may be unknown, a known one has
\* the argument it wants, readable as its type, and none it does not want.
Acceptable(i) ==
    \A name \in NamesIn(i) :
        \/ ~IsDefined(name) /\ Single(i)
        \/ /\ WantsArg(name) /\ GivesArgument(i)
           /\ Readable(options[lookup[name]], Argument(i))
        \/ IsDefined(name) /\ ~WantsArg(name) /\ Judge(args[i]) # "LONG_ARG"

Mentions(o) ==
    {i \in Literals : \E name \in NamesIn(i) : IsDefined(name) /\ lookup[name] = o}

\* Arguments that are left for the client, in their order.
LeftOver(i) ==
    \/ i \in Literals /\ Judge(args[i]) = "ELSE"
    \/ i \in Literals /\ Single(i) /\ \E name \in NamesIn(i) : ~IsDefined(name)
    \/ \E j \in 1..(i - 1) : j \in Literals /\ Ends(j)

-----------------------------------------------------------------------------
(* Properties.                                                             *)

\* Types of the variables.
ColaTypeOK ==
    /\ \A o \in DOMAIN options :
         /\ options[o].type \in ArgType \cup {FLAG}
         /\ {options[o].passed} \subseteq BOOLEAN
         /\ options[o].names \in Seq(Name) \ {<< >>} /\ options[o].delim \in Delim
    /\ Len(options) <= MaxOptions
    /\ Range(lookup) \subseteq DOMAIN options
    /\ it \in 0..(Len(args) + 1)
    /\ {parsed, undefined} \subseteq BOOLEAN /\ (parsed => it = 0)
    /\ failed \in {"none", "logic_error", "runtime_error"}

\* An option can always be asked for by the name it was defined with, and a
\* name leads only to an option that has it, although alias() lets two options
\* take the same name (define, alias, map::insert in lookup_).
LookupLeadsHome ==
    /\ \A o \in DOMAIN options : lookup[options[o].names[1]] = o
    /\ \A name \in DOMAIN lookup : name \in Range(options[lookup[name]].names)

Clean == parsed /\ failed = "none"

\* After a parse() that succeeds, an option the line speaks of is passed, and get() by
\* any of its names and with its type returns the last value the line gives it,
\* grouped, attached or separate; for an option the first line does not speak of, get()
\* returns the default.  What is_passed() says of an option the line does not speak of,
\* and what get() returns for it on a later line, after a reset(), is left open: the
\* code and the comments of cola.hpp differ there.
ValuesGiven ==
    Clean => \A name \in DOMAIN lookup :
        LET o == lookup[name]
            last == Max(Mentions(o))
        IN  /\ Mentions(o) # {} =>
                 /\ IsPassed(name)
                 /\ HasArg(o) =>
                      Get(name, options[o].type) = Pieces(options[o], Argument(last))
            /\ Mentions(o) = {} /\ HasArg(o) /\ parses = 1 =>
                 Get(name, options[o].type) = before[o]

\* After a parse() that succeeds, rest_args() are the arguments that belong to no
\* option, all of them, once, and in the order of the line; any undefined name is
\* among them and has been noted (rest_args, exists_undefined_options).
RestIsRest ==
    Clean =>
        /\ \E left \in [DOMAIN rest -> {i \in DOMAIN args : LeftOver(i)}] :
             /\ {i \in DOMAIN args : LeftOver(i)} \subseteq Range(left)
             /\ \A j, k \in DOMAIN rest : j < k => left[j] < left[k]
             /\ \A k \in DOMAIN rest : rest[k] = args[left[k]]
        /\ (\E i \in Literals : Single(i) /\ \E name \in NamesIn(i) : ~IsDefined(name))
             => undefined

\* parse() succeeds exactly if every literal of the line is acceptable: nothing
\* wrong is let through, and no exception leaves it for a line that is right.
ErrorsJustified ==
    [][it > 0 /\ it' = 0 => (parsed' <=> \A i \in Literals : Acceptable(i))]_colaVars

\* parse() comes to an end, by its last argument or an exception (the loop of
\* parse_impl, in which every kind of literal has to move the iterator itself).
ParseReturns == it > 0 ~> it = 0
=============================================================================
