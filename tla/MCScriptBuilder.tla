--------------------------- MODULE MCScriptBuilder ---------------------------
(***************************************************************************)
(* The script builder, the text of a section, and the names of files.       *)
(*                                                                          *)
(* A script, two files of a library in a directory below its own, and a     *)
(* section in memory; includes that lead from any of them to any other.     *)
(***************************************************************************)
EXTENDS ScriptBuilder, ScriptPaths

Main == <<"", "home", "main">>
LibA == <<"", "home", "lib", "a">>
LibB == <<"", "home", "lib", "b">>
Memory == <<"str">>
Sections == {Memory}
AllNames == {Main, LibA, LibB, Memory}
\* From the directory of the includer, from that above it, and from the root.
AllIncludes == {<<"lib", "a">>, <<"b">>, <<"..", "main">>, LibA}
AllPaths == AllNames \cup {IncludePath(n, i) : n \in AllNames, i \in AllIncludes}

\* The current directory is /home; what leads nowhere leads to the library.
CleanPath(p) ==
  LET clean == <<"">> \o Place(IF p[1] = "" THEN Tail(p) ELSE <<"home">> \o p)
  IN IF clean \in {Main, LibA, LibB} THEN clean ELSE LibB
Clean == [p \in AllPaths |-> CleanPath(p)]

-----------------------------------------------------------------------------
Inc(path) == [k |-> "include", file |-> path]
Meta(data) == [k |-> "meta", data |-> data]
If(word) == [k |-> "if", word |-> word]
Endif == [k |-> "endif"]
Pragma(ok) == [k |-> "pragma", ok |-> ok]
Class(name) == [k |-> "class", name |-> name, decorated |-> FALSE, body |-> TRUE]
Shared(name) == [Class(name) EXCEPT !.decorated = TRUE]
Space(name) == [k |-> "namespace", name |-> name]
Close == [k |-> "close"]
Decl(name, paren, ends) == [k |-> "decl", name |-> name, paren |-> paren, args |-> <<>>, ends |-> ends]

\* A class with a described variable, and a described function behind it.
Described(c) ==
  <<Class(c), Meta("member"), Decl("v", FALSE, ";"), Close, Meta("a"), Meta("b"), Decl(c, TRUE, "{")>>
\* The same, a described class with a described property.
AllDescribed(c) == <<Meta("type"), Class(c), Meta("property"), Decl("p", FALSE, "{")>> \o Tail(Described(c))

MainTexts ==
  {<<Inc(<<"lib", "a">>), Inc(LibA)>>,
   <<If("W"), Inc(<<"lib", "a">>), Endif, Meta("made"), Decl("o", TRUE, ";")>>}
ATexts ==
  {<<Inc(<<"..", "main">>), Inc(<<"b">>)>>,
   <<Class("D"), Inc(<<"b">>), Meta("member"), Decl("w", FALSE, "="), Pragma(FALSE), Close>>,
   <<Space("N")>> \o Described("E") \o <<Close, Inc(<<"b">>)>>}
BTexts ==
  {<<Shared("S"), Decl("s", FALSE, ";"), Close, Pragma(TRUE)>>,
   <<Inc(LibA), Meta("g"), Decl("g", FALSE, "=")>>}
MTexts ==
  {<<Meta("main"), Decl("main", TRUE, "{")>>, <<Inc(<<"lib", "a">>)>>}
Saying(ms, as, bs, ss) ==
  {[n \in AllNames |-> CASE n = Main -> m [] n = LibA -> a [] n = LibB -> b [] n = Memory -> s] :
     m \in ms, a \in as, b \in bs, s \in ss}
SomeTexts == Saying(MainTexts, ATexts, BTexts, MTexts)
\* One class in each file.
ClassTexts ==
  Saying({<<Inc(<<"lib", "a">>)>> \o Described("C")}, {AllDescribed("E"), <<Space("N")>> \o Described("E") \o <<Close>>},
         {<<Pragma(FALSE)>>}, {<<Meta("main"), Decl("main", TRUE, "{")>>})
\* Everything includes everything.
CyclicTexts ==
  Saying({<<Inc(<<"lib", "a">>), Inc(LibA)>>}, {<<Inc(<<"..", "main">>), Inc(<<"b">>)>>},
         {<<Inc(LibA), Inc(<<"..", "main">>), Pragma(FALSE)>>, <<Inc(<<"b">>), Inc(LibA)>>}, {<<Inc(<<"lib", "a">>)>>})
AllTexts == SomeTexts \cup ClassTexts \cup CyclicTexts
\* Two modules of the texts with classes, and one of any other.
FewModules == module' <= (IF says \in ClassTexts THEN 2 ELSE 1)
\* The first module of those may be added to and built again.
FewBuilds ==
  builds > 0 /\ module' = module =>
    /\ UNCHANGED <<opens, definedWords>>
    /\ ~(module = 1 /\ says \in ClassTexts) => UNCHANGED progress

-----------------------------------------------------------------------------
(* Every section of up to seven tokens for conditional code, and up to six    *)
(* for metadata, written one after the other.                               *)
VARIABLE text

Variable == Decl("x", FALSE, "=")
Function == Decl("f", TRUE, "{")
Property == Decl("p", FALSE, "{")

ForConditions == {If("DEBUG"), If("RELEASE"), Endif, Variable, Function}
ForMetadata ==
  {Class("C"), [Class("C") EXCEPT !.body = FALSE], Space("N"), Close, Meta("m"), Variable, Property}
Defined == {"DEBUG"}

Write(t) ==
  /\ text' = Append(text, t)
  /\ \/ Len(text) < 7 /\ Range(text') \subseteq ForConditions
     \/ Len(text) < 6 /\ Range(text') \subseteq ForMetadata

(* A class is not written in a class nor a namespace in one, blocks are closed, *)
(* and metadata stands before a declaration.                                *)
WellFormed ==
  /\ Balanced(text, Opens, IsClose)
  /\ \A i \in DOMAIN text :
       text[i].k = "meta" => i < Len(text) /\ text[i + 1].k \in {"meta", "class", "decl"}
  /\ \A i, j \in DOMAIN text :
       /\ text[i].k = "class" /\ Around(text, Opens, IsClose, i, j)
       => text[j].k \notin {"class", "namespace"}
Matched == \A k \in DOMAIN text : HowMany(text, IsEndif, 1, k) <= HowMany(text, IsIf, 1, k)

\* #if and #endif compile a declaration exactly if the words of all #if around it
\* are defined, however they are nested (ProcessScriptSection and ExcludeCode).
ConditionsRight == Matched => Compiled(text, Defined) = Meant(text, Defined)

\* Metadata is recorded for the declaration it stands before, with the class and
\* the namespaces around that declaration (currentClass, currentNamespace).
MetadataRight ==
  WellFormed => LET s == Scan("", <<>>, text)
                IN Recorded(s.found) = Describes(text) /\ s.class = "" /\ s.space = <<>>

\* The text of a section is read as its conditions and its metadata say.
TextRight == ConditionsRight /\ MetadataRight

-----------------------------------------------------------------------------
\* Every path of up to five parts, and those of two behind a current directory of two
\* parts or the root.
Parts == {"a", "", ".", ".."}
PathsUpTo(n) == UNION {[1 .. m -> Parts] : m \in 1 .. n}
Written == PathsUpTo(2)
FromRoot == PathsUpTo(5)
Current == {<<"home", "scripts">>, <<"">>}

-----------------------------------------------------------------------------
\* A builder with no module; a behaviour is of one of the three.
BuilderRests == module = 0 /\ says = (CHOOSE s \in Says : TRUE) /\ opens = {}

BuilderStep == text = <<>> /\ PathInit /\ Next /\ FewModules /\ FewBuilds /\ UNCHANGED <<text, pathVars>>
ProceedAlone == Proceed /\ UNCHANGED <<text, pathVars>>
TextStep == BuilderRests /\ PathInit /\ (\E t \in ForConditions \cup ForMetadata : Write(t)) /\ UNCHANGED <<vars, pathVars>>
PathStep == BuilderRests /\ text = <<>> /\ PathNext /\ UNCHANGED <<vars, text>>
TurnAlone == Turn /\ UNCHANGED <<vars, text>>

MCInit == Init /\ text = <<>> /\ PathInit
MCNext == BuilderStep \/ TextStep \/ PathStep
\* In a call Proceed is possible: the first conjunct is WF_vars(Proceed), in a form
\* in which TLC does not have to look for the step in every state.
MCSpec ==
  /\ MCInit /\ [][MCNext]_<<vars, text, pathVars>>
  /\ []<>(calls = <<>>) \/ []<><<ProceedAlone>>_<<vars, text, pathVars>>
  /\ WF_<<vars, text, pathVars>>(TurnAlone)

\* Every call of the host returns, in files that include each other as well, and
\* every path below the root is resolved.
EverythingEnds == CallsReturn /\ Resolves
=============================================================================
