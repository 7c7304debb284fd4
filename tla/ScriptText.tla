------------------------------ MODULE ScriptText ------------------------------
(***************************************************************************)
(* What CScriptBuilder (3rd/scriptbuilder) does to the text of one section: *)
(* a pass that blanks out what #if excludes, and a pass that takes out the  *)
(* directives and the metadata.  A text is a sequence of these:             *)
(*   [k |-> "if", word]      #if word                                       *)
(*   [k |-> "endif"]         #endif                                         *)
(*   [k |-> "include", file] #include "file"                                *)
(*   [k |-> "pragma", ok]    #pragma, and whether the callback takes it     *)
(*   [k |-> "meta", data]    [data]                                         *)
(*   [k |-> "class", name, decorated, body]                                 *)
(*                           class name {, or class name; without body,     *)
(*                           after shared, abstract and the like            *)
(*   [k |-> "namespace", name]  namespace name {                            *)
(*   [k |-> "close"]         the } of a class or namespace                  *)
(*   [k |-> "decl", name, paren, args, ends]                                *)
(*                           any other declaration, its block included: the *)
(*                           identifiers between its parentheses, and "{",  *)
(*                           ";" or "=", where its declarator ends          *)
(***************************************************************************)
EXTENDS Integers, Sequences, SequencesExt

-----------------------------------------------------------------------------
(* Conditional code.  nested counts the #if that were kept, excluded those   *)
(* from the one that was not.                                               *)
Everything == [nested |-> 0, excluded |-> 0, kept |-> <<>>]

ExcludeCode(s, t) ==
  [s EXCEPT !.excluded = @ + (IF t.k = "if" THEN 1 ELSE 0) - (IF t.k = "endif" THEN 1 ELSE 0)]

Conditional(words, s, t) ==
  CASE s.excluded > 0 -> ExcludeCode(s, t)
    [] s.excluded = 0 /\ t.k = "if" /\ t.word \in words -> [s EXCEPT !.nested = @ + 1]
    [] s.excluded = 0 /\ t.k = "if" /\ t.word \notin words -> [s EXCEPT !.excluded = 1]
    [] s.excluded = 0 /\ t.k = "endif" /\ s.nested > 0 -> [s EXCEPT !.nested = @ - 1]
    [] OTHER -> [s EXCEPT !.kept = Append(@, t)]

Compiled(text, words) ==
  LET Pass(s, t) == Conditional(words, s, t) IN FoldLeft(Pass, Everything, text).kept

-----------------------------------------------------------------------------
(* Declarations.  The name of a declaration is the last identifier before   *)
(* its end.                                                                 *)
LastIdentifier(d) == IF d.args = <<>> THEN d.name ELSE Last(d.args)

DeclarationType(d) ==
  CASE d.k = "class" -> "type"
    [] d.k = "namespace" -> "virtual property" \* a keyword, a name and a block
    [] d.k = "decl" /\ d.ends = "{" /\ d.paren -> "function"
    [] d.k = "decl" /\ d.ends = "{" /\ ~d.paren -> "virtual property"
    [] d.k = "decl" /\ d.ends # "{" /\ d.paren -> "function or variable"
    [] d.k = "decl" /\ d.ends # "{" /\ ~d.paren -> "variable"
    [] OTHER -> "none"

ExtractDeclaration(d) ==
  [type |-> DeclarationType(d),
   name |-> IF DeclarationType(d) = "function or variable" THEN LastIdentifier(d) ELSE d.name,
   declaration |-> d.name]

-----------------------------------------------------------------------------
(* The scan.  class and space are currentClass and currentNamespace, skipped *)
(* the blocks SkipStatement is in, and swallows says that it is before the    *)
(* first ; or { yet, metas is the metadata before this place, and left what  *)
(* the compiler of the scripts is handed and cannot read.                    *)
StartOfSection(class, space) ==
  [class |-> class, space |-> space, skipped |-> 0, swallows |-> FALSE, metas |-> <<>>,
   found |-> <<>>, includes |-> <<>>, refused |-> FALSE, left |-> {}]

Opens(t) == t.k = "namespace" \/ (t.k = "class" /\ t.body)
Directive(t) == t.k \in {"include", "pragma", "meta", "endif"}

\* In a block that is skipped.
SkipStatement(s, t) ==
  [s EXCEPT !.skipped = @ + (IF Opens(t) THEN 1 ELSE 0) - (IF t.k = "close" THEN 1 ELSE 0),
            !.left = @ \cup (IF Directive(t) THEN {t} ELSE {})]

\* Behind an #endif that ends no #if: all up to and with the next statement.
BeginSkipping(s, t) ==
  [s EXCEPT !.skipped = IF Opens(t) THEN 1 ELSE 0,
            !.swallows = ~Opens(t) /\ t.k \notin {"class", "decl"},
            !.left = @ \cup (IF Directive(t) THEN {t} ELSE {})]

\* What was read stays for the next one.
Attribute_Stays(s, t) ==
  IF s.metas = <<>> \/ DeclarationType(t) = "none" THEN s
  ELSE [s EXCEPT !.found = Append(@, [metadata |-> s.metas, decl |-> ExtractDeclaration(t),
                                      parentClass |-> s.class, nameSpace |-> s.space])]

\* Metadata that was read belongs to this.
Attribute(s, t) ==
  IF s.metas = <<>> \/ DeclarationType(t) = "none" THEN [s EXCEPT !.metas = <<>>]
  ELSE [s EXCEPT !.metas = <<>>,
                 !.found = Append(@, [metadata |-> s.metas, decl |-> ExtractDeclaration(t),
                                      parentClass |-> s.class, nameSpace |-> s.space])]

EnterClass(s, t) ==
  IF t.decorated \/ s.class # "" THEN [s EXCEPT !.skipped = IF t.body THEN 1 ELSE 0]
  ELSE IF t.body THEN [s EXCEPT !.class = t.name] ELSE s

EnterNamespace(s, t) == [s EXCEPT !.space = Append(@, t.name)]

\* The name of the class is kept.
Leave_Class(s) == IF s.space # <<>> THEN [s EXCEPT !.space = Front(@)] ELSE s
Leave(s) ==
  IF s.class # "" THEN [s EXCEPT !.class = ""]
  ELSE IF s.space # <<>> THEN [s EXCEPT !.space = Front(@)] ELSE s

Scanned(s, t) ==
  CASE s.refused -> s
    [] ~s.refused /\ s.skipped > 0 -> SkipStatement(s, t)
    [] ~s.refused /\ s.swallows -> BeginSkipping(s, t)
    [] OTHER ->
       CASE t.k = "meta" -> [s EXCEPT !.metas = Append(@, t.data)]
         [] t.k = "class" -> EnterClass(Attribute(s, t), t)
         [] t.k = "namespace" -> EnterNamespace(Attribute(s, t), t)
         [] t.k = "close" -> Leave(Attribute(s, t))
         [] t.k = "include" -> [Attribute(s, t) EXCEPT !.includes = Append(@, t.file)]
         [] t.k = "pragma" -> [Attribute(s, t) EXCEPT !.refused = ~t.ok]
         [] t.k = "decl" -> Attribute(s, t)
         [] OTHER -> [Attribute(s, t) EXCEPT !.left = @ \cup {t}, !.swallows = TRUE]

Scan(class, space, text) == FoldLeft(Scanned, StartOfSection(class, space), text)

-----------------------------------------------------------------------------
(* What the two passes are for.                                             *)

HowMany(text, P(_), i, j) == Len(SelectSeq(SubSeq(text, i, j), P))
\* The block that begins at i is open at j.
Around(text, Begins(_), Ends(_), i, j) ==
  /\ i < j /\ Begins(text[i])
  /\ \A k \in i + 1 .. j - 1 :
       HowMany(text, Ends, i + 1, k) <= HowMany(text, Begins, i + 1, k)
\* No block is ended that was not begun, and all are ended.
Balanced(text, Begins(_), Ends(_)) ==
  /\ \A k \in DOMAIN text : HowMany(text, Ends, 1, k) <= HowMany(text, Begins, 1, k)
  /\ HowMany(text, Ends, 1, Len(text)) = HowMany(text, Begins, 1, Len(text))

IsIf(t) == t.k = "if"
IsEndif(t) == t.k = "endif"
IsClose(t) == t.k = "close"

\* The places of text that are in P, in order.
Places(text, P(_)) == SelectSeq([i \in DOMAIN text |-> i], P)

\* A place is compiled when the word of every #if around it is defined.
Meant(text, words) ==
  LET Included(j) ==
        /\ text[j].k \notin {"if", "endif"}
        /\ \A i \in DOMAIN text : Around(text, IsIf, IsEndif, i, j) => text[i].word \in words
      places == Places(text, Included)
  IN [n \in DOMAIN places |-> text[places[n]]]

(* What a compiled text declares, each declaration with the metadata right    *)
(* before it and with the class and the namespaces it is in.                *)
Declared(text) ==
  LET Open(k, j) == {i \in DOMAIN text : text[i].k = k /\ Around(text, Opens, IsClose, i, j)}
      Class(j) == IF Open("class", j) = {} THEN "" ELSE text[CHOOSE i \in Open("class", j) : TRUE].name
      Space(j) == LET InSpace(i) == i \in Open("namespace", j)
                      places == Places(text, InSpace)
                  IN [n \in DOMAIN places |-> text[places[n]].name]
      Before(j) == LET RightBefore(i) == i < j /\ \A m \in i .. j - 1 : text[m].k = "meta"
                       places == Places(text, RightBefore)
                   IN [n \in DOMAIN places |-> text[places[n]].data]
      Declares(j) == text[j].k \in {"class", "decl"}
      places == Places(text, Declares)
      Line(j) == [metadata |-> Before(j), type |-> DeclarationType(text[j]), name |-> text[j].name,
                  parentClass |-> Class(j), nameSpace |-> Space(j)]
  IN [n \in DOMAIN places |-> Line(places[n])]

IsDescribed(d) == d.metadata # <<>>
Describes(text) == SelectSeq(Declared(text), IsDescribed)

\* What the scan has found, in the same terms.
Recorded(found) ==
  [n \in DOMAIN found |->
     [metadata |-> found[n].metadata, type |-> found[n].decl.type, name |-> found[n].decl.name,
      parentClass |-> found[n].parentClass, nameSpace |-> found[n].nameSpace]]
=============================================================================
