---------------------------- MODULE ScriptBuilder ----------------------------
(***************************************************************************)
(* CScriptBuilder (3rd/scriptbuilder): a host starts a module, adds sections *)
(* from files and from memory, and builds it; an #include adds one more file *)
(* after the section it is in.  A name that was asked for once is not loaded *)
(* again.  The calls nest: frame n of calls is a section that was loaded by  *)
(* an #include of frame n - 1 and whose own includes are followed from index *)
(* next on.  No include callback is set; the pragma callback only accepts or *)
(* refuses; the engine makes every module it is asked for.                  *)
(***************************************************************************)
EXTENDS ScriptText

CONSTANTS
  Names,          \* names of sections: paths as sequences of parts, the first "" from the root
  Includes,       \* what an #include may say
  Paths,          \* all paths that files are asked for by
  Says,           \* what the sections may say: functions from names to texts
  Words,          \* words a host may define
  FromMemory,     \* names a host gives to sections it has in memory
  AbsolutePath,   \* AbsolutePath[p]: what GetAbsolutePath makes of p (ScriptPaths)
  MaxModules,     \* modules a host makes, a bound
  MaxBuilds,      \* and how often it builds each, a bound
  NoName

\* The path of an #include of a section: beside it, unless it is from the root.
IncludePath(section, file) == IF file[1] = "" THEN file ELSE Front(section) \o file

ASSUME NamesAssumption == FromMemory \subseteq Names /\ NoName \notin Names /\ MaxModules \in Nat /\ MaxBuilds \in Nat
ASSUME PathsAssumption ==
  /\ Names \subseteq Paths
  /\ \A n \in Names, i \in Includes : IncludePath(n, i) \in Paths
  /\ AbsolutePath \in [Paths -> Names]

VARIABLES
  says,           \* says[n]: the text of section n
  opens,          \* the files that can be opened and read
  definedWords,
  module,         \* how many modules were made
  phase,          \* "adding", "built" with or without success, or "aborted" by an assertion
  built, builds,  \* how many of the sections earlier Builds were given, and their number
  includedScripts,
  sections,       \* names given to AddScriptSection
  given, includes, \* given[n] and includes[n]: the text that was given, and the #include taken out of it
  calls,
  foundDeclarations, currentClass, currentNamespace,
  metadata,       \* the metadata maps: what is described, and how
  asked, result,  \* the last section the host asked for, and what that returned
  failed          \* whether a call has failed since the module was made

host == <<says, opens, definedWords, module>>
parsed == <<foundDeclarations, currentClass, currentNamespace>>
added == <<includedScripts, sections, given, includes>>
progress == <<phase, built, builds>>
vars == <<host, progress, added, calls, parsed, metadata, asked, result, failed>>

Added == {sections[i] : i \in DOMAIN sections}
Nothing == [n \in Names |-> <<>>]
Idle == calls = <<>> /\ phase # "aborted" /\ module > 0
Top == Len(calls)

-----------------------------------------------------------------------------
(* The host.                                                                *)

\* classMetadataMap is not cleared.
StartNewModule ==
  /\ calls = <<>> /\ phase # "aborted" /\ module < MaxModules
  /\ module' = module + 1 /\ phase' = "adding" /\ built' = 0 /\ builds' = 0
  /\ includedScripts' = {} /\ sections' = <<>> /\ given' = Nothing /\ includes' = Nothing
  /\ foundDeclarations' = <<>> /\ currentClass' = "" /\ currentNamespace' = <<>>
  /\ metadata' = {m \in metadata : m.subject.parentClass # ""}
  /\ asked' = NoName /\ result' = "none" /\ failed' = FALSE
  /\ UNCHANGED <<says, opens, definedWords, calls>>

DefineWord(w) ==
  /\ Idle /\ w \notin definedWords
  /\ definedWords' = definedWords \cup {w}
  /\ UNCHANGED <<says, opens, module, progress, added, calls, parsed, metadata, asked, result, failed>>

\* A file is written that could not be opened.
FileAppears(n) ==
  /\ n \notin opens
  /\ opens' = opens \cup {n}
  /\ UNCHANGED <<says, definedWords, module, progress, added, calls, parsed, metadata, asked, result, failed>>

-----------------------------------------------------------------------------
Frame(n, memory) == [section |-> n, memory |-> memory, loaded |-> FALSE, next |-> 1]

\* A section that is to be loaded on top of the calls known.
IncludeIfNotAlreadyIncluded(n, memory, known) ==
  IF n \in includedScripts THEN includedScripts' = includedScripts /\ calls' = known
  ELSE /\ includedScripts' = includedScripts \cup {n}
       /\ calls' = Append(known, Frame(n, memory))

AddSection(n, memory) ==
  /\ Idle
  /\ IncludeIfNotAlreadyIncluded(n, memory, calls)
  /\ asked' = n /\ result' = IF n \in includedScripts THEN "already" ELSE "included"
  /\ phase' = "adding"
  /\ UNCHANGED <<host, built, builds, sections, given, includes, parsed, metadata, failed>>

AddSectionFromFile(p) == AddSection(AbsolutePath[p], FALSE)
AddSectionFromMemory(n) == AddSection(n, TRUE)

\* Every call that is nested returns the error.
Fail == calls' = <<>> /\ result' = "error" /\ failed' = TRUE

Readable == calls[Top].memory \/ calls[Top].section \in opens
LoadFails ==
  /\ calls # <<>> /\ ~calls[Top].loaded /\ ~Readable
  /\ Fail
  /\ UNCHANGED <<host, progress, added, parsed, metadata, asked>>

(* ProcessScriptSection up to its includes: a pragma that is refused ends it  *)
(* before the section is added.                                             *)
ProcessScriptSection ==
  /\ calls # <<>> /\ ~calls[Top].loaded /\ Readable
  /\ LET n == calls[Top].section
         text == Compiled(says[n], definedWords)
         s == Scan(currentClass, currentNamespace, text)
     IN /\ foundDeclarations' = foundDeclarations \o s.found
        /\ currentClass' = s.class /\ currentNamespace' = s.space
        /\ IF s.refused THEN Fail /\ UNCHANGED <<sections, given, includes>>
           ELSE /\ s.includes \in Seq(Includes) \* a vector<string>
                /\ sections' = Append(sections, n)
                /\ given' = [given EXCEPT ![n] = text]
                /\ includes' = [includes EXCEPT ![n] = s.includes]
                /\ calls' = [calls EXCEPT ![Top].loaded = TRUE]
                /\ UNCHANGED <<result, failed>>
  /\ UNCHANGED <<host, progress, includedScripts, metadata, asked>>

\* The name of the file the include number i of section n asks for.
Target(n, i) == AbsolutePath[IncludePath(n, includes[n][i])]

Following == calls # <<>> /\ calls[Top].loaded /\ calls[Top].next <= Len(includes[calls[Top].section])
Advanced == [calls EXCEPT ![Top].next = @ + 1]

\* A section that was included before ends the includes.
NextInclude_Stops ==
  /\ Following
  /\ LET n == Target(calls[Top].section, calls[Top].next)
     IN IF n \in includedScripts THEN includedScripts' = includedScripts /\ calls' = SubSeq(calls, 1, Top - 1)
        ELSE IncludeIfNotAlreadyIncluded(n, FALSE, Advanced)
  /\ UNCHANGED <<host, progress, sections, given, includes, parsed, metadata, asked, result, failed>>

NextInclude ==
  /\ Following
  /\ IncludeIfNotAlreadyIncluded(Target(calls[Top].section, calls[Top].next), FALSE, Advanced)
  /\ UNCHANGED <<host, progress, sections, given, includes, parsed, metadata, asked, result, failed>>

Return ==
  /\ calls # <<>> /\ calls[Top].loaded /\ ~Following
  /\ calls' = SubSeq(calls, 1, Top - 1)
  /\ UNCHANGED <<host, progress, added, parsed, metadata, asked, result, failed>>

-----------------------------------------------------------------------------
(* Build.  The compiler of the scripts throws away what it has built and reads *)
(* the sections that were added since.  What it finds in them, and by a name. *)
IsVariable(d) == d.type \in {"variable", "function or variable"}
Declarations(names) == UNION {Range(Declared(given[n])) : n \in names}
Compiles == Declarations({sections[i] : i \in {i \in DOMAIN sections : i > built}})
Finds(all, kind, f, name) ==
  \E d \in all :
    /\ d.parentClass = f.parentClass /\ d.nameSpace = f.nameSpace /\ d.name = name
    /\ (kind = "variable" /\ IsVariable(d)) \/ kind = d.type
KindOf(all, f) ==
  IF f.decl.type # "function or variable" THEN f.decl.type
  ELSE IF Finds(all, "variable", f, f.decl.name) THEN "variable" ELSE "function"
NameOf(all, f) == IF KindOf(all, f) = "function" THEN f.decl.declaration ELSE f.decl.name
Found(all, f) == Finds(all, KindOf(all, f), f, NameOf(all, f))
\* The class has to be found, and in it everything but the accessors of a property.
FindsClass(all, f) ==
  \E d \in all : d.type = "type" /\ d.name = f.parentClass /\ d.nameSpace = f.nameSpace
Asserted(all, f) ==
  /\ f.parentClass # "" => FindsClass(all, f)
  /\ KindOf(all, f) # "virtual property" => Found(all, f)

\* What a map holds stays.
Store(all, maps, f) ==
  LET subject == [module |-> module, kind |-> KindOf(all, f), name |-> NameOf(all, f),
                  parentClass |-> f.parentClass, nameSpace |-> f.nameSpace]
  IN IF ~Found(all, f) \/ (\E e \in maps : e.subject = subject) THEN maps
     ELSE maps \cup {[subject |-> subject, metadata |-> f.metadata]}

\* module->Build refuses the scripts or takes them.
BuildModule ==
  /\ Idle /\ builds < MaxBuilds
  /\ built' = Len(sections) /\ builds' = builds + 1
  /\ LET all == Compiles
         StoreIn(maps, f) == Store(all, maps, f)
     IN \/ phase' = "built" /\ failed' = TRUE /\ metadata' = metadata
        \/ /\ \A f \in Range(foundDeclarations) : Asserted(all, f)
           /\ phase' = "built" /\ metadata' = FoldLeft(StoreIn, metadata, foundDeclarations)
           /\ failed' = failed
        \/ /\ \E f \in Range(foundDeclarations) : ~Asserted(all, f)
           /\ phase' = "aborted" /\ UNCHANGED <<metadata, failed>>
  /\ UNCHANGED <<host, added, calls, parsed, asked, result>>

-----------------------------------------------------------------------------
Init ==
  /\ says \in Says /\ opens \in SUBSET (Names \ FromMemory)
  /\ definedWords = {} /\ module = 0 /\ phase = "built" /\ built = 0 /\ builds = 0
  /\ includedScripts = {} /\ sections = <<>> /\ given = Nothing /\ includes = Nothing
  /\ calls = <<>>
  /\ foundDeclarations = <<>> /\ currentClass = "" /\ currentNamespace = <<>> /\ metadata = {}
  /\ asked = NoName /\ result = "none" /\ failed = FALSE

Proceed == LoadFails \/ ProcessScriptSection \/ NextInclude \/ Return
Next ==
  \/ StartNewModule
  \/ \E w \in Words : DefineWord(w)
  \/ \E n \in Names \ FromMemory : FileAppears(n)
  \/ \E p \in Paths : AddSectionFromFile(p)
  \/ \E n \in FromMemory : AddSectionFromMemory(n)
  \/ Proceed
  \/ BuildModule

Spec == Init /\ [][Next]_vars
\* A call of the host runs on.
FairSpec == Spec /\ WF_vars(Proceed)

-----------------------------------------------------------------------------
TypeOK ==
  /\ says \in Says /\ opens \subseteq Names /\ definedWords \subseteq Words
  /\ module \in 0 .. MaxModules /\ phase \in {"adding", "built", "aborted"}
  /\ built \in Nat /\ builds \in 0 .. MaxBuilds
  /\ includedScripts \subseteq Names
  /\ sections \in Seq(Names)
  /\ includes \in [Names -> Seq(Includes)]
  /\ calls \in Seq([section : Names, memory : BOOLEAN, loaded : BOOLEAN, next : Nat \ {0}])
  /\ asked \in Names \cup {NoName} /\ result \in {"none", "already", "included", "error"}
  /\ failed \in BOOLEAN

\* A section is given to the module once, however it is named and however often
\* it is included, by a cycle of includes as well (includedScripts).
AddedOnce == \A i, j \in DOMAIN sections : sections[i] = sections[j] => i = j

\* When the calls of the host have succeeded, everything that an added section
\* includes has been added.
IncludesFollowed ==
  calls = <<>> /\ ~failed =>
    \A n \in Added : \A i \in DOMAIN includes[n] : Target(n, i) \in Added

\* A module has the sections it needs, each of them once.
SectionsRight == TypeOK /\ AddedOnce /\ IncludesFollowed

\* A module that is built once has the metadata its sections declare, each for the
\* declaration it stands before.
Expected ==
  {[subject |-> [module |-> module, kind |-> IF IsVariable(d) THEN "variable" ELSE d.type, name |-> d.name,
                 parentClass |-> d.parentClass, nameSpace |-> d.nameSpace],
    metadata |-> d.metadata] : d \in {d \in Declarations(Added) : IsDescribed(d)}}
MetadataOfModule ==
  phase = "built" /\ builds = 1 /\ ~failed => {m \in metadata : m.subject.module = module} = Expected

\* No assertion of the first Build fires for sections that were all added.
NeverAborted == phase = "aborted" /\ builds = 1 => failed

\* Build attaches all metadata, to the declarations it belongs to, and survives it.
BuildRight == MetadataOfModule /\ NeverAborted

\* Not kept after a file could not be opened (a known deviation).
\* "Returns 0 if the section was not included because it had already been included
\* before": the module then has the section.
AlreadyMeansIncluded == calls = <<>> /\ result = "already" => asked \in Added

\* Every call of the host returns, in files that include each other as well.
CallsReturn == calls # <<>> ~> calls = <<>>
=============================================================================
