------------------------- MODULE ScriptBuilderProofs -------------------------
(***************************************************************************)
(* For any files, any texts and any order of calls: a section is added once, *)
(* and what succeeds has added everything that is included.  The texts and   *)
(* what a scan makes of them stay opaque.  And for any path, the name that  *)
(* a file gets is that of the place it leads to.                            *)
(***************************************************************************)
EXTENDS ScriptBuilder, ScriptPaths, FiniteSetTheorems, SequenceTheorems, TLAPS

FrameSet == [section : Names, memory : BOOLEAN, loaded : BOOLEAN, next : Nat \ {0}]

(* The calls that are open: only the innermost section is not loaded yet, and  *)
(* a section is loaded when it is added.                                     *)
CallsNest ==
  \A i \in 1 .. Len(calls) :
    /\ calls[i].section \in includedScripts
    /\ i < Len(calls) => calls[i].loaded
    /\ calls[i].loaded <=> calls[i].section \in Added
    /\ ~calls[i].loaded => calls[i].next = 1

Remembered == Added \subseteq includedScripts

\* What is remembered and not added is in a call that is open.
Open(n) == \E i \in 1 .. Len(calls) : calls[i].section = n
Accounted == ~failed => \A n \in includedScripts : n \in Added \/ Open(n)

\* An include that is not followed yet is still ahead in a call that is open.
Ahead(n, k) == \E i \in 1 .. Len(calls) : calls[i].section = n /\ calls[i].next <= k
Followed ==
  ~failed => \A n \in Added : \A k \in 1 .. Len(includes[n]) :
               Target(n, k) \in includedScripts \/ Ahead(n, k)

Inv == TypeOK /\ CallsNest /\ Remembered /\ AddedOnce /\ Accounted /\ Followed

-----------------------------------------------------------------------------
\* The file of an include is a name.
LEMMA TargetNamed ==
  ASSUME TypeOK, NEW n \in Names, NEW k \in 1 .. Len(includes[n]) PROVE Target(n, k) \in Names
<1>1. includes[n] \in Seq(Includes) BY DEF TypeOK
<1>2. includes[n][k] \in Includes BY <1>1
<1>3. IncludePath(n, includes[n][k]) \in Paths BY <1>2, PathsAssumption DEF PathsAssumption
<1>4. QED BY <1>3, PathsAssumption DEF Target, PathsAssumption

\* The innermost call.
LEMMA TopFrame ==
  ASSUME TypeOK, calls # <<>>
  PROVE /\ Top \in Nat /\ Top \in 1 .. Len(calls)
        /\ calls[Top] \in FrameSet /\ calls[Top].section \in Names /\ calls[Top].next \in Nat \ {0}
<1>1. calls \in Seq(FrameSet) BY DEF TypeOK, FrameSet
<1>2. Len(calls) \in 1 .. Len(calls) BY <1>1
<1>3. calls[Len(calls)] \in FrameSet BY <1>1, <1>2
<1>4. \A f \in FrameSet : f.section \in Names /\ f.next \in Nat \ {0} BY DEF FrameSet
<1>5. Len(calls) \in Nat BY <1>1
<1>6. QED BY <1>2, <1>3, <1>4, <1>5 DEF Top

-----------------------------------------------------------------------------
LEMMA TypeInit == Init => TypeOK
<1> SUFFICES ASSUME Init PROVE TypeOK OBVIOUS
<1>1. says \in Says /\ phase \in {"adding", "built", "aborted"} /\ built \in Nat BY DEF Init
<1>9. builds \in 0 .. MaxBuilds
  <2>1. builds = 0 BY DEF Init
  <2>2. QED BY <2>1, NamesAssumption DEF NamesAssumption
<1>2. opens \subseteq Names /\ definedWords \subseteq Words /\ includedScripts \subseteq Names BY DEF Init
<1>3. module \in 0 .. MaxModules
  <2>1. module = 0 BY DEF Init
  <2>2. QED BY <2>1, NamesAssumption DEF NamesAssumption
<1>5. sections \in Seq(Names)
  <2>1. sections = <<>> BY DEF Init
  <2>2. QED BY <2>1
<1>6. includes \in [Names -> Seq(Includes)]
  <2>1. includes = [n \in Names |-> <<>>] BY DEF Init, Nothing
  <2>2. QED BY <2>1
<1>7. calls \in Seq([section : Names, memory : BOOLEAN, loaded : BOOLEAN, next : Nat \ {0}])
  <2>1. calls = <<>> BY DEF Init
  <2>2. QED BY <2>1
<1>4. /\ asked \in Names \cup {NoName} /\ result \in {"none", "already", "included", "error"}
      /\ failed \in BOOLEAN
  BY DEF Init
<1>8. QED BY <1>1, <1>2, <1>3, <1>4, <1>5, <1>6, <1>7, <1>9 DEF TypeOK

LEMMA FrameTyped ==
  ASSUME NEW n \in Names, NEW memory \in BOOLEAN PROVE Frame(n, memory) \in FrameSet
BY DEF Frame, FrameSet

LEMMA IncludeTyped ==
  ASSUME TypeOK, NEW n \in Names, NEW memory \in BOOLEAN, NEW known \in Seq(FrameSet),
         IncludeIfNotAlreadyIncluded(n, memory, known)
  PROVE includedScripts' \subseteq Names /\ calls' \in Seq(FrameSet)
<1>1. includedScripts \subseteq Names BY DEF TypeOK
<1>2. Append(known, Frame(n, memory)) \in Seq(FrameSet) BY FrameTyped
<1>3. QED BY <1>1, <1>2 DEF IncludeIfNotAlreadyIncluded

LEMMA AdvancedTyped ==
  ASSUME TypeOK, calls # <<>> PROVE Advanced \in Seq(FrameSet) /\ Len(Advanced) = Len(calls)
<1>1. calls \in Seq(FrameSet) BY DEF TypeOK, FrameSet
<1>2. [calls[Top] EXCEPT !.next = @ + 1] \in FrameSet BY TopFrame DEF FrameSet
<1>3. QED BY <1>1, <1>2, TopFrame DEF Advanced

-----------------------------------------------------------------------------
\* TypeOK in the parts that actions change together.
HostTyped == says \in Says /\ opens \subseteq Names /\ definedWords \subseteq Words /\ module \in 0 .. MaxModules
PhaseTyped == phase \in {"adding", "built", "aborted"} /\ built \in Nat /\ builds \in 0 .. MaxBuilds
AddedTyped ==
  includedScripts \subseteq Names /\ sections \in Seq(Names) /\ includes \in [Names -> Seq(Includes)]
CallsTyped == calls \in Seq(FrameSet)
ResultTyped ==
  asked \in Names \cup {NoName} /\ result \in {"none", "already", "included", "error"} /\ failed \in BOOLEAN

LEMMA TypeParts == TypeOK <=> HostTyped /\ PhaseTyped /\ AddedTyped /\ CallsTyped /\ ResultTyped
BY DEF TypeOK, HostTyped, PhaseTyped, AddedTyped, CallsTyped, ResultTyped, FrameSet

LEMMA HostSame == HostTyped /\ UNCHANGED host => HostTyped' BY DEF HostTyped, host
LEMMA PhaseSame == PhaseTyped /\ UNCHANGED progress => PhaseTyped' BY DEF PhaseTyped, progress
LEMMA AddedSame == AddedTyped /\ UNCHANGED <<includedScripts, sections, includes>> => AddedTyped' BY DEF AddedTyped
LEMMA CallsSame == CallsTyped /\ UNCHANGED calls => CallsTyped' BY DEF CallsTyped
LEMMA ResultSame == ResultTyped /\ UNCHANGED <<asked, result, failed>> => ResultTyped' BY DEF ResultTyped

\* An error that every call returns.
LEMMA FailTyped == ResultTyped /\ Fail /\ UNCHANGED asked => CallsTyped' /\ ResultTyped'
<1> SUFFICES ASSUME ResultTyped, Fail, UNCHANGED asked PROVE CallsTyped' /\ ResultTyped' OBVIOUS
<1>1. calls' = <<>> BY DEF Fail
<1>2. <<>> \in Seq(FrameSet) OBVIOUS
<1>3. ResultTyped' BY DEF ResultTyped, Fail
<1>4. QED BY <1>1, <1>2, <1>3 DEF CallsTyped

LEMMA TypeNext == TypeOK /\ [Next]_vars => TypeOK'
<1> SUFFICES ASSUME TypeOK, [Next]_vars PROVE TypeOK' OBVIOUS
<1>0. HostTyped /\ PhaseTyped /\ AddedTyped /\ CallsTyped /\ ResultTyped BY TypeParts
<1> SUFFICES HostTyped' /\ PhaseTyped' /\ AddedTyped' /\ CallsTyped' /\ ResultTyped'
  <2>1. TypeOK' <=> HostTyped' /\ PhaseTyped' /\ AddedTyped' /\ CallsTyped' /\ ResultTyped' BY TypeParts, PTL
  <2>2. QED BY <2>1
<1>1. CASE StartNewModule
  <2>1. HostTyped'
    <3>1. module' = module + 1 /\ module < MaxModules /\ UNCHANGED <<says, opens, definedWords>>
      BY <1>1 DEF StartNewModule
    <3>2. QED BY <1>0, <3>1, NamesAssumption DEF HostTyped, NamesAssumption
  <2>2. PhaseTyped'
    <3>1. phase' = "adding" /\ built' = 0 /\ builds' = 0 BY <1>1 DEF StartNewModule
    <3>2. QED BY <3>1, NamesAssumption DEF PhaseTyped, NamesAssumption
  <2>3. AddedTyped'
    <3>1. includedScripts' = {} /\ sections' = <<>> /\ includes' = [n \in Names |-> <<>>]
      BY <1>1 DEF StartNewModule, Nothing
    <3>2. <<>> \in Seq(Names) /\ [n \in Names |-> <<>>] \in [Names -> Seq(Includes)] OBVIOUS
    <3>3. QED BY <3>1, <3>2 DEF AddedTyped
  <2>4. CallsTyped' BY <1>0, <1>1, CallsSame DEF StartNewModule
  <2>5. ResultTyped' BY <1>1 DEF StartNewModule, ResultTyped
  <2>6. QED BY <2>1, <2>2, <2>3, <2>4, <2>5
<1>2. ASSUME NEW w \in Words, DefineWord(w) PROVE HostTyped' /\ PhaseTyped' /\ AddedTyped' /\ CallsTyped' /\ ResultTyped'
  <2>1. HostTyped' BY <1>0, <1>2 DEF DefineWord, HostTyped
  <2>2. UNCHANGED <<progress, includedScripts, sections, includes, calls, asked, result, failed>>
    BY <1>2 DEF DefineWord, added
  <2>3. QED BY <1>0, <2>1, <2>2, PhaseSame, AddedSame, CallsSame, ResultSame
<1>3. ASSUME NEW n \in Names \ FromMemory, FileAppears(n)
      PROVE HostTyped' /\ PhaseTyped' /\ AddedTyped' /\ CallsTyped' /\ ResultTyped'
  <2>1. HostTyped' BY <1>0, <1>3 DEF FileAppears, HostTyped
  <2>2. UNCHANGED <<progress, includedScripts, sections, includes, calls, asked, result, failed>>
    BY <1>3 DEF FileAppears, added
  <2>3. QED BY <1>0, <2>1, <2>2, PhaseSame, AddedSame, CallsSame, ResultSame
<1>4. ASSUME NEW n \in Names, NEW memory \in BOOLEAN, AddSection(n, memory)
      PROVE HostTyped' /\ PhaseTyped' /\ AddedTyped' /\ CallsTyped' /\ ResultTyped'
  <2>1. IncludeIfNotAlreadyIncluded(n, memory, calls) /\ UNCHANGED <<host, sections, includes>>
    BY <1>4 DEF AddSection
  <2>2. includedScripts' \subseteq Names /\ calls' \in Seq(FrameSet)
    BY <1>0, <2>1, IncludeTyped DEF CallsTyped
  <2>3. ResultTyped' BY <1>0, <1>4 DEF AddSection, ResultTyped
  <2>4. AddedTyped' BY <1>0, <2>1, <2>2 DEF AddedTyped
  <2>5. CallsTyped' BY <2>2 DEF CallsTyped
  <2>7. PhaseTyped' BY <1>0, <1>4 DEF AddSection, PhaseTyped
  <2>6. QED BY <1>0, <2>1, <2>3, <2>4, <2>5, <2>7, HostSame
<1>5. CASE LoadFails
  <2>1. Fail /\ UNCHANGED <<host, progress, includedScripts, sections, includes, asked>>
    BY <1>5 DEF LoadFails, added
  <2>2. QED BY <1>0, <2>1, FailTyped, HostSame, PhaseSame, AddedSame
<1>6. CASE ProcessScriptSection
  <2> DEFINE n == calls[Top].section
             text == Compiled(says[n], definedWords)
             s == Scan(currentClass, currentNamespace, text)
  <2>1. calls # <<>> /\ n \in Names BY <1>6, TopFrame DEF ProcessScriptSection
  <2>2. UNCHANGED <<host, progress, includedScripts, asked>> BY <1>6 DEF ProcessScriptSection
  <2>3. CASE s.refused
    <3>1. Fail /\ UNCHANGED <<sections, includes>> BY <1>6, <2>3 DEF ProcessScriptSection
    <3>2. QED BY <1>0, <2>2, <3>1, FailTyped, HostSame, PhaseSame, AddedSame
  <2>4. CASE ~s.refused
    <3>1. /\ s.includes \in Seq(Includes)
          /\ sections' = Append(sections, n) /\ includes' = [includes EXCEPT ![n] = s.includes]
          /\ calls' = [calls EXCEPT ![Top].loaded = TRUE]
          /\ UNCHANGED <<result, failed>>
      BY <1>6, <2>4 DEF ProcessScriptSection
    <3>2. PICK inc : inc = s.includes OBVIOUS
    <3> HIDE DEF s, text, n
    <3>3. [calls[Top] EXCEPT !.loaded = TRUE] \in FrameSet
      <4>1. \A f \in FrameSet : [f EXCEPT !.loaded = TRUE] \in FrameSet BY DEF FrameSet
      <4>2. QED BY <2>1, <4>1, TopFrame
    <3>4. calls' = [calls EXCEPT ![Top] = [calls[Top] EXCEPT !.loaded = TRUE]] BY <3>1
    <3>5. CallsTyped' BY <1>0, <2>1, <3>3, <3>4, TopFrame DEF CallsTyped
    <3>6. sections' \in Seq(Names) BY <1>0, <2>1, <3>1 DEF AddedTyped
    <3>7. includes' \in [Names -> Seq(Includes)] BY <1>0, <2>1, <3>1, <3>2 DEF AddedTyped
    <3>8. AddedTyped' BY <1>0, <2>2, <3>6, <3>7 DEF AddedTyped
    <3>9. QED BY <1>0, <2>2, <3>1, <3>5, <3>8, HostSame, PhaseSame, ResultSame
  <2>5. QED BY <2>3, <2>4
<1>7. CASE NextInclude
  <2>1. calls # <<>> /\ calls[Top].section \in Names BY <1>7, TopFrame DEF NextInclude, Following
  <2>2. calls[Top].next \in Nat \ {0} /\ calls[Top].next <= Len(includes[calls[Top].section])
    BY <1>7, <2>1, TopFrame DEF NextInclude, Following
  <2>3. Len(includes[calls[Top].section]) \in Nat BY <1>0, <2>1 DEF AddedTyped
  <2>4. calls[Top].next \in 1 .. Len(includes[calls[Top].section]) BY <2>2, <2>3
  <2>5. PICK t \in Names : t = Target(calls[Top].section, calls[Top].next) BY <2>1, <2>4, TargetNamed
  <2>6. IncludeIfNotAlreadyIncluded(t, FALSE, Advanced) /\ UNCHANGED <<host, progress, sections, includes, asked, result, failed>>
    BY <1>7, <2>5 DEF NextInclude
  <2>7. Advanced \in Seq(FrameSet) BY <2>1, AdvancedTyped
  <2>8. includedScripts' \subseteq Names /\ calls' \in Seq(FrameSet) BY <2>6, <2>7, IncludeTyped
  <2>9. AddedTyped' BY <1>0, <2>6, <2>8 DEF AddedTyped
  <2>10. CallsTyped' BY <2>8 DEF CallsTyped
  <2>11. QED BY <1>0, <2>6, <2>9, <2>10, HostSame, PhaseSame, ResultSame
<1>8. CASE Return
  <2>1. calls # <<>> /\ calls' = SubSeq(calls, 1, Top - 1) BY <1>8 DEF Return
  <2>2. Top - 1 \in 0 .. Len(calls) BY <2>1, TopFrame DEF Top
  <2>3. CallsTyped' BY <1>0, <2>1, <2>2, TopFrame DEF CallsTyped
  <2>4. UNCHANGED <<host, progress, includedScripts, sections, includes, asked, result, failed>>
    BY <1>8 DEF Return, added
  <2>5. QED BY <1>0, <2>3, <2>4, HostSame, PhaseSame, AddedSame, ResultSame
<1>9. CASE BuildModule
  <2>1. UNCHANGED <<host, includedScripts, sections, includes, calls, asked, result>> BY <1>9 DEF BuildModule, added
  <2>2. phase' \in {"built", "aborted"} /\ (failed' = TRUE \/ failed' = failed) BY <1>9 DEF BuildModule
  <2>5. built' = Len(sections) /\ builds' = builds + 1 /\ builds < MaxBuilds BY <1>9 DEF BuildModule
  <2>6. Len(sections) \in Nat BY <1>0 DEF AddedTyped
  <2>7. builds' \in 0 .. MaxBuilds
    <3>1. MaxBuilds \in Nat BY NamesAssumption DEF NamesAssumption
    <3>2. builds \in 0 .. MaxBuilds BY <1>0 DEF PhaseTyped
    <3>3. QED BY <2>5, <3>1, <3>2
  <2>8. PhaseTyped' BY <2>2, <2>5, <2>6, <2>7 DEF PhaseTyped
  <2>3. PhaseTyped' /\ ResultTyped' BY <1>0, <2>1, <2>2, <2>8 DEF ResultTyped
  <2>4. QED BY <1>0, <2>1, <2>3, HostSame, AddedSame, CallsSame
<1>10. CASE UNCHANGED vars
  <2>1. UNCHANGED <<host, progress, includedScripts, sections, includes, calls, asked, result, failed>>
    BY <1>10 DEF vars, added
  <2>2. QED BY <1>0, <2>1, HostSame, PhaseSame, AddedSame, CallsSame, ResultSame
<1>11. CASE Next
  <2>1. ASSUME NEW p \in Paths, AddSectionFromFile(p)
        PROVE HostTyped' /\ PhaseTyped' /\ AddedTyped' /\ CallsTyped' /\ ResultTyped'
    <3>1. AbsolutePath[p] \in Names BY PathsAssumption DEF PathsAssumption
    <3>2. QED BY <1>4, <2>1, <3>1 DEF AddSectionFromFile
  <2>2. ASSUME NEW n \in FromMemory, AddSectionFromMemory(n)
        PROVE HostTyped' /\ PhaseTyped' /\ AddedTyped' /\ CallsTyped' /\ ResultTyped'
    <3>1. n \in Names BY NamesAssumption DEF NamesAssumption
    <3>2. QED BY <1>4, <2>2, <3>1 DEF AddSectionFromMemory
  <2>3. QED BY <1>1, <1>2, <1>3, <1>5, <1>6, <1>7, <1>8, <1>9, <1>11, <2>1, <2>2 DEF Next, Proceed
<1>12. QED BY <1>10, <1>11
-----------------------------------------------------------------------------
Parts == CallsNest /\ Remembered /\ AddedOnce /\ Accounted /\ Followed

\* A module without sections.
LEMMA PartsEmpty == calls = <<>> /\ sections = <<>> /\ includedScripts = {} => Parts
<1> SUFFICES ASSUME calls = <<>>, sections = <<>>, includedScripts = {} PROVE Parts OBVIOUS
<1>2. Len(calls) = 0 /\ DOMAIN sections = {} OBVIOUS
<1>3. Added = {} BY <1>2 DEF Added
<1>4. CallsNest BY <1>2 DEF CallsNest
<1>5. Remembered BY <1>3 DEF Remembered
<1>6. AddedOnce BY <1>2 DEF AddedOnce
<1>7. Accounted BY DEF Accounted
<1>8. Followed BY <1>3 DEF Followed
<1>9. QED BY <1>4, <1>5, <1>6, <1>7, <1>8 DEF Parts

LEMMA PartsInit == Init => Parts
<1> SUFFICES ASSUME Init PROVE Parts OBVIOUS
<1>1. calls = <<>> /\ sections = <<>> /\ includedScripts = {} BY DEF Init
<1>2. QED BY <1>1, PartsEmpty

\* A step that leaves the sections and the calls alone, and forgets no failure.
LEMMA PartsSame ==
  ASSUME Parts, UNCHANGED <<includedScripts, sections, includes, calls>>, failed => failed'
  PROVE Parts'
<1>1. Added' = Added BY DEF Added
<1>2. CallsNest' BY <1>1 DEF Parts, CallsNest
<1>3. Remembered' BY <1>1 DEF Parts, Remembered
<1>4. AddedOnce' BY DEF Parts, AddedOnce
<1>5. Accounted' BY <1>1 DEF Parts, Accounted, Open
<1>6. Followed' BY <1>1 DEF Parts, Followed, Target, Ahead
<1>7. QED BY <1>2, <1>3, <1>4, <1>5, <1>6 DEF Parts

\* A call that fails.
LEMMA PartsFail ==
  ASSUME Parts, Fail, UNCHANGED <<includedScripts, sections>> PROVE Parts'
<1>1. Added' = Added BY DEF Added
<1>2. calls' = <<>> /\ failed' = TRUE BY DEF Fail
<1>3. Len(calls') = 0 BY <1>2
<1>4. CallsNest' BY <1>3 DEF CallsNest
<1>5. Remembered' BY <1>1 DEF Parts, Remembered
<1>6. AddedOnce' BY DEF Parts, AddedOnce
<1>7. Accounted' BY <1>2 DEF Accounted
<1>8. Followed' BY <1>2 DEF Followed
<1>9. QED BY <1>4, <1>5, <1>6, <1>7, <1>8 DEF Parts

LEMMA AddedAppend ==
  ASSUME sections \in Seq(Names), NEW n \in Names, sections' = Append(sections, n)
  PROVE /\ Added' = Added \cup {n}
        /\ AddedOnce /\ n \notin Added => AddedOnce'
<1>1. DOMAIN sections = 1 .. Len(sections) /\ Len(sections) \in Nat OBVIOUS
<1>2. DOMAIN sections' = 1 .. Len(sections) + 1 OBVIOUS
<1>3. \A i \in 1 .. Len(sections) : sections'[i] = sections[i] OBVIOUS
<1>4. sections'[Len(sections) + 1] = n OBVIOUS
<1>5. Added' = Added \cup {n}
  <2>1. ASSUME NEW x \in Added' PROVE x \in Added \cup {n}
    <3>1. PICK i \in 1 .. Len(sections) + 1 : x = sections'[i] BY <1>2, <2>1 DEF Added
    <3>2. CASE i \in 1 .. Len(sections) BY <1>1, <1>3, <3>1, <3>2 DEF Added
    <3>3. CASE i = Len(sections) + 1 BY <1>4, <3>1, <3>3
    <3>4. QED BY <1>1, <3>2, <3>3
  <2>2. ASSUME NEW x \in Added PROVE x \in Added'
    <3>1. PICK i \in 1 .. Len(sections) : x = sections[i] BY <1>1, <2>2 DEF Added
    <3>2. i \in DOMAIN sections' /\ x = sections'[i] BY <1>1, <1>2, <1>3, <3>1
    <3>3. QED BY <3>2 DEF Added
  <2>3. n \in Added'
    <3>1. Len(sections) + 1 \in DOMAIN sections' BY <1>1, <1>2
    <3>2. QED BY <1>4, <3>1 DEF Added
  <2>4. QED BY <2>1, <2>2, <2>3
<1>6. ASSUME AddedOnce, n \notin Added PROVE AddedOnce'
  <2>1. \A i \in 1 .. Len(sections) : sections[i] # n BY <1>1, <1>6 DEF Added
  <2>2. SUFFICES ASSUME NEW i \in 1 .. Len(sections) + 1, NEW j \in 1 .. Len(sections) + 1,
                        sections'[i] = sections'[j]
                 PROVE i = j
    BY <1>2 DEF AddedOnce
  <2>3. CASE i \in 1 .. Len(sections) /\ j \in 1 .. Len(sections)
    BY <1>1, <1>3, <1>6, <2>2, <2>3 DEF AddedOnce
  <2>4. CASE i = Len(sections) + 1 /\ j \in 1 .. Len(sections) BY <1>3, <1>4, <2>1, <2>2, <2>4
  <2>5. CASE j = Len(sections) + 1 /\ i \in 1 .. Len(sections) BY <1>3, <1>4, <2>1, <2>2, <2>5
  <2>6. QED BY <1>1, <2>3, <2>4, <2>5
<1>7. QED BY <1>5, <1>6

-----------------------------------------------------------------------------
(* A section that is asked for when everything that is open is loaded: it is  *)
(* put on top of the calls known, which differ from calls by what they have   *)
(* followed.                                                                *)
LEMMA PartsPush ==
  ASSUME TypeOK, Parts, NEW n \in Names, NEW memory \in BOOLEAN,
         NEW known \in Seq(FrameSet), Len(known) = Len(calls),
         \A i \in 1 .. Len(calls) :
           calls[i].loaded /\ known[i].loaded /\ known[i].section = calls[i].section,
         IncludeIfNotAlreadyIncluded(n, memory, known), UNCHANGED <<sections, includes, failed>>,
         ~failed => \A m \in Added : \A k \in 1 .. Len(includes[m]) :
           \/ Target(m, k) \in includedScripts'
           \/ \E i \in 1 .. Len(known) : known[i].section = m /\ known[i].next <= k
  PROVE Parts'
<1>1. Added' = Added BY DEF Added
<1>2. includedScripts \subseteq includedScripts' /\ includedScripts' \subseteq includedScripts \cup {n}
  BY DEF IncludeIfNotAlreadyIncluded
<1>3. Remembered' BY <1>1, <1>2 DEF Parts, Remembered
<1>4. AddedOnce' BY DEF Parts, AddedOnce
<1>5. Len(known) \in Nat OBVIOUS
<1>6. /\ Len(calls') \in Len(known) .. Len(known) + 1
      /\ \A i \in 1 .. Len(known) : calls'[i] = known[i]
      /\ n \notin includedScripts => Len(calls') = Len(known) + 1 /\ calls'[Len(known) + 1] = Frame(n, memory)
      /\ Len(calls') = Len(known) + 1 => n \notin includedScripts /\ n \in includedScripts'
  <2>1. CASE n \in includedScripts BY <1>5, <2>1 DEF IncludeIfNotAlreadyIncluded
  <2>2. CASE n \notin includedScripts
    <3>1. calls' = Append(known, Frame(n, memory)) /\ n \in includedScripts'
      BY <2>2 DEF IncludeIfNotAlreadyIncluded
    <3>2. Frame(n, memory) \in FrameSet BY FrameTyped
    <3>3. QED BY <1>5, <2>2, <3>1, <3>2
  <2>3. QED BY <2>1, <2>2
<1>7. Frame(n, memory).section = n /\ Frame(n, memory).loaded = FALSE /\ Frame(n, memory).next = 1 BY DEF Frame
<1>8. CallsNest'
  <2> SUFFICES ASSUME NEW i \in 1 .. Len(calls')
               PROVE /\ calls'[i].section \in includedScripts'
                     /\ i < Len(calls') => calls'[i].loaded
                     /\ calls'[i].loaded <=> calls'[i].section \in Added'
                     /\ ~calls'[i].loaded => calls'[i].next = 1
    BY DEF CallsNest
  <2>1. CASE i \in 1 .. Len(known)
    <3>1. /\ calls[i].section \in includedScripts /\ calls[i].loaded
          /\ calls[i].loaded <=> calls[i].section \in Added
      BY <2>1 DEF Parts, CallsNest
    <3>2. calls'[i].section = calls[i].section /\ calls'[i].loaded BY <1>6, <2>1
    <3>3. QED BY <1>1, <1>2, <3>1, <3>2
  <2>2. CASE i = Len(known) + 1
    <3>1. Len(calls') = Len(known) + 1 BY <1>5, <1>6, <2>2
    <3>2. calls'[i] = Frame(n, memory) /\ n \notin includedScripts /\ n \in includedScripts' BY <1>6, <2>2, <3>1
    <3>3. n \notin Added BY <3>2 DEF Parts, Remembered
    <3>4. QED BY <1>1, <1>5, <1>7, <2>2, <3>1, <3>2, <3>3
  <2>3. QED BY <1>5, <1>6, <2>1, <2>2
<1>9. Accounted'
  <2> SUFFICES ASSUME ~failed, NEW m \in includedScripts' PROVE m \in Added \/ Open(m)'
    BY <1>1 DEF Accounted
  <2>1. CASE m \in includedScripts
    <3>1. CASE m \in Added BY <3>1
    <3>2. CASE Open(m)
      <4>1. PICK i \in 1 .. Len(calls) : calls[i].section = m BY <3>2 DEF Open
      <4>2. i \in 1 .. Len(calls') /\ calls'[i].section = m BY <1>5, <1>6, <4>1
      <4>3. QED BY <4>2 DEF Open
    <3>3. QED BY <2>1, <3>1, <3>2 DEF Parts, Accounted
  <2>2. CASE m \notin includedScripts
    <3>1. m = n /\ n \notin includedScripts BY <1>2, <2>2
    <3>2. Len(known) + 1 \in 1 .. Len(calls') BY <1>5, <1>6, <3>1
    <3>3. calls'[Len(known) + 1].section = m BY <1>6, <1>7, <3>1
    <3>4. QED BY <3>2, <3>3 DEF Open
  <2>3. QED BY <2>1, <2>2
<1>10. Followed'
  <2>1. \A m, k : Target(m, k)' = Target(m, k) BY DEF Target
  <2> SUFFICES ASSUME ~failed, NEW m \in Added, NEW k \in 1 .. Len(includes[m])
               PROVE Target(m, k) \in includedScripts' \/ Ahead(m, k)'
    BY <1>1, <2>1 DEF Followed
  <2>2. CASE Target(m, k) \in includedScripts' BY <2>2
  <2>3. ASSUME NEW i \in 1 .. Len(known), known[i].section = m, known[i].next <= k PROVE Ahead(m, k)'
    <3>1. i \in 1 .. Len(calls') /\ calls'[i] = known[i] BY <1>5, <1>6
    <3>2. QED BY <2>3, <3>1 DEF Ahead
  <2>4. QED BY <2>2, <2>3
<1>11. QED BY <1>3, <1>4, <1>8, <1>9, <1>10 DEF Parts

\* The next include of the innermost section.
LEMMA PartsInclude == TypeOK /\ Parts /\ NextInclude => Parts'
<1> SUFFICES ASSUME TypeOK, Parts, NextInclude PROVE Parts' OBVIOUS
<1>1. calls # <<>> /\ calls[Top].loaded /\ calls[Top].next <= Len(includes[calls[Top].section])
  BY DEF NextInclude, Following
<1>2. calls \in Seq(FrameSet) /\ includes \in [Names -> Seq(Includes)] BY DEF TypeOK, FrameSet
<1>3. /\ Top \in Nat /\ Top \in 1 .. Len(calls) /\ Top = Len(calls)
      /\ calls[Top] \in FrameSet /\ calls[Top].section \in Names /\ calls[Top].next \in Nat \ {0}
  BY <1>1, TopFrame DEF Top
<1>4. calls[Top].next \in 1 .. Len(includes[calls[Top].section]) BY <1>1, <1>2, <1>3
<1>5. PICK t \in Names : t = Target(calls[Top].section, calls[Top].next) BY <1>3, <1>4, TargetNamed
<1>6. /\ IncludeIfNotAlreadyIncluded(t, FALSE, Advanced)
      /\ UNCHANGED <<sections, includes, failed>>
  BY <1>5 DEF NextInclude
<1>7. Advanced \in Seq(FrameSet) /\ Len(Advanced) = Len(calls) BY <1>1, AdvancedTyped
<1>8. /\ \A i \in 1 .. Len(calls) : i # Top => Advanced[i] = calls[i]
      /\ Advanced[Top] = [calls[Top] EXCEPT !.next = @ + 1]
  <2>1. PICK f : f = [calls[Top] EXCEPT !.next = @ + 1] OBVIOUS
  <2>2. Advanced = [calls EXCEPT ![Top] = f] BY <2>1 DEF Advanced
  <2>3. DOMAIN calls = 1 .. Len(calls) BY <1>2
  <2>4. Advanced[Top] = f /\ \A i \in 1 .. Len(calls) : i # Top => Advanced[i] = calls[i] BY <1>3, <2>2, <2>3
  <2>5. QED BY <2>1, <2>4
<1>9. /\ Advanced[Top].section = calls[Top].section /\ Advanced[Top].loaded = calls[Top].loaded
      /\ Advanced[Top].next = calls[Top].next + 1
  <2>1. \A f \in FrameSet : LET g == [f EXCEPT !.next = @ + 1]
                            IN g.section = f.section /\ g.loaded = f.loaded /\ g.next = f.next + 1
    BY DEF FrameSet
  <2>2. QED BY <1>3, <1>8, <2>1
<1>10. \A i \in 1 .. Len(calls) :
         calls[i].loaded /\ Advanced[i].loaded /\ Advanced[i].section = calls[i].section
  <2> SUFFICES ASSUME NEW i \in 1 .. Len(calls)
               PROVE calls[i].loaded /\ Advanced[i].loaded /\ Advanced[i].section = calls[i].section
    OBVIOUS
  <2>1. CASE i = Top BY <1>1, <1>9, <2>1
  <2>2. CASE i # Top
    <3>1. i < Len(calls) BY <1>3, <2>2
    <3>2. calls[i].loaded BY <3>1 DEF Parts, CallsNest
    <3>3. QED BY <1>8, <2>2, <3>2
  <2>3. QED BY <2>1, <2>2
<1>11. ASSUME ~failed, NEW m \in Added, NEW k \in 1 .. Len(includes[m])
       PROVE \/ Target(m, k) \in includedScripts'
             \/ \E i \in 1 .. Len(Advanced) : Advanced[i].section = m /\ Advanced[i].next <= k
  <2>1. Target(m, k) \in includedScripts \/ Ahead(m, k) BY <1>11 DEF Parts, Followed
  <2>2. includedScripts \subseteq includedScripts' /\ t \in includedScripts'
    BY <1>6 DEF IncludeIfNotAlreadyIncluded
  <2>3. ASSUME Ahead(m, k), Target(m, k) \notin includedScripts'
        PROVE \E i \in 1 .. Len(Advanced) : Advanced[i].section = m /\ Advanced[i].next <= k
    <3>1. PICK i \in 1 .. Len(calls) : calls[i].section = m /\ calls[i].next <= k BY <2>3 DEF Ahead
    <3>2. CASE i # Top BY <1>7, <1>8, <3>1, <3>2
    <3>3. CASE i = Top
      <4>1. calls[Top].next # k BY <1>5, <2>2, <2>3, <3>1, <3>3
      <4>2. m \in Names
        <5>1. Added \subseteq includedScripts BY DEF Parts, Remembered
        <5>2. includedScripts \subseteq Names BY DEF TypeOK
        <5>3. QED BY <1>11, <5>1, <5>2
      <4>3. k \in Nat BY <1>2, <1>11, <4>2
      <4>4. calls[Top].next + 1 <= k BY <1>3, <3>1, <3>3, <4>1, <4>3
      <4>5. QED BY <1>7, <1>9, <3>1, <3>3, <4>4
    <3>4. QED BY <3>2, <3>3
  <2>4. QED BY <2>1, <2>2, <2>3
<1>12. QED BY <1>5, <1>6, <1>7, <1>10, <1>11, PartsPush

\* The innermost section has no include left.
LEMMA PartsReturn == TypeOK /\ Parts /\ Return => Parts'
<1> SUFFICES ASSUME TypeOK, Parts, Return PROVE Parts' OBVIOUS
<1>1. calls # <<>> /\ calls[Top].loaded /\ calls' = SubSeq(calls, 1, Top - 1) BY DEF Return
<1>2. calls \in Seq(FrameSet) /\ includes \in [Names -> Seq(Includes)] BY DEF TypeOK, FrameSet
<1>3. /\ Top \in Nat /\ Top \in 1 .. Len(calls) /\ Top = Len(calls)
      /\ calls[Top].section \in Names /\ calls[Top].next \in Nat \ {0}
  BY <1>1, TopFrame DEF Top
<1>4. Len(includes[calls[Top].section]) \in Nat BY <1>2, <1>3
<1>5. calls[Top].next > Len(includes[calls[Top].section]) BY <1>1, <1>3, <1>4 DEF Return, Following
<1>6. UNCHANGED <<includedScripts, sections, includes, failed>> BY DEF Return, added
<1>7. Added' = Added BY <1>6 DEF Added
<1>8. Len(calls') = Top - 1 /\ \A i \in 1 .. Top - 1 : calls'[i] = calls[i] BY <1>1, <1>2, <1>3
<1>9. CallsNest'
  <2> SUFFICES ASSUME NEW i \in 1 .. Top - 1
               PROVE /\ calls[i].section \in includedScripts /\ calls[i].loaded
                     /\ calls[i].loaded <=> calls[i].section \in Added
    BY <1>6, <1>7, <1>8 DEF CallsNest
  <2>1. i \in 1 .. Len(calls) /\ i < Len(calls) BY <1>3
  <2>2. QED BY <2>1 DEF Parts, CallsNest
<1>10. Remembered' BY <1>6, <1>7 DEF Parts, Remembered
<1>11. AddedOnce' BY <1>6 DEF Parts, AddedOnce
<1>12. Accounted'
  <2> SUFFICES ASSUME ~failed, NEW m \in includedScripts, m \notin Added PROVE Open(m)'
    BY <1>6, <1>7 DEF Accounted
  <2>1. PICK i \in 1 .. Len(calls) : calls[i].section = m BY DEF Parts, Accounted, Open
  <2>2. i # Top BY <1>1, <1>3, <2>1 DEF Parts, CallsNest
  <2>3. i \in 1 .. Top - 1 BY <1>3, <2>2
  <2>4. i \in 1 .. Len(calls') /\ calls'[i].section = m BY <1>8, <2>1, <2>3
  <2>5. QED BY <2>4 DEF Open
<1>13. Followed'
  <2>1. \A m, k : Target(m, k)' = Target(m, k) BY <1>6 DEF Target
  <2> SUFFICES ASSUME ~failed, NEW m \in Added, NEW k \in 1 .. Len(includes[m]), Ahead(m, k)
               PROVE Ahead(m, k)'
    BY <1>6, <1>7, <2>1 DEF Parts, Followed
  <2>2. PICK i \in 1 .. Len(calls) : calls[i].section = m /\ calls[i].next <= k BY DEF Ahead
  <2>3. i # Top
    <3>1. SUFFICES ASSUME i = Top PROVE FALSE OBVIOUS
    <3>2. k \in 1 .. Len(includes[calls[Top].section]) BY <2>2, <3>1
    <3>3. QED BY <1>3, <1>4, <1>5, <2>2, <3>1, <3>2
  <2>4. i \in 1 .. Top - 1 BY <1>3, <2>3
  <2>5. i \in 1 .. Len(calls') /\ calls'[i].section = m /\ calls'[i].next <= k BY <1>8, <2>2, <2>4
  <2>6. QED BY <2>5 DEF Ahead
<1>14. QED BY <1>9, <1>10, <1>11, <1>12, <1>13 DEF Parts

\* A section that is added was not added before: all its includes are ahead.
LEMMA PartsProcess == TypeOK /\ Parts /\ ProcessScriptSection => Parts'
<1> SUFFICES ASSUME TypeOK, Parts, ProcessScriptSection PROVE Parts' OBVIOUS
<1> DEFINE n == calls[Top].section
           s == Scan(currentClass, currentNamespace, Compiled(says[n], definedWords))
<1>1. calls # <<>> /\ ~calls[Top].loaded /\ UNCHANGED includedScripts BY DEF ProcessScriptSection
<1>2. CASE s.refused
  <2>1. Fail /\ UNCHANGED <<sections, includes>> BY <1>2 DEF ProcessScriptSection
  <2>2. QED BY <1>1, <2>1, PartsFail
<1>3. CASE ~s.refused
  <2>1. PICK inc \in Seq(Includes) : inc = s.includes BY <1>3 DEF ProcessScriptSection
  <2>2. /\ sections' = Append(sections, n) /\ includes' = [includes EXCEPT ![n] = inc]
        /\ calls' = [calls EXCEPT ![Top].loaded = TRUE] /\ UNCHANGED failed
    BY <1>3, <2>1 DEF ProcessScriptSection
  <2> HIDE DEF s
  <2>3. /\ calls \in Seq(FrameSet) /\ includes \in [Names -> Seq(Includes)] /\ sections \in Seq(Names)
        /\ includedScripts \subseteq Names
    BY DEF TypeOK, FrameSet
  <2>4. Top \in 1 .. Len(calls) /\ Top = Len(calls) /\ calls[Top] \in FrameSet /\ n \in Names
    BY <1>1, TopFrame DEF Top
  <2>5. n \in includedScripts /\ n \notin Added /\ calls[Top].next = 1
    BY <1>1, <2>4 DEF Parts, CallsNest
  <2>6. Added' = Added \cup {n} /\ (AddedOnce /\ n \notin Added => AddedOnce')
    BY <2>2, <2>3, <2>4, AddedAppend
  <2>7. AddedOnce' BY <2>5, <2>6 DEF Parts
  <2>8. Remembered' BY <1>1, <2>5, <2>6 DEF Parts, Remembered
  <2>9. /\ Len(calls') = Len(calls)
        /\ \A i \in 1 .. Len(calls) : i # Top => calls'[i] = calls[i]
        /\ calls'[Top] = [calls[Top] EXCEPT !.loaded = TRUE]
    <3>1. PICK f : f = [calls[Top] EXCEPT !.loaded = TRUE] OBVIOUS
    <3>2. f \in FrameSet
      <4>1. \A g \in FrameSet : [g EXCEPT !.loaded = TRUE] \in FrameSet BY DEF FrameSet
      <4>2. QED BY <2>4, <3>1, <4>1
    <3>3. calls' = [calls EXCEPT ![Top] = f] BY <2>2, <3>1
    <3>4. Len(calls') = Len(calls) BY <2>3, <2>4, <3>2, <3>3
    <3>5. DOMAIN calls = 1 .. Len(calls) BY <2>3
    <3>6. calls'[Top] = f /\ \A i \in 1 .. Len(calls) : i # Top => calls'[i] = calls[i]
      BY <2>4, <3>3, <3>5
    <3>7. QED BY <3>1, <3>4, <3>6
  <2>10. calls'[Top].section = n /\ calls'[Top].loaded /\ calls'[Top].next = calls[Top].next
    <3>1. \A f \in FrameSet : LET g == [f EXCEPT !.loaded = TRUE]
                              IN g.section = f.section /\ g.loaded /\ g.next = f.next
      BY DEF FrameSet
    <3>2. QED BY <2>4, <2>9, <3>1
  <2>11. \A i \in 1 .. Len(calls) : calls'[i].section = calls[i].section /\ calls'[i].next = calls[i].next
    BY <2>9, <2>10
  <2>12. CallsNest'
    <3> SUFFICES ASSUME NEW i \in 1 .. Len(calls)
                 PROVE /\ calls'[i].section \in includedScripts /\ calls'[i].loaded
                       /\ calls'[i].section \in Added'
      BY <1>1, <2>9 DEF CallsNest
    <3>1. CASE i = Top BY <2>5, <2>6, <2>10, <3>1
    <3>2. CASE i # Top
      <4>1. i < Len(calls) BY <2>4, <3>2
      <4>2. /\ calls[i].section \in includedScripts /\ calls[i].loaded
            /\ calls[i].loaded <=> calls[i].section \in Added
        BY <4>1 DEF Parts, CallsNest
      <4>3. QED BY <2>6, <2>9, <3>2, <4>2
    <3>3. QED BY <3>1, <3>2
  <2>13. Accounted'
    <3> SUFFICES ASSUME ~failed, NEW m \in includedScripts, m \notin Added PROVE m \in Added' \/ Open(m)'
      BY <1>1, <2>2, <2>6 DEF Accounted
    <3>1. PICK i \in 1 .. Len(calls) : calls[i].section = m BY DEF Parts, Accounted, Open
    <3>2. i \in 1 .. Len(calls') /\ calls'[i].section = m BY <2>9, <2>11, <3>1
    <3>3. QED BY <3>2 DEF Open
  <2>14. Followed'
    <3> SUFFICES ASSUME ~failed, NEW m \in Added', NEW k \in 1 .. Len(includes'[m])
                 PROVE Target(m, k)' \in includedScripts \/ Ahead(m, k)'
      BY <1>1, <2>2 DEF Followed
    <3>1. CASE m = n
      <4>1. Len(includes'[n]) \in Nat
        <5>1. includes'[n] = inc BY <2>2, <2>3, <2>4
        <5>2. QED BY <2>1, <5>1
      <4>2. 1 <= k BY <3>1, <4>1
      <4>3. Top \in 1 .. Len(calls') /\ calls'[Top].section = m /\ calls'[Top].next = 1
        BY <2>4, <2>5, <2>9, <2>10, <3>1
      <4>4. calls'[Top].next <= k BY <4>2, <4>3
      <4>5. QED BY <4>3, <4>4 DEF Ahead
    <3>2. CASE m # n
      <4>1. m \in Added BY <2>6, <3>2
      <4>2. m \in Names BY <2>3, <4>1 DEF Parts, Remembered
      <4>3. includes'[m] = includes[m] BY <2>2, <2>3, <3>2, <4>2
      <4>4. Target(m, k)' = Target(m, k) BY <4>3 DEF Target
      <4>5. k \in 1 .. Len(includes[m]) BY <4>3
      <4>6. Target(m, k) \in includedScripts \/ Ahead(m, k) BY <4>1, <4>5 DEF Parts, Followed
      <4>7. ASSUME Ahead(m, k) PROVE Ahead(m, k)'
        <5>1. PICK i \in 1 .. Len(calls) : calls[i].section = m /\ calls[i].next <= k BY <4>7 DEF Ahead
        <5>2. i \in 1 .. Len(calls') /\ calls'[i].section = m /\ calls'[i].next <= k BY <2>9, <2>11, <5>1
        <5>3. QED BY <5>2 DEF Ahead
      <4>8. QED BY <4>4, <4>6, <4>7
    <3>3. QED BY <3>1, <3>2
  <2>15. QED BY <2>7, <2>8, <2>12, <2>13, <2>14 DEF Parts
<1>4. QED BY <1>2, <1>3

LEMMA PartsNext == TypeOK /\ Parts /\ [Next]_vars => Parts'
<1> SUFFICES ASSUME TypeOK, Parts, [Next]_vars PROVE Parts' OBVIOUS
<1>1. CASE StartNewModule
  <2>1. calls' = <<>> /\ sections' = <<>> /\ includedScripts' = {} BY <1>1 DEF StartNewModule
  <2>2. (calls = <<>> /\ sections = <<>> /\ includedScripts = {} => Parts)' BY PartsEmpty, PTL
  <2>3. QED BY <2>1, <2>2
<1>2. ASSUME NEW w \in Words, DefineWord(w) PROVE Parts'
  <2>1. UNCHANGED <<includedScripts, sections, includes, calls, failed>> BY <1>2 DEF DefineWord, added
  <2>2. QED BY <2>1, PartsSame
<1>3. ASSUME NEW n \in Names \ FromMemory, FileAppears(n) PROVE Parts'
  <2>1. UNCHANGED <<includedScripts, sections, includes, calls, failed>> BY <1>3 DEF FileAppears, added
  <2>2. QED BY <2>1, PartsSame
<1>4. ASSUME NEW n \in Names, NEW memory \in BOOLEAN, AddSection(n, memory) PROVE Parts'
  <2>1. /\ calls = <<>> /\ IncludeIfNotAlreadyIncluded(n, memory, calls)
        /\ UNCHANGED <<sections, includes, failed>>
    BY <1>4 DEF AddSection, Idle
  <2>2. Len(calls) = 0 /\ calls \in Seq(FrameSet) BY <2>1
  <2>3. includedScripts \subseteq includedScripts' BY <2>1 DEF IncludeIfNotAlreadyIncluded
  <2>4. ~failed => \A m \in Added : \A k \in 1 .. Len(includes[m]) : Target(m, k) \in includedScripts'
    <3> SUFFICES ASSUME ~failed, NEW m \in Added, NEW k \in 1 .. Len(includes[m])
                 PROVE Target(m, k) \in includedScripts'
      OBVIOUS
    <3>1. ~Ahead(m, k) BY <2>2 DEF Ahead
    <3>2. QED BY <2>3, <3>1 DEF Parts, Followed
  <2>5. \A i \in 1 .. Len(calls) :
          calls[i].loaded /\ calls[i].loaded /\ calls[i].section = calls[i].section
    BY <2>2
  <2>6. QED BY <2>1, <2>2, <2>4, <2>5, PartsPush
<1>5. CASE LoadFails
  <2>1. Fail /\ UNCHANGED <<includedScripts, sections>> BY <1>5 DEF LoadFails, added
  <2>2. QED BY <2>1, PartsFail
<1>6. CASE ProcessScriptSection BY <1>6, PartsProcess
<1>7. CASE NextInclude BY <1>7, PartsInclude
<1>8. CASE Return BY <1>8, PartsReturn
<1>9. CASE BuildModule
  <2>1. UNCHANGED <<includedScripts, sections, includes, calls>> BY <1>9 DEF BuildModule, added
  <2>2. failed => failed' BY <1>9 DEF BuildModule
  <2>3. QED BY <2>1, <2>2, PartsSame
<1>10. CASE UNCHANGED vars
  <2>1. UNCHANGED <<includedScripts, sections, includes, calls, failed>> BY <1>10 DEF vars, added
  <2>2. QED BY <2>1, PartsSame
<1>11. CASE Next
  <2>1. ASSUME NEW p \in Paths, AddSectionFromFile(p) PROVE Parts'
    <3>1. AbsolutePath[p] \in Names BY PathsAssumption DEF PathsAssumption
    <3>2. QED BY <1>4, <2>1, <3>1 DEF AddSectionFromFile
  <2>2. ASSUME NEW n \in FromMemory, AddSectionFromMemory(n) PROVE Parts'
    <3>1. n \in Names BY NamesAssumption DEF NamesAssumption
    <3>2. QED BY <1>4, <2>2, <3>1 DEF AddSectionFromMemory
  <2>3. QED BY <1>1, <1>2, <1>3, <1>5, <1>6, <1>7, <1>8, <1>9, <1>11, <2>1, <2>2 DEF Next, Proceed
<1>12. QED BY <1>10, <1>11

-----------------------------------------------------------------------------
LEMMA InvNext == Inv /\ [Next]_vars => Inv'
<1> SUFFICES ASSUME Inv, [Next]_vars PROVE Inv' OBVIOUS
<1>1. TypeOK /\ Parts BY DEF Inv, Parts
<1>2. TypeOK' /\ Parts' BY <1>1, TypeNext, PartsNext
<1>3. QED BY <1>2 DEF Inv, Parts

LEMMA Invariance == Spec => []Inv
<1>1. Init => Inv BY TypeInit, PartsInit DEF Inv, Parts
<1>2. QED BY <1>1, InvNext, PTL DEF Spec

\* The names, the sections and the nesting of the calls keep their types: every
\* #include that is followed asks for a file of a name (IncludePath is a path, and
\* GetAbsolutePath makes a name of it).
THEOREM TypeCorrect == Spec => []TypeOK
<1>1. Inv => TypeOK BY DEF Inv
<1>2. QED BY <1>1, Invariance, PTL

\* Whatever includes what, in cycles too, and in whatever order a host adds files and
\* memory, a module is given each section once.
THEOREM SectionsOnce == Spec => []AddedOnce
<1>1. Inv => AddedOnce BY DEF Inv
<1>2. QED BY <1>1, Invariance, PTL

\* When the calls of a host have succeeded, nothing that was to be included is
\* missing: an include is in the module, in a call that is open, or ahead in one.
THEOREM IncludesAllFollowed == Spec => []IncludesFollowed
<1>1. Inv => IncludesFollowed
  <2> SUFFICES ASSUME Inv, calls = <<>>, ~failed, NEW n \in Added, NEW i \in DOMAIN includes[n]
               PROVE Target(n, i) \in Added
    BY DEF IncludesFollowed
  <2>1. n \in Names
    <3>1. Added \subseteq includedScripts BY DEF Inv, Remembered
    <3>2. includedScripts \subseteq Names BY DEF Inv, TypeOK
    <3>3. QED BY <3>1, <3>2
  <2>2. includes[n] \in Seq(Includes) BY <2>1 DEF Inv, TypeOK
  <2>3. i \in 1 .. Len(includes[n]) BY <2>2
  <2>4. Len(calls) = 0 OBVIOUS
  <2>5. ~Ahead(n, i) BY <2>4 DEF Ahead
  <2>6. Target(n, i) \in includedScripts BY <2>3, <2>5 DEF Inv, Followed
  <2>7. ~Open(Target(n, i)) BY <2>4 DEF Open
  <2>8. QED BY <2>6, <2>7 DEF Inv, Accounted
<1>2. QED BY <1>1, Invariance, PTL

\* Sections are added once and all of them, whatever files include each other.
THEOREM SectionsComplete == Spec => []SectionsRight
<1>1. TypeOK /\ AddedOnce /\ IncludesFollowed => SectionsRight
  BY DEF SectionsRight
<1> QED BY <1>1, TypeCorrect, SectionsOnce, IncludesAllFollowed, PTL

-----------------------------------------------------------------------------
(* The names of files.                                                      *)
\* Induction for a set of numbers: of what is missing, some interval below would be
\* the smallest.
LEMMA Induct ==
  ASSUME NEW S \in SUBSET Nat, 0 \in S, \A n \in S : n + 1 \in S
  PROVE  S = Nat
<1> SUFFICES ASSUME S # Nat PROVE FALSE
  OBVIOUS
<1> DEFINE T == {0 .. x : x \in Nat \ S}
<1>1. T \subseteq FiniteSubsetsOf(Nat) /\ T # {}
  <2>1. ASSUME NEW x \in Nat PROVE 0 .. x \in FiniteSubsetsOf(Nat)
    <3>1. IsFiniteSet(0 .. x) /\ 0 .. x \subseteq Nat
      BY FS_Interval
    <3> QED
      BY <3>1 DEF FiniteSubsetsOf
  <2> QED
    BY <2>1
<1>2. PICK I \in T : \A J \in T : <<J, I>> \notin StrictSubsetOrdering(Nat)
  <2> HIDE DEF T
  <2> QED
    BY <1>1, WFMin, FS_StrictSubsetOrderingWellFounded
<1>3. PICK x \in Nat \ S : I = 0 .. x
  OBVIOUS
<1>4. x - 1 \in Nat \ S
  OBVIOUS
<1>5. 0 .. x - 1 \in T /\ 0 .. x - 1 \subseteq I /\ 0 .. x - 1 # I /\ I \subseteq Nat
  BY <1>3, <1>4
<1> QED
  BY <1>2, <1>5 DEF StrictSubsetOrdering

LEMMA LeastOf ==
  ASSUME NEW S \in SUBSET Nat, S # {}
  PROVE  Min(S) \in S /\ \A x \in S : Min(S) <= x
<1> DEFINE Below == {n \in Nat : \A m \in 0 .. n : m \notin S}
<1>1. \E x \in S : \A y \in S : x <= y
  <2> SUFFICES ASSUME \A x \in S : \E y \in S : y < x PROVE FALSE
    OBVIOUS
  <2>1. 0 \in Below
    OBVIOUS
  <2>2. ASSUME NEW n \in Below PROVE n + 1 \in Below
    <3>1. n + 1 \notin S
      OBVIOUS
    <3> QED
      BY <3>1
  <2>3. Below = Nat
    <3> HIDE DEF Below
    <3>1. Below \in SUBSET Nat
      BY DEF Below
    <3> QED
      BY <2>1, <2>2, <3>1, Induct
  <2>4. PICK x \in S : x \in Nat
    OBVIOUS
  <2>5. x \in Below
    BY <2>3, <2>4
  <2>6. x \in 0 .. x
    BY <2>4
  <2> QED
    BY <2>5, <2>6
<1> QED
  BY <1>1 DEF Min


Strings == Seq(STRING)

\* A recursion over 0 .. k has a solution.
Solvable(T, first, k, G) ==
  \E f \in [0 .. k -> T] : f[0] = first /\ \A n \in 1 .. k : f[n] = G[<<n, f[n - 1]>>]
LEMMA Solution ==
  ASSUME NEW T, NEW first \in T, NEW k \in Nat, NEW G \in [Nat \X T -> T]
  PROVE  Solvable(T, first, k, G)
<1> DEFINE Solves(f, m) == f[0] = first /\ \A n \in 1 .. m : f[n] = G[<<n, f[n - 1]>>]
           Solved == {m \in Nat : \E f \in [0 .. m -> T] : Solves(f, m)}
<1>1. 0 \in Solved
  <2>1. [n \in 0 .. 0 |-> first] \in [0 .. 0 -> T] /\ Solves([n \in 0 .. 0 |-> first], 0)
    OBVIOUS
  <2> HIDE DEF Solves
  <2> QED
    BY <2>1
<1>2. ASSUME NEW m \in Solved PROVE m + 1 \in Solved
  <2>1. PICK f \in [0 .. m -> T] : Solves(f, m)
    OBVIOUS
  <2> DEFINE next == G[<<m + 1, f[m]>>]
             g == [n \in 0 .. m + 1 |-> IF n = m + 1 THEN next ELSE f[n]]
  <2>2. next \in T
    <3>1. f[m] \in T /\ m + 1 \in Nat
      OBVIOUS
    <3>2. <<m + 1, f[m]>> \in Nat \X T
      BY <3>1
    <3> QED
      BY <3>2
  <2> HIDE DEF next
  <2>3. g \in [0 .. m + 1 -> T] /\ g[m + 1] = next
    BY <2>2
  <2>4. ASSUME NEW n \in 0 .. m PROVE g[n] = f[n]
    OBVIOUS
  <2> HIDE DEF g
  <2>5. ASSUME NEW n \in 1 .. m + 1 PROVE g[n] = G[<<n, g[n - 1]>>]
    <3>1. CASE n = m + 1
      <4>1. n - 1 = m /\ g[m] = f[m]
        BY <2>4, <3>1
      <4> QED
        BY <4>1, <3>1, <2>3 DEF next
    <3>2. CASE n \in 1 .. m
      <4>1. f[n] = G[<<n, f[n - 1]>>]
        BY <2>1, <3>2
      <4>2. g[n] = f[n] /\ g[n - 1] = f[n - 1]
        BY <2>4, <3>2
      <4> QED
        BY <4>1, <4>2
    <3>3. n = m + 1 \/ n \in 1 .. m
      OBVIOUS
    <3> QED
      BY <3>1, <3>2, <3>3
  <2>6. g[0] = first
    BY <2>1, <2>4
  <2>7. Solves(g, m + 1)
    BY <2>5, <2>6
  <2> HIDE DEF Solves
  <2> QED
    BY <2>3, <2>7
<1>3. Solved = Nat
  <2> HIDE DEF Solved
  <2>1. Solved \in SUBSET Nat
    BY DEF Solved
  <2> QED
    BY <1>1, <1>2, <2>1, Induct
<1>4. k \in Solved
  BY <1>3
<1> QED
  BY <1>4 DEF Solvable

\* And only one.
LEMMA OneSolution ==
  ASSUME NEW k \in Nat, NEW f, NEW j, f[0] = j[0],
         \A n \in 1 .. k : j[n - 1] = f[n - 1] => j[n] = f[n]
  PROVE  \A n \in 0 .. k : j[n] = f[n]
<1> DEFINE Agree == {n \in Nat : n <= k => j[n] = f[n]}
<1>1. 0 \in Agree
  OBVIOUS
<1>2. ASSUME NEW n \in Agree PROVE n + 1 \in Agree
  <2>1. CASE n + 1 <= k
    <3>1. n + 1 \in 1 .. k /\ (n + 1) - 1 = n /\ j[n] = f[n]
      BY <2>1
    <3>2. j[n + 1] = f[n + 1]
      BY <3>1
    <3> QED
      BY <3>2
  <2> QED
    BY <2>1
<1>3. Agree = Nat
  <2> HIDE DEF Agree
  <2>1. Agree \in SUBSET Nat
    BY DEF Agree
  <2> QED
    BY <1>1, <1>2, <2>1, Induct
<1> SUFFICES ASSUME NEW n \in 0 .. k PROVE j[n] = f[n]
  OBVIOUS
<1>4. n \in Agree
  BY <1>3
<1> QED
  BY <1>4

-----------------------------------------------------------------------------
\* Where the parts of a path lead, one after the other.
Leads(f, p) ==
  /\ f \in [0 .. Len(p) -> Strings]
  /\ f[0] = <<>> /\ \A n \in 1 .. Len(p) : f[n] = Walk(f[n - 1], p[n])

LEMMA NoPartIsNoDots == NoPart # "." /\ NoPart # ".."
BY Zenon DEF NoPart

LEMMA WalkTyped == ASSUME NEW dir \in Strings, NEW part \in STRING PROVE Walk(dir, part) \in Strings
<1>1. CASE dir = <<>>
  BY <1>1, AppendProperties DEF Walk, Strings
<1>2. CASE dir # <<>>
  <2>1. Len(dir) \in Nat \ {0}
    BY <1>2, EmptySeq DEF Strings
  <2>2. \A i \in 1 .. Len(dir) - 1 : dir[i] \in STRING
    BY <2>1 DEF Strings
  <2>3. Front(dir) \in Strings
    BY <2>1, <2>2, SubSeqProperties DEF Front, Strings
  <2>4. Append(dir, part) \in Strings
    BY AppendProperties DEF Strings
  <2> QED
    BY <2>3, <2>4 DEF Walk
<1> QED
  BY <1>1, <1>2

LEMMA SomewhereLeads == ASSUME NEW p \in Strings PROVE \E f : Leads(f, p)
<1> DEFINE G == [x \in Nat \X Strings |->
                   IF x[1] \in 1 .. Len(p) THEN Walk(x[2], p[x[1]]) ELSE <<>>]
<1>1. Len(p) \in Nat /\ <<>> \in Strings
  BY EmptySeq DEF Strings
<1>2. G \in [Nat \X Strings -> Strings]
  <2>1. ASSUME NEW x \in Nat \X Strings
        PROVE  (IF x[1] \in 1 .. Len(p) THEN Walk(x[2], p[x[1]]) ELSE <<>>) \in Strings
    <3>1. x[2] \in Strings
      OBVIOUS
    <3>2. CASE x[1] \in 1 .. Len(p)
      <4>1. p[x[1]] \in STRING
        BY <3>2, ElementOfSeq DEF Strings
      <4> QED
        BY <3>1, <3>2, <4>1, WalkTyped
    <3> QED
      BY <3>2, <1>1
  <2> QED
    BY <2>1
<1>3. PICK f \in [0 .. Len(p) -> Strings] : f[0] = <<>> /\ \A n \in 1 .. Len(p) : f[n] = G[<<n, f[n - 1]>>]
  <2> HIDE DEF G
  <2>1. PICK k \in Nat : k = Len(p)
    BY <1>1
  <2>2. \E f \in [0 .. k -> Strings] : f[0] = <<>> /\ \A n \in 1 .. k : f[n] = G[<<n, f[n - 1]>>]
    <3>1. Solvable(Strings, <<>>, k, G)
      BY <1>1, <1>2, Solution
    <3> QED
      BY <3>1 DEF Solvable
  <2> QED
    BY <2>1, <2>2
<1>4. ASSUME NEW n \in 1 .. Len(p) PROVE f[n] = Walk(f[n - 1], p[n])
  <2>1. f[n - 1] \in Strings /\ n \in Nat
    BY <1>1
  <2>2. <<n, f[n - 1]>> \in Nat \X Strings
    BY <2>1
  <2>3. G[<<n, f[n - 1]>>] = Walk(f[n - 1], p[n])
    BY <2>2
  <2> QED
    BY <1>3, <2>3
<1> QED
  BY <1>3, <1>4 DEF Leads

LEMMA PlaceOf == ASSUME NEW p \in Strings, NEW f, Leads(f, p) PROVE Place(p) = f[Len(p)] /\ Place(p) \in Strings
<1>1. PICK k \in Nat : k = Len(p)
  BY DEF Strings
<1> DEFINE NextPlace(j, n) == IF n = 0 THEN <<>> ELSE Walk(j[n - 1], p[n])
           IsPlaces(j) == j = [n \in 0 .. Len(p) |-> NextPlace(j, n)]
<1>2. IsPlaces(f)
  <2>1. ASSUME NEW n \in 0 .. Len(p) PROVE f[n] = NextPlace(f, n)
    BY <1>1 DEF Leads
  <2>2. f = [n \in 0 .. Len(p) |-> f[n]]
    BY DEF Leads
  <2> HIDE DEF NextPlace
  <2> QED
    BY <2>1, <2>2
<1>3. ASSUME NEW j, IsPlaces(j) PROVE j[Len(p)] = f[Len(p)]
  <2>1. ASSUME NEW n \in 0 .. k PROVE j[n] = NextPlace(j, n) /\ f[n] = NextPlace(f, n)
    <3> HIDE DEF NextPlace
    <3> QED
      BY <1>1, <1>2, <1>3
  <2>2. j[0] = <<>> /\ f[0] = <<>>
    <3>1. j[0] = NextPlace(j, 0) /\ f[0] = NextPlace(f, 0)
      BY <2>1
    <3> QED
      BY <3>1
  <2>3. ASSUME NEW n \in 1 .. k, j[n - 1] = f[n - 1] PROVE j[n] = f[n]
    <3>1. n \in 0 .. k /\ n # 0
      OBVIOUS
    <3>2. j[n] = NextPlace(j, n) /\ f[n] = NextPlace(f, n)
      BY <2>1, <3>1
    <3> QED
      BY <2>3, <3>1, <3>2
  <2> HIDE DEF NextPlace, IsPlaces
  <2>4. f[0] = j[0] /\ \A n \in 1 .. k : j[n - 1] = f[n - 1] => j[n] = f[n]
    BY <2>2, <2>3
  <2>5. \A n \in 0 .. k : j[n] = f[n]
    BY <2>4, OneSolution, ZenonT(60)
  <2> QED
    BY <1>1, <2>5
<1>4. Place(p) = (CHOOSE j : IsPlaces(j))[Len(p)]
  BY DEF Place
<1> HIDE DEF IsPlaces
<1>5. IsPlaces(CHOOSE j : IsPlaces(j))
  BY <1>2
<1>6. Place(p) = f[Len(p)]
  BY <1>3, <1>4, <1>5
<1>7. f[Len(p)] \in Strings
  BY <1>1 DEF Leads
<1> QED
  BY <1>6, <1>7

\* A path with one more part.
LEMMA OneMore ==
  ASSUME NEW p \in Strings, NEW part \in STRING
  PROVE  /\ Append(p, part) \in Strings /\ Len(Append(p, part)) = Len(p) + 1
         /\ \A i \in 1 .. Len(p) : Append(p, part)[i] = p[i]
         /\ Append(p, part)[Len(p) + 1] = part
<1>1. p \in Seq(STRING)
  BY DEF Strings
<1>2. Append(p, part) \in Seq(STRING)
  BY <1>1, AppendProperties, Zenon
<1>3. Len(Append(p, part)) = Len(p) + 1
  BY <1>1, AppendProperties, Zenon
<1>4. ASSUME NEW i \in 1 .. Len(p) PROVE Append(p, part)[i] = p[i]
  BY <1>1, AppendProperties
<1>5. Append(p, part)[Len(p) + 1] = part
  BY <1>1, AppendProperties, Zenon
<1> QED
  BY <1>2, <1>3, <1>4, <1>5, Zenon DEF Strings

LEMMA PlaceOfAppend ==
  ASSUME NEW p \in Strings, NEW part \in STRING
  PROVE  Place(Append(p, part)) = Walk(Place(p), part)
<1>1. PICK k \in Nat : k = Len(p)
  BY DEF Strings
<1>2. PICK f : Leads(f, p)
  BY SomewhereLeads
<1>3. Place(p) = f[k] /\ Place(p) \in Strings
  BY <1>1, <1>2, PlaceOf
<1> DEFINE q == Append(p, part)
           there == Walk(f[k], part)
           g == [n \in 0 .. k + 1 |-> IF n = k + 1 THEN there ELSE f[n]]
<1>4. /\ q \in Strings /\ Len(q) = k + 1 /\ q[k + 1] = part
      /\ \A n \in 1 .. k : q[n] = p[n]
  <2> HIDE DEF there, g
  <2>1. /\ q \in Strings /\ Len(q) = Len(p) + 1
        /\ \A i \in 1 .. Len(p) : q[i] = p[i]
        /\ q[Len(p) + 1] = part
    BY OneMore
  <2> HIDE DEF q
  <2> QED
    BY <1>1, <2>1 DEF Strings
<1>5. there \in Strings
  BY <1>3, WalkTyped
<1> HIDE DEF q, there
<1>6. g \in [0 .. k + 1 -> Strings] /\ g[k + 1] = there
  BY <1>1, <1>2, <1>5 DEF Leads
<1>7. ASSUME NEW n \in 0 .. k PROVE g[n] = f[n]
  OBVIOUS
<1> HIDE DEF g
<1>8. g[0] = <<>>
  BY <1>2, <1>7 DEF Leads
<1>9. ASSUME NEW n \in 1 .. k + 1 PROVE g[n] = Walk(g[n - 1], q[n])
  <2>1. CASE n = k + 1
    <3>1. n - 1 = k /\ g[k] = f[k]
      BY <2>1, <1>7
    <3> QED
      BY <2>1, <3>1, <1>4, <1>6 DEF there
  <2>2. CASE n \in 1 .. k
    <3>1. f[n] = Walk(f[n - 1], p[n])
      BY <1>1, <1>2, <2>2 DEF Leads
    <3>2. g[n] = f[n] /\ g[n - 1] = f[n - 1] /\ q[n] = p[n]
      BY <1>4, <1>7, <2>2
    <3> QED
      BY <3>1, <3>2
  <2>3. n = k + 1 \/ n \in 1 .. k
    OBVIOUS
  <2> QED
    BY <2>1, <2>2, <2>3
<1>10. Leads(g, q)
  BY <1>4, <1>6, <1>8, <1>9 DEF Leads
<1>11. Place(q) = g[k + 1]
  BY <1>4, <1>10, PlaceOf
<1> QED
  BY <1>3, <1>6, <1>11 DEF q, there

LEMMA PlaceOfNone == Place(<<>>) = <<>>
<1>1. <<>> \in Strings /\ Len(<<>>) = 0
  BY EmptySeq DEF Strings
<1>2. PICK f : Leads(f, <<>>)
  BY <1>1, SomewhereLeads
<1> QED
  BY <1>1, <1>2, PlaceOf DEF Leads

-----------------------------------------------------------------------------
\* What WithoutDots has kept of the first n parts.
Keeps(h, p) ==
  /\ h \in [0 .. Len(p) -> Strings]
  /\ h[0] = <<>>
  /\ \A n \in 1 .. Len(p) :
       h[n] = IF p[n] = "." /\ n < Len(p) THEN h[n - 1] ELSE Append(h[n - 1], p[n])

LEMMA SomethingIsKept == ASSUME NEW p \in Strings PROVE \E h : Keeps(h, p)
<1> DEFINE G == [x \in Nat \X Strings |->
                   IF x[1] \in 1 .. Len(p) /\ ~(p[x[1]] = "." /\ x[1] < Len(p))
                   THEN Append(x[2], p[x[1]]) ELSE x[2]]
<1>1. Len(p) \in Nat /\ <<>> \in Strings
  BY EmptySeq DEF Strings
<1>2. G \in [Nat \X Strings -> Strings]
  <2>1. ASSUME NEW x \in Nat \X Strings, x[1] \in 1 .. Len(p)
        PROVE  Append(x[2], p[x[1]]) \in Strings
    <3>1. x[2] \in Strings
      OBVIOUS
    <3>2. p[x[1]] \in STRING
      BY <2>1, ElementOfSeq DEF Strings
    <3> QED
      BY <3>1, <3>2, AppendProperties DEF Strings
  <2>2. ASSUME NEW x \in Nat \X Strings PROVE x[2] \in Strings
    OBVIOUS
  <2> QED
    BY <2>1, <2>2
<1>3. PICK k \in Nat : k = Len(p)
  BY <1>1
<1>4. PICK h \in [0 .. k -> Strings] : h[0] = <<>> /\ \A n \in 1 .. k : h[n] = G[<<n, h[n - 1]>>]
  <2> HIDE DEF G
  <2>1. Solvable(Strings, <<>>, k, G)
    BY <1>1, <1>2, Solution
  <2> QED
    BY <2>1 DEF Solvable
<1>5. ASSUME NEW n \in 1 .. k
      PROVE  h[n] = IF p[n] = "." /\ n < k THEN h[n - 1] ELSE Append(h[n - 1], p[n])
  <2>1. h[n - 1] \in Strings /\ n \in Nat
    OBVIOUS
  <2>2. <<n, h[n - 1]>> \in Nat \X Strings
    BY <2>1
  <2>3. G[<<n, h[n - 1]>>] = IF n \in 1 .. Len(p) /\ ~(p[n] = "." /\ n < Len(p))
                              THEN Append(h[n - 1], p[n]) ELSE h[n - 1]
    BY <2>2
  <2> HIDE DEF G
  <2> QED
    BY <1>3, <1>4, <2>3
<1> QED
  BY <1>3, <1>4, <1>5 DEF Keeps

LEMMA KeptOf == ASSUME NEW p \in Strings, NEW h, Keeps(h, p) PROVE WithoutDots(p) = h[Len(p)]
<1>1. PICK k \in Nat : k = Len(p)
  BY DEF Strings
<1> DEFINE NextKept(j, n) == IF n = 0 THEN <<>>
                          ELSE IF p[n] = "." /\ n < Len(p) THEN j[n - 1]
                          ELSE Append(j[n - 1], p[n])
           IsKept(j) == j = [n \in 0 .. Len(p) |-> NextKept(j, n)]
<1>2. IsKept(h)
  <2>1. ASSUME NEW n \in 0 .. Len(p) PROVE h[n] = NextKept(h, n)
    <3>1. CASE n = 0
      BY <3>1 DEF Keeps
    <3>2. CASE n \in 1 .. Len(p)
      <4>1. h[n] = IF p[n] = "." /\ n < Len(p) THEN h[n - 1] ELSE Append(h[n - 1], p[n])
        BY <3>2 DEF Keeps
      <4>2. n # 0
        BY <3>2
      <4> QED
        BY <4>1, <4>2
    <3>3. n = 0 \/ n \in 1 .. Len(p)
      BY <1>1
    <3> QED
      BY <3>1, <3>2, <3>3
  <2>2. h = [n \in 0 .. Len(p) |-> h[n]]
    BY DEF Keeps
  <2> HIDE DEF NextKept
  <2> QED
    BY <2>1, <2>2
<1>3. ASSUME NEW j, IsKept(j) PROVE j[Len(p)] = h[Len(p)]
  <2>1. ASSUME NEW n \in 0 .. k PROVE j[n] = NextKept(j, n) /\ h[n] = NextKept(h, n)
    <3> HIDE DEF NextKept
    <3> QED
      BY <1>1, <1>2, <1>3
  <2>2. j[0] = <<>> /\ h[0] = <<>>
    <3>1. j[0] = NextKept(j, 0) /\ h[0] = NextKept(h, 0)
      BY <2>1
    <3> QED
      BY <3>1
  <2>3. ASSUME NEW n \in 1 .. k, j[n - 1] = h[n - 1] PROVE j[n] = h[n]
    <3>1. n \in 0 .. k /\ n # 0
      OBVIOUS
    <3>2. j[n] = NextKept(j, n) /\ h[n] = NextKept(h, n)
      BY <2>1, <3>1
    <3> QED
      BY <2>3, <3>1, <3>2
  <2> HIDE DEF NextKept, IsKept
  <2>4. h[0] = j[0] /\ \A n \in 1 .. k : j[n - 1] = h[n - 1] => j[n] = h[n]
    BY <2>2, <2>3
  <2>5. \A n \in 0 .. k : j[n] = h[n]
    BY <2>4, OneSolution, ZenonT(60)
  <2> QED
    BY <1>1, <2>5
<1>4. WithoutDots(p) = (CHOOSE j : IsKept(j))[Len(p)]
  BY DEF WithoutDots
<1> HIDE DEF IsKept
<1>5. IsKept(CHOOSE j : IsKept(j))
  BY <1>2
<1> QED
  BY <1>3, <1>4, <1>5

NoDot(p) == \A i \in 1 .. Len(p) : p[i] \notin {".", NoPart}
Proper(p) == NamesFile(p) /\ NoneEmpty(p)

LEMMA DotsGo ==
  ASSUME NEW p \in Strings
  PROVE  /\ WithoutDots(p) \in Strings
         /\ p = <<>> => WithoutDots(p) = <<>>
         /\ p # <<>> /\ Proper(p) =>
              /\ WithoutDots(p) # <<>> /\ Last(WithoutDots(p)) = Last(p)
              /\ NoDot(WithoutDots(p)) /\ Place(WithoutDots(p)) = Place(p)
<1>1. PICK k \in Nat : k = Len(p)
  BY DEF Strings
<1>2. PICK f : Leads(f, p)
  BY SomewhereLeads
<1>3. PICK h : Keeps(h, p)
  BY SomethingIsKept
<1>4. WithoutDots(p) = h[k] /\ h[k] \in Strings /\ h[0] = <<>>
  BY <1>1, <1>3, KeptOf DEF Keeps
<1>5. Place(p) = f[k]
  BY <1>1, <1>2, PlaceOf
<1>6. p = <<>> => k = 0
  BY <1>1
<1>7. ASSUME p # <<>>, Proper(p)
      PROVE  /\ h[k] # <<>> /\ Last(h[k]) = Last(p)
             /\ NoDot(h[k]) /\ Place(h[k]) = Place(p)
  <2>1. k > 0 /\ p[k] # "." /\ p[k] = Last(p)
    BY <1>1, <1>7, EmptySeq DEF Proper, NamesFile, Last, Strings
  <2> DEFINE Right == {n \in Nat : n <= k => NoDot(h[n]) /\ Place(h[n]) = f[n]}
  <2>2. 0 \in Right
    <3>1. NoDot(<<>>)
      BY DEF NoDot
    <3>2. f[0] = <<>>
      BY <1>2 DEF Leads
    <3>3. NoDot(h[0]) /\ Place(h[0]) = f[0]
      BY <1>4, <3>1, <3>2, PlaceOfNone
    <3> QED
      BY <3>3
  <2>3. ASSUME NEW n \in Right PROVE n + 1 \in Right
    <3> SUFFICES ASSUME n + 1 <= k PROVE NoDot(h[n + 1]) /\ Place(h[n + 1]) = f[n + 1]
      OBVIOUS
    <3>1. n + 1 \in 1 .. k /\ n \in 0 .. k /\ (n + 1) - 1 = n /\ NoDot(h[n]) /\ Place(h[n]) = f[n]
      OBVIOUS
    <3> DEFINE part == p[n + 1]
    <3>2. part \in STRING /\ h[n] \in Strings
      BY <1>1, <1>3, <3>1, ElementOfSeq DEF Keeps, Strings
    <3>3. f[n + 1] = Walk(f[n], part)
      BY <1>1, <1>2, <3>1 DEF Leads
    <3>4. h[n + 1] = IF part = "." /\ n + 1 < k THEN h[n] ELSE Append(h[n], part)
      BY <1>1, <1>3, <3>1 DEF Keeps
    <3> HIDE DEF part
    <3>5. CASE part = "."
      <4>1. n + 1 < k
        BY <2>1, <3>1, <3>5 DEF part
      <4>2. f[n + 1] = f[n] /\ h[n + 1] = h[n]
        BY <3>3, <3>4, <3>5, <4>1 DEF Walk
      <4> QED
        BY <3>1, <4>2
    <3>6. CASE part # "."
      <4>1. h[n + 1] = Append(h[n], part)
        BY <3>4, <3>6
      <4>2. Place(h[n + 1]) = f[n + 1]
        BY <3>1, <3>2, <3>3, <4>1, PlaceOfAppend
      <4>3. part # NoPart
        BY <1>1, <1>7, <3>1 DEF Proper, NoneEmpty, part
      <4>4. NoDot(Append(h[n], part))
        BY <3>1, <3>2, <3>6, <4>3, AppendProperties DEF NoDot, Strings
      <4> QED
        BY <4>1, <4>2, <4>4
    <3> QED
      BY <3>5, <3>6
  <2>4. Right = Nat
    <3> HIDE DEF Right
    <3>1. Right \in SUBSET Nat
      BY DEF Right
    <3> QED
      BY <2>2, <2>3, <3>1, Induct
  <2>5. k \in Right
    BY <2>4
  <2>6. NoDot(h[k]) /\ Place(h[k]) = f[k]
    BY <2>5
  <2>7. h[k] = Append(h[k - 1], p[k])
    <3>1. k \in 1 .. Len(p) /\ ~(k < Len(p))
      BY <1>1, <2>1
    <3>2. h[k] = IF p[k] = "." /\ k < Len(p) THEN h[k - 1] ELSE Append(h[k - 1], p[k])
      BY <1>3, <3>1 DEF Keeps
    <3> QED
      BY <3>1, <3>2
  <2>8. h[k - 1] \in Strings /\ p[k] \in STRING
    <3>1. k - 1 \in 0 .. k /\ k \in 1 .. k
      BY <2>1
    <3> QED
      BY <1>1, <1>3, <3>1, ElementOfSeq DEF Keeps, Strings
  <2>9. h[k] # <<>> /\ Last(h[k]) = p[k]
    <3>1. PICK r \in Strings : r = h[k - 1]
      BY <2>8
    <3>2. /\ Append(r, p[k]) # <<>> /\ Len(Append(r, p[k])) = Len(r) + 1
          /\ Append(r, p[k])[Len(r) + 1] = p[k]
      BY <2>8, AppendProperties DEF Strings
    <3> QED
      BY <2>7, <3>1, <3>2 DEF Last
  <2> QED
    BY <1>5, <2>1, <2>6, <2>9
<1> QED
  BY <1>4, <1>6, <1>7

\* A path of names leads where it says.
LEMMA PlaceOfNames ==
  ASSUME NEW p \in Strings, \A i \in 1 .. Len(p) : p[i] \notin {".", "..", NoPart}
  PROVE  Place(p) = p
<1>1. PICK k \in Nat : k = Len(p)
  BY DEF Strings
<1>2. PICK f : Leads(f, p)
  BY SomewhereLeads
<1> DEFINE Right == {n \in Nat : n <= k => f[n] = SubSeq(p, 1, n)}
<1>3. 0 \in Right
  <2>1. f[0] = <<>>
    BY <1>2 DEF Leads
  <2>2. SubSeq(p, 1, 0) = <<>>
    BY SubSeqEmpty
  <2>3. f[0] = SubSeq(p, 1, 0)
    BY <2>1, <2>2
  <2> QED
    BY <2>3
<1>4. ASSUME NEW n \in Right PROVE n + 1 \in Right
  <2> SUFFICES ASSUME n + 1 <= k PROVE f[n + 1] = SubSeq(p, 1, n + 1)
    OBVIOUS
  <2>1. n + 1 \in 1 .. k /\ n \in 0 .. k /\ (n + 1) - 1 = n /\ f[n] = SubSeq(p, 1, n)
    OBVIOUS
  <2>2. f[n + 1] = Append(f[n], p[n + 1])
    BY <1>1, <1>2, <2>1 DEF Leads, Walk
  <2>3. p[n + 1] \in STRING /\ f[n] \in Strings
    BY <1>1, <1>2, <2>1, ElementOfSeq DEF Leads, Strings
  <2>4. Append(f[n], p[n + 1]) = f[n] \o <<p[n + 1]>>
    BY <2>3, AppendIsConcat DEF Strings
  <2>5. SubSeq(p, 1, n + 1) = SubSeq(p, 1, (n + 1) - 1) \o <<p[n + 1]>>
    <3>1. 1 \in 1 .. Len(p) /\ n + 1 \in 1 .. Len(p)
      BY <1>1, <2>1
    <3> QED
      BY <3>1, SubSeqRecursiveSecond DEF Strings
  <2> QED
    BY <2>1, <2>2, <2>4, <2>5
<1>5. Right = Nat
  <2> HIDE DEF Right
  <2>1. Right \in SUBSET Nat
    BY DEF Right
  <2> QED
    BY <1>3, <1>4, <2>1, Induct
<1>6. k \in Right
  BY <1>5
<1>7. f[k] = SubSeq(p, 1, k)
  BY <1>6
<1>8. SubSeq(p, 1, k) = p
  BY <1>1, SubSeqFull DEF Strings
<1> QED
  BY <1>1, <1>2, <1>7, <1>8, PlaceOf

-----------------------------------------------------------------------------
(* A path that begins with ".." has left the root: the loop shortens it and   *)
(* does not end.                                                            *)
OffRoot == pc = "parents" /\ Len(str) >= 2 /\ str[1] = ".."
OnWay ==
  /\ Place(str) = Place(file) /\ NoDot(str)
  /\ str # <<>> => Last(str) # ".."

PathIInv ==
  /\ file \in Strings /\ str \in Strings
  /\ pc \in {"parents", "done"} /\ Proper(file) => OffRoot \/ OnWay
  /\ pc = "done" => Parents(str) = {}

LEMMA FirstOf ==
  ASSUME Parents(str) # {}
  PROVE  FirstParent(str) \in Parents(str) /\ \A j \in Parents(str) : FirstParent(str) <= j
<1> DEFINE S == Parents(str)
<1>1. S \in SUBSET Nat
  BY DEF Parents
<1> HIDE DEF S
<1>2. Min(S) \in S /\ \A x \in S : Min(S) <= x
  BY <1>1, LeastOf DEF S
<1> QED
  BY <1>2 DEF Min, FirstParent, S

LEMMA PathInitially == PathInit => PathIInv
BY DEF PathInit, PathIInv, Strings

LEMMA PathCalled ==
  ASSUME PathIInv, CallPath
  PROVE  PathIInv'
<1>1. PICK p \in Strings : Called(p)
  <2>1. ASSUME NEW dir \in CurrentDirs, NEW r \in Relative PROVE dir \o r \in Strings
    <3>1. dir \in Seq(STRING) /\ r \in Seq(STRING)
      BY PathsAreParts
    <3> QED
      BY <3>1, ConcatProperties DEF Strings
  <2>2. Absolute \subseteq Strings
    BY PathsAreParts DEF Strings
  <2> QED
    BY <2>1, <2>2 DEF CallPath
<1>2. p \in Strings /\ file' = p /\ str' = WithoutDots(p)
  BY <1>1 DEF Called
<1>3. /\ WithoutDots(p) \in Strings
      /\ p = <<>> => WithoutDots(p) = <<>>
      /\ p # <<>> /\ Proper(p) =>
           /\ WithoutDots(p) # <<>> /\ Last(WithoutDots(p)) = Last(p)
           /\ NoDot(WithoutDots(p)) /\ Place(WithoutDots(p)) = Place(p)
  BY <1>2, DotsGo
<1>4. NoDot(<<>>)
  BY DEF NoDot
<1>5. ASSUME Proper(p)
      PROVE  /\ Place(WithoutDots(p)) = Place(p) /\ NoDot(WithoutDots(p))
             /\ WithoutDots(p) # <<>> => Last(WithoutDots(p)) # ".."
  <2>1. CASE p = <<>>
    BY <1>3, <1>4, <2>1
  <2>2. CASE p # <<>>
    BY <1>3, <1>5, <2>2 DEF Proper, NamesFile
  <2> QED
    BY <2>1, <2>2
<1> QED
  BY <1>2, <1>3, <1>5 DEF CallPath, PathIInv, OnWay, OffRoot

\* Without a name and the ".." behind it a path leads where it led.
LEMMA ParentGoes ==
  ASSUME NEW p \in Strings, NoDot(p), NEW i \in 2 .. Len(p) - 1, p[i] = "..", p[i - 1] # ".."
  PROVE  LET q == SubSeq(p, 1, i - 2) \o SubSeq(p, i + 1, Len(p)) IN
         q \in Strings /\ NoDot(q) /\ Place(q) = Place(p) /\ q # <<>> /\ Last(q) = Last(p)
<1>1. PICK k \in Nat : k = Len(p)
  BY DEF Strings
<1>2. PICK a \in Nat : a = i - 2
  OBVIOUS
<1>3. PICK b \in Nat : b = k - i /\ b > 0
  <2>1. k - i \in Nat /\ k - i > 0
    BY <1>1
  <2> QED
    BY <2>1
<1> DEFINE s1 == SubSeq(p, 1, a)
           s2 == SubSeq(p, i + 1, k)
           q == s1 \o s2
<1>4. \A n \in 1 .. k : p[n] \in STRING
  BY <1>1, ElementOfSeq DEF Strings
<1>5. s1 \in Seq(STRING) /\ Len(s1) = a /\ \A n \in 1 .. a : s1[n] = p[n]
  <2>1. \A n \in 1 .. a : p[n] \in STRING
    BY <1>1, <1>2, <1>4
  <2>2. /\ s1 \in Seq(STRING) /\ Len(s1) = IF 1 <= a THEN a - 1 + 1 ELSE 0
        /\ \A n \in 1 .. a - 1 + 1 : s1[n] = p[1 + n - 1]
    BY <2>1, SubSeqProperties
  <2>3. ASSUME NEW n \in 1 .. a PROVE s1[n] = p[n]
    <3>1. n \in 1 .. a - 1 + 1 /\ 1 + n - 1 = n
      OBVIOUS
    <3> QED
      BY <2>2, <3>1
  <2>4. Len(s1) = a
    BY <2>2
  <2> HIDE DEF s1
  <2> QED
    BY <2>2, <2>3, <2>4
<1>6. s2 \in Seq(STRING) /\ Len(s2) = b /\ \A n \in 1 .. b : s2[n] = p[i + n]
  <2>1. \A n \in i + 1 .. k : p[n] \in STRING
    BY <1>4
  <2>2. /\ s2 \in Seq(STRING) /\ Len(s2) = IF i + 1 <= k THEN k - (i + 1) + 1 ELSE 0
        /\ \A n \in 1 .. k - (i + 1) + 1 : s2[n] = p[(i + 1) + n - 1]
    BY <2>1, SubSeqProperties
  <2>3. ASSUME NEW n \in 1 .. b PROVE s2[n] = p[i + n]
    <3>1. n \in 1 .. k - (i + 1) + 1 /\ (i + 1) + n - 1 = i + n
      BY <1>3
    <3> QED
      BY <2>2, <3>1
  <2>4. Len(s2) = b
    BY <2>2, <1>3
  <2> HIDE DEF s2
  <2> QED
    BY <2>2, <2>3, <2>4
<1> HIDE DEF s1, s2
<1>7. /\ q \in Seq(STRING) /\ Len(q) = a + b
      /\ \A n \in 1 .. a + b : q[n] = IF n <= a THEN s1[n] ELSE s2[n - a]
  BY <1>5, <1>6, ConcatProperties
<1> HIDE DEF q
<1>8. ASSUME NEW n \in 1 .. a PROVE q[n] = p[n]
  BY <1>5, <1>7
<1>9. ASSUME NEW n \in 1 .. b PROVE q[a + n] = p[i + n]
  <2>1. a + n \in 1 .. a + b /\ ~(a + n <= a) /\ (a + n) - a = n
    OBVIOUS
  <2> QED
    BY <1>6, <1>7, <2>1
<1>10. PICK f : Leads(f, p)
  BY SomewhereLeads
<1>11. f[i] = f[a]
  <2>1. f[i - 1] = Walk(f[a], p[i - 1])
    <3>1. i - 1 \in 1 .. k /\ (i - 1) - 1 = a
      BY <1>1, <1>2
    <3> QED
      BY <1>1, <1>10, <3>1 DEF Leads
  <2>2. p[i - 1] \notin {".", NoPart} /\ f[a] \in Seq(STRING) /\ p[i - 1] \in STRING
    <3>1. i - 1 \in 1 .. k /\ a \in 0 .. k
      BY <1>1, <1>2
    <3> QED
      BY <1>1, <1>4, <1>10, <3>1 DEF Leads, NoDot, Strings
  <2>3. f[i - 1] = Append(f[a], p[i - 1])
    BY <2>1, <2>2 DEF Walk
  <2>4. f[i] = IF f[i - 1] = <<>> THEN <<>> ELSE Front(f[i - 1])
    <3>1. i \in 1 .. k
      BY <1>1
    <3> QED
      BY <1>1, <1>10, <3>1, NoPartIsNoDots DEF Leads, Walk
  <2>5. Front(Append(f[a], p[i - 1])) = f[a] /\ Append(f[a], p[i - 1]) # <<>>
    <3>1. PICK r \in Seq(STRING) : r = f[a]
      BY <2>2
    <3>2. PICK e \in STRING : e = p[i - 1]
      BY <2>2
    <3>3. /\ Append(r, e) \in Seq(STRING) /\ Append(r, e) # <<>> /\ Len(Append(r, e)) = Len(r) + 1
          /\ \A n \in 1 .. Len(r) : Append(r, e)[n] = r[n]
      BY AppendProperties
    <3>4. SubSeq(Append(r, e), 1, Len(r)) = r
      <4>1. PICK c \in Nat : c = Len(r)
        OBVIOUS
      <4> DEFINE w == Append(r, e)
                 t == SubSeq(w, 1, c)
      <4>2. \A n \in 1 .. c : w[n] \in STRING
        BY <3>3, <4>1
      <4> HIDE DEF w
      <4>3. /\ t \in Seq(STRING) /\ Len(t) = IF 1 <= c THEN c - 1 + 1 ELSE 0
            /\ \A n \in 1 .. c - 1 + 1 : t[n] = w[1 + n - 1]
        BY <4>2, SubSeqProperties
      <4>4. Len(t) = c
        BY <4>3
      <4>5. ASSUME NEW n \in 1 .. c PROVE t[n] = r[n]
        <5>1. n \in 1 .. c - 1 + 1 /\ 1 + n - 1 = n
          OBVIOUS
        <5> QED
          BY <3>3, <4>1, <4>3, <5>1 DEF w
      <4> HIDE DEF t
      <4>6. t = r
        BY <4>1, <4>3, <4>4, <4>5, SeqEqual
      <4> QED
        BY <4>1, <4>6 DEF t, w
    <3>5. Len(Append(r, e)) - 1 = Len(r)
      BY <3>3
    <3>6. Front(Append(r, e)) = r
      BY <3>4, <3>5 DEF Front
    <3> QED
      BY <3>1, <3>2, <3>3, <3>6
  <2> QED
    BY <2>3, <2>4, <2>5
<1> DEFINE g == [n \in 0 .. a + b |-> IF n <= a THEN f[n] ELSE f[n + 2]]
<1>12. ASSUME NEW n \in 0 .. a PROVE g[n] = f[n]
  OBVIOUS
<1>13. ASSUME NEW n \in 0 .. b PROVE g[a + n] = f[i + n]
  <2>1. CASE n = 0
    BY <1>11, <2>1
  <2>2. CASE n > 0
    <3>1. ~(a + n <= a) /\ (a + n) + 2 = i + n /\ a + n \in 0 .. a + b
      BY <1>2, <2>2
    <3> QED
      BY <3>1
  <2> QED
    BY <2>1, <2>2
<1>14. g \in [0 .. a + b -> Strings]
  <2>1. ASSUME NEW n \in 0 .. a + b PROVE (IF n <= a THEN f[n] ELSE f[n + 2]) \in Strings
    <3>1. n \in 0 .. k /\ n + 2 \in 0 .. k
      BY <1>1, <1>2, <1>3
    <3> QED
      BY <1>1, <1>10, <3>1 DEF Leads
  <2> QED
    BY <2>1
<1> HIDE DEF g
<1>15. ASSUME NEW n \in 1 .. a + b PROVE g[n] = Walk(g[n - 1], q[n])
  <2>1. CASE n <= a
    <3>1. n \in 1 .. k /\ n \in 0 .. a /\ n - 1 \in 0 .. a /\ n \in 1 .. a
      BY <1>1, <1>2, <2>1
    <3>2. f[n] = Walk(f[n - 1], p[n])
      BY <1>1, <1>10, <3>1 DEF Leads
    <3> QED
      BY <1>8, <1>12, <3>1, <3>2
  <2>2. CASE n > a
    <3>1. PICK m \in 1 .. b : n = a + m
      <4>1. n - a \in 1 .. b /\ n = a + (n - a)
        BY <2>2
      <4> QED
        BY <4>1
    <3>2. i + m \in 1 .. k /\ (i + m) - 1 = i + (m - 1)
      BY <1>1, <1>3
    <3>3. f[i + m] = Walk(f[i + (m - 1)], p[i + m])
      BY <1>1, <1>10, <3>2 DEF Leads
    <3>4. m \in 0 .. b /\ m - 1 \in 0 .. b /\ n - 1 = a + (m - 1)
      BY <3>1
    <3>5. g[n] = f[i + m] /\ g[n - 1] = f[i + (m - 1)] /\ q[n] = p[i + m]
      BY <1>9, <1>13, <3>1, <3>4
    <3> QED
      BY <3>3, <3>5
  <2> QED
    BY <2>1, <2>2
<1>16. g[0] = <<>>
  BY <1>10, <1>12 DEF Leads
<1>17. Leads(g, q)
  BY <1>7, <1>14, <1>15, <1>16 DEF Leads
<1>18. Place(q) = f[k]
  <2>1. Place(q) = g[a + b]
    BY <1>7, <1>17, PlaceOf DEF Strings
  <2>2. b \in 0 .. b /\ i + b = k
    BY <1>1, <1>3
  <2> QED
    BY <1>13, <2>1, <2>2
<1>19. Place(p) = f[k]
  BY <1>1, <1>10, PlaceOf
<1>20. NoDot(q)
  <2>1. ASSUME NEW n \in 1 .. a + b PROVE q[n] \notin {".", NoPart}
    <3>1. CASE n <= a
      BY <1>1, <1>2, <1>8, <3>1 DEF NoDot
    <3>2. CASE n > a
      <4>1. n - a \in 1 .. b /\ a + (n - a) = n /\ i + (n - a) \in 1 .. Len(p)
        BY <1>1, <1>3, <3>2
      <4>2. q[n] = p[i + (n - a)]
        BY <1>9, <4>1
      <4> QED
        BY <4>1, <4>2 DEF NoDot
    <3> QED
      BY <3>1, <3>2
  <2> QED
    BY <2>1, <1>7 DEF NoDot
<1>21. q # <<>> /\ Last(q) = Last(p)
  <2>1. b \in 1 .. b /\ i + b = k
    BY <1>1, <1>3
  <2>2. q[a + b] = p[k]
    BY <1>9, <2>1
  <2>3. Len(q) # 0
    BY <1>7, <1>3
  <2> QED
    BY <1>1, <1>7, <2>2, <2>3 DEF Last
<1>22. q = SubSeq(p, 1, i - 2) \o SubSeq(p, i + 1, Len(p))
  BY <1>1, <1>2 DEF q, s1, s2
<1> QED
  BY <1>7, <1>18, <1>19, <1>20, <1>21, <1>22 DEF Strings

LEMMA ParentKeeps ==
  ASSUME PathIInv, RemoveParent
  PROVE  PathIInv'
<1> DEFINE i == FirstParent(str)
<1>1. /\ i \in Parents(str) /\ (\A j \in Parents(str) : i <= j) /\ i > 1
      /\ str' = SubSeq(str, 1, i - 2) \o SubSeq(str, i + 1, Len(str))
      /\ UNCHANGED <<file, pc>> /\ pc = "parents" /\ str \in Strings /\ file \in Strings
  <2>1. Parents(str) # {} /\ FirstParent(str) > 1
    BY DEF RemoveParent
  <2> QED
    BY <2>1, FirstOf DEF RemoveParent, PathIInv
<1>2. PICK k \in Nat : k = Len(str)
  BY <1>1 DEF Strings
<1>3. DOMAIN str = 1 .. k
  BY <1>1, <1>2, LenProperties DEF Strings
<1> HIDE DEF i
<1>4. i \in 2 .. k - 1 /\ str[i] = ".."
  BY <1>1, <1>2, <1>3 DEF Parents
<1>5. str' \in Strings
  <2>1. \A n \in 1 .. i - 2 : str[n] \in STRING
    BY <1>1, <1>2, <1>4, ElementOfSeq DEF Strings
  <2>2. \A n \in i + 1 .. k : str[n] \in STRING
    BY <1>1, <1>2, <1>4, ElementOfSeq DEF Strings
  <2>3. SubSeq(str, 1, i - 2) \in Seq(STRING)
    BY <1>4, <2>1, SubSeqProperties
  <2>4. SubSeq(str, i + 1, k) \in Seq(STRING)
    BY <1>4, <2>2, SubSeqProperties
  <2> QED
    BY <1>1, <1>2, <2>3, <2>4, ConcatProperties DEF Strings
<1>6. ASSUME Proper(file) PROVE OnWay'
  <2>1. str[i - 1] # ".."
    <3>1. i - 1 \in 1 .. k /\ i - 1 < k /\ i - 1 < i
      BY <1>4
    <3>2. i - 1 \notin Parents(str)
      BY <1>1, <1>4, <3>1
    <3> QED
      BY <1>2, <1>3, <3>1, <3>2 DEF Parents
  <2>2. ~OffRoot
    <3> SUFFICES ASSUME OffRoot PROVE FALSE
      OBVIOUS
    <3>1. 1 \in Parents(str)
      BY <1>2, <1>3 DEF Parents, OffRoot
    <3> QED
      BY <1>1, <1>4, <3>1
  <2>3. OnWay
    BY <1>1, <1>6, <2>2 DEF PathIInv
  <2>4. i \in 2 .. Len(str) - 1
    BY <1>2, <1>4
  <2>5. LET q == SubSeq(str, 1, i - 2) \o SubSeq(str, i + 1, Len(str)) IN
         q \in Strings /\ NoDot(q) /\ Place(q) = Place(str) /\ q # <<>> /\ Last(q) = Last(str)
    BY <1>1, <1>4, <2>1, <2>3, <2>4, ParentGoes DEF OnWay
  <2>6. NoDot(str') /\ Place(str') = Place(str) /\ Last(str') = Last(str)
    BY <1>1, <2>5
  <2>7. str # <<>>
    BY <1>2, <1>4
  <2> QED
    BY <1>1, <2>3, <2>6, <2>7 DEF OnWay
<1> QED
  BY <1>1, <1>5, <1>6 DEF PathIInv

LEMMA RootKeeps ==
  ASSUME PathIInv, AboveRoot
  PROVE  PathIInv'
<1>1. /\ Parents(str) # {} /\ FirstParent(str) = 1 /\ pc = "parents"
      /\ str' = (IF Len(str) = 2 THEN str ELSE Front(str))
      /\ UNCHANGED <<file, pc>> /\ str \in Strings /\ file \in Strings
  BY DEF AboveRoot, PathIInv
<1>2. PICK k \in Nat : k = Len(str)
  BY <1>1 DEF Strings
<1>3. k >= 2 /\ str[1] = ".."
  <2>1. 1 \in Parents(str)
    BY <1>1, FirstOf
  <2> QED
    BY <2>1, <1>2 DEF Parents
<1>4. Front(str) \in Strings /\ Len(Front(str)) = k - 1 /\ Front(str)[1] = str[1]
  <2> DEFINE t == SubSeq(str, 1, k - 1)
  <2>1. \A n \in 1 .. k - 1 : str[n] \in STRING
    BY <1>1, <1>2, ElementOfSeq DEF Strings
  <2>2. /\ t \in Seq(STRING) /\ Len(t) = IF 1 <= k - 1 THEN (k - 1) - 1 + 1 ELSE 0
        /\ \A n \in 1 .. (k - 1) - 1 + 1 : t[n] = str[1 + n - 1]
    BY <1>3, <2>1, SubSeqProperties
  <2>3. 1 \in 1 .. (k - 1) - 1 + 1 /\ 1 + 1 - 1 = 1 /\ 1 <= k - 1 /\ (k - 1) - 1 + 1 = k - 1
    BY <1>3
  <2>4. t[1] = str[1] /\ Len(t) = k - 1
    BY <2>2, <2>3
  <2> HIDE DEF t
  <2> QED
    BY <1>2, <2>2, <2>4 DEF t, Front, Strings
<1>5. str' \in Strings /\ Len(str') >= 2 /\ str'[1] = ".."
  <2>1. CASE k = 2
    BY <1>1, <1>2, <1>3, <2>1
  <2>2. CASE k # 2
    BY <1>1, <1>2, <1>3, <1>4, <2>2
  <2> QED
    BY <2>1, <2>2
<1> QED
  BY <1>1, <1>5 DEF PathIInv, OffRoot

\* The name that is remembered is that of the place the path leads to: one file has
\* one name, whatever dots it is written with, for paths of any length in which no two
\* slashes meet.
THEOREM NamesAreOne == PathSpec => []OneNamePerFile
<1>1. PathInit => PathIInv
  BY PathInitially
<1>2. PathIInv /\ [PathNext]_pathVars => PathIInv'
  <2> SUFFICES ASSUME PathIInv, [PathNext]_pathVars PROVE PathIInv'
    OBVIOUS
  <2>1. CASE CallPath
    BY <2>1, PathCalled
  <2>2. CASE RemoveParent
    BY <2>2, ParentKeeps
  <2>3. CASE AboveRoot
    BY <2>3, RootKeeps
  <2>4. CASE ReturnPath
    <3>1. UNCHANGED <<file, str>> /\ pc' = "done" /\ pc = "parents" /\ Parents(str) = {}
      BY <2>4 DEF ReturnPath
    <3>2. ~OffRoot
      <4> SUFFICES ASSUME OffRoot PROVE FALSE
        OBVIOUS
      <4>1. DOMAIN str = 1 .. Len(str)
        BY LenProperties DEF PathIInv, Strings
      <4> QED
        BY <3>1, <4>1 DEF OffRoot, Parents
    <3> QED
      BY <3>1, <3>2 DEF PathIInv, OffRoot, OnWay
  <2>5. CASE UNCHANGED pathVars
    BY <2>5 DEF pathVars, PathIInv, OffRoot, OnWay
  <2> QED
    BY <2>1, <2>2, <2>3, <2>4, <2>5 DEF PathNext, Turn
<1>3. PathIInv => OneNamePerFile
  <2> SUFFICES ASSUME PathIInv, pc = "done", Proper(file) PROVE str = Place(file)
    BY DEF OneNamePerFile, Proper
  <2>1. OnWay /\ Parents(str) = {} /\ str \in Strings
    BY DEF PathIInv, OffRoot
  <2>2. PICK k \in Nat : k = Len(str)
    BY <2>1 DEF Strings
  <2>3. DOMAIN str = 1 .. k
    BY <2>1, <2>2, LenProperties DEF Strings
  <2>4. ASSUME NEW i \in 1 .. k PROVE str[i] \notin {".", "..", NoPart}
    <3>1. str[i] \notin {".", NoPart}
      BY <2>1, <2>2 DEF OnWay, NoDot
    <3>2. CASE i < k
      BY <2>1, <2>2, <2>3, <3>1, <3>2 DEF Parents
    <3>3. CASE i = k
      <4>1. str # <<>>
        BY <2>2, <3>3
      <4> QED
        BY <2>1, <2>2, <3>1, <3>3, <4>1 DEF OnWay, Last
    <3> QED
      BY <3>2, <3>3
  <2>5. Place(str) = str
    BY <2>1, <2>2, <2>4, PlaceOfNames
  <2> QED
    BY <2>1, <2>5 DEF OnWay
<1> QED
  BY <1>1, <1>2, <1>3, PTL DEF PathSpec
=============================================================================
