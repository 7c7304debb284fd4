----------------------------- MODULE ScriptPaths -----------------------------
(***************************************************************************)
(* GetAbsolutePath (3rd/scriptbuilder): the name under which CScriptBuilder *)
(* remembers a file.  A path from the root is the sequence of what stands   *)
(* behind each of its slashes, "." and ".." and, where two slashes meet, "" *)
(* among it; str is the path the function works on, and each turn of its    *)
(* last loop is an action.                                                  *)
(***************************************************************************)
EXTENDS Integers, Sequences, SequencesExt

CONSTANTS
  CurrentDirs, \* what GetCurrentDir may return; the root is "/", which is <<"">>
  Relative,    \* paths a host or an #include may name, in the current directory
  Absolute     \* the same from the root

ASSUME PathsAreParts ==
  Relative \cup Absolute \cup CurrentDirs \subseteq Seq(STRING)

VARIABLES
  file,       \* the argument, as the parts from the root
  str, pc

pathVars == <<file, str, pc>>

-----------------------------------------------------------------------------
\* "/./": a last part that is "." has no slash behind it.
WithoutDots(p) ==
  LET kept[n \in 0 .. Len(p)] ==
        IF n = 0 THEN <<>>
        ELSE IF p[n] = "." /\ n < Len(p) THEN kept[n - 1]
        ELSE Append(kept[n - 1], p[n])
  IN kept[Len(p)]

\* "/../" as well.
Parents(p) == {i \in DOMAIN p : p[i] = ".." /\ i < Len(p)}
FirstParent(p) == CHOOSE i \in Parents(p) : \A j \in Parents(p) : i <= j

Called(p) == file' = p /\ str' = WithoutDots(p)
\* A relative path is put behind GetCurrentDir() + "/".
CallPath ==
  /\ pc = "call"
  /\ \/ \E p \in Absolute : Called(p)
     \/ \E dir \in CurrentDirs, r \in Relative : Called(dir \o r)
  /\ pc' = "parents"

\* Only the ".." goes.
RemoveParent_Part ==
  /\ pc = "parents" /\ Parents(str) # {} /\ FirstParent(str) > 1
  /\ str' = RemoveAt(str, FirstParent(str))
  /\ UNCHANGED <<file, pc>>

\* Only the name goes.
RemoveParent_Name ==
  /\ pc = "parents" /\ Parents(str) # {} /\ FirstParent(str) > 1
  /\ str' = RemoveAt(str, FirstParent(str) - 1)
  /\ UNCHANGED <<file, pc>>

\* "/name/.." goes.
RemoveParent ==
  /\ pc = "parents" /\ Parents(str) # {} /\ FirstParent(str) > 1
  /\ LET i == FirstParent(str) IN str' = SubSeq(str, 1, i - 2) \o SubSeq(str, i + 1, Len(str))
  /\ UNCHANGED <<file, pc>>

(* A ".." at the root: rfind starts at pos - 1, the largest size_t, and finds *)
(* the last slash of all.  The count that is erased from there on is          *)
(* negative, which is everything, or zero when the last slash is the second.  *)
AboveRoot ==
  /\ pc = "parents" /\ Parents(str) # {} /\ FirstParent(str) = 1
  /\ str' = IF Len(str) = 2 THEN str ELSE Front(str)
  /\ UNCHANGED <<file, pc>>

ReturnPath ==
  /\ pc = "parents" /\ Parents(str) = {}
  /\ pc' = "done" /\ UNCHANGED <<file, str>>

PathInit == file = <<>> /\ str = <<>> /\ pc = "call"
Turn == RemoveParent \/ AboveRoot \/ ReturnPath
PathNext == CallPath \/ Turn
\* The function runs on.
PathSpec == PathInit /\ [][PathNext]_pathVars /\ WF_pathVars(Turn)

-----------------------------------------------------------------------------
\* What is between two slashes that meet.
NoPart == ""

\* Where a path leads: the directories that are entered and not left.
Walk(dir, part) ==
  IF part \in {".", NoPart} THEN dir
  ELSE IF part = ".." THEN (IF dir = <<>> THEN <<>> ELSE Front(dir))
  ELSE Append(dir, part)
Place(p) ==
  LET at[n \in 0 .. Len(p)] == IF n = 0 THEN <<>> ELSE Walk(at[n - 1], p[n])
  IN at[Len(p)]

\* A path that never leaves the root.
BelowRoot(p) ==
  \A n \in DOMAIN p : p[n] = ".." => Place(SubSeq(p, 1, n - 1)) # <<>>
\* The name of a file is no dots.
NamesFile(p) == Last(p) \notin {".", "..", NoPart}
\* Two slashes do not meet; they do where the current directory is the root.
NoneEmpty(p) == \A i \in 1 .. Len(p) : p[i] # NoPart

-----------------------------------------------------------------------------
\* The name that is remembered is that of the place the path leads to, so a file has
\* one name (includedScripts holds it once), with whatever dots it is written; but for
\* paths in which two slashes meet.
OneNamePerFile == pc = "done" /\ NamesFile(file) /\ NoneEmpty(file) => str = Place(file)

\* Not kept where two slashes meet (a known deviation).
\* "The file name stored in the set should be the fully resolved name": of every path.
FullyResolved == pc = "done" /\ NamesFile(file) => str = Place(file)

\* Of a path that stays below the root the function finds the name.
Resolves == pc = "parents" /\ BelowRoot(file) ~> pc = "done"

\* Not kept for the others (a known deviation).
\* "The path is invalid": the function leaves its loop for a path that does not.
Ends == pc = "parents" ~> pc = "done"
=============================================================================
