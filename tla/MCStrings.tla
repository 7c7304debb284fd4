------------------------------ MODULE MCStrings ------------------------------
(***************************************************************************)
(* The string add-on: its factory, split and join, and the functions that   *)
(* format and parse integers.  A behaviour is of one of them while the      *)
(* others rest.                                                             *)
(*                                                                          *)
(* Two threads, each with an engine, that share constants.  All strings of  *)
(* up to five characters, split by delimiters that can overlap themselves   *)
(* and by ones that cannot.  Every integer of five bits, which hexadecimal  *)
(* digits overflow, with every combination of options.                      *)
(***************************************************************************)
EXTENDS StringFactory, StringSplit, StringNumbers

OneOrTwo == {<<",">>, <<",", ",">>, <<",", "a">>}

\* The process has ended before any engine registered strings; a number in a base
\* that is not accepted was parsed.
FactoryRests ==
  /\ stringFactory = None /\ made = {} /\ deleted = {} /\ over = TRUE
  /\ uses = [t \in Threads |-> None]
  /\ cache = [f \in Factories |-> [s \in Strings |-> 0]]
  /\ points = [c \in Constants |-> None]
  /\ lock = None
  /\ pc = [t \in Threads |-> "unregistered"]
  /\ doing = [t \in Threads |-> None]
  /\ want = [t \in Threads |-> CHOOSE s \in Strings : TRUE]
  /\ found = [t \in Threads |-> FALSE] /\ failed = FALSE
NumbersRest ==
  /\ kind = "uint" /\ value = 0 /\ options = {} /\ text = <<"0">> /\ base = 2
  /\ end = 0 /\ sign = FALSE /\ res = 0 /\ byteCount = 0 /\ stage = "parsed"

FactoryStep == SplitInit /\ NumbersRest /\ Next /\ UNCHANGED <<splitVars, numberVars>>
ProceedAlone(t) == Proceed(t) /\ UNCHANGED <<splitVars, numberVars>>
SplitStep == FactoryRests /\ NumbersRest /\ SplitNext /\ UNCHANGED <<vars, numberVars>>
TurnAlone == Turn /\ UNCHANGED <<vars, numberVars>>
NumberStep == NumberNext /\ UNCHANGED <<vars, splitVars>>

MCInit ==
  \/ Init /\ SplitInit /\ NumbersRest
  \/ SplitInit /\ FactoryRests /\ NumbersRest
  \/ NumberInit /\ SplitInit /\ FactoryRests
MCNext == FactoryStep \/ SplitStep \/ NumberStep

MCSpec ==
  /\ MCInit /\ [][MCNext]_<<vars, splitVars, numberVars>>
  /\ WF_<<vars, splitVars, numberVars>>(TurnAlone)
  /\ \A t \in Threads :
       /\ WF_<<vars, splitVars, numberVars>>(ProceedAlone(t))
       /\ SF_<<vars, splitVars, numberVars>>(ProceedAlone(t) /\ AcquireExclusiveLock(t))

\* Every call of the factory returns, however threads wait for each other, and so
\* does split.
EverythingEnds == CallsReturn /\ SplitReturns
=============================================================================
