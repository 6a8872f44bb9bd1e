------------------------------- MODULE DiscLog -------------------------------
(***************************************************************************)
(* The disc state log (internal/stage/disclog.go): the replayed record of  *)
(* one disc, and the replay table that says which event each state         *)
(* permits.  The log of the repository is a function from discs to these   *)
(* records; UnknownDisc is the record of a disc with no event.             *)
(***************************************************************************)

DiscStates == {"unknown", "packed", "undone", "burned", "verified",
               "on disc only", "lost", "missing"}

(***************************************************************************)
(* DiscInfo keeps the fields that a decision of the program reads:         *)
(*   before   - the state before Lost while the disc is lost               *)
(*   numbered - a Packed event gave the disc its number and run            *)
(*   found    - the newest event is LostUndone                             *)
(*   failed   - the newest check failed (LastCheck = CheckResultFailed)    *)
(* Times, labels and the close flag decide nothing and are left out.       *)
(***************************************************************************)
DiscInfo == [state : DiscStates, before : DiscStates, numbered : BOOLEAN,
             found : BOOLEAN, failed : BOOLEAN]

UnknownDisc == [state |-> "unknown", before |-> "unknown", numbered |-> FALSE,
                found |-> FALSE, failed |-> FALSE]

\* The replay table, without LostUndone, as triples <<event, from, to>>.
Moves ==
  { <<"Packed", "unknown", "packed">>,
    <<"PackUndone", "packed", "undone">>,
    <<"BurnRecorded", "packed", "burned">>,
    <<"BurnRemoved", "burned", "packed">>,
    <<"CheckOK", "burned", "verified">>,
    <<"CheckOK", "verified", "verified">>,
    <<"CheckOK", "on disc only", "on disc only">>,
    <<"CheckFailed", "verified", "burned">>,
    <<"CheckFailed", "burned", "packed">>,
    <<"CheckFailed", "packed", "packed">>,
    <<"CheckFailed", "on disc only", "on disc only">>,
    <<"MarkedVerified", "burned", "verified">>,
    <<"VerifyUndone", "verified", "burned">>,
    <<"Freed", "verified", "on disc only">>,
    <<"Recovered", "unknown", "on disc only">>,
    <<"Recovered", "missing", "on disc only">>,
    <<"NamedMissing", "unknown", "missing">> }
  \cup {<<"Lost", s, "lost">> :
          s \in {"packed", "burned", "verified", "on disc only", "missing"}}

\* LostUndone depends on the state before Lost: <<before, to>>.
FoundMoves == { <<"verified", "burned">>,
                <<"on disc only", "on disc only">>,
                <<"missing", "missing">> }

\* DiscTransition: the states event e can give the disc d, at most one.
Targets(d, e) ==
  {t \in DiscStates :
     \/ <<e, d.state, t>> \in Moves
     \/ e = "LostUndone" /\ d.state = "lost" /\ <<d.before, t>> \in FoundMoves}

Permits(d, e) == Targets(d, e) # {}

\* DiscInfo.apply: the record of d after the event e, which d permits.
Apply(d, e) ==
  [state    |-> CHOOSE t \in DiscStates : t \in Targets(d, e),
   before   |-> CASE e = "Lost" -> d.state
                  [] e = "LostUndone" -> "unknown"
                  [] OTHER -> d.before,
   numbered |-> d.numbered \/ e = "Packed",
   found    |-> e = "LostUndone",
   failed   |-> CASE e = "CheckFailed" -> TRUE
                  [] e \in {"CheckOK", "MarkedVerified"} -> FALSE
                  [] OTHER -> d.failed]
=============================================================================
