---------------------------- MODULE AbstractPrefs ----------------------------
(***************************************************************************)
(* What the state container promises (spec.md sections 3 and 4.1): four   *)
(* preferences that survive a restart and hold the last value the          *)
(* operator chose, and a session-only index status that a restart resets. *)
(***************************************************************************)
CONSTANTS Views, IndexValue, FieldValue, Jsons, Status, Undefined, NoStatus

VARIABLES
    prefs,      \* [view, index, field, indexJson]
    session     \* the status of the selected index, not persisted

prefVars == <<prefs, session>>

Prefs == [view : Views, index : IndexValue, field : FieldValue,
          indexJson : Jsons]

Init ==
    /\ prefs = [view |-> "INDICES", index |-> Undefined,
                field |-> Undefined, indexJson |-> ""]
    /\ session = NoStatus

(* The operator changes one preference; choosing an index also replaces  *)
(* its status.                                                            *)
Choose ==
    \/ \E v \in Views : prefs' = [prefs EXCEPT !.view = v] /\ UNCHANGED session
    \/ \E f \in FieldValue : prefs' = [prefs EXCEPT !.field = f] /\ UNCHANGED session
    \/ \E j \in Jsons : prefs' = [prefs EXCEPT !.indexJson = j] /\ UNCHANGED session
    \/ \E i \in IndexValue, s \in Status :
          prefs' = [prefs EXCEPT !.index = i] /\ session' = s

(* A restart keeps every preference and forgets the status. *)
Restart ==
    /\ UNCHANGED prefs
    /\ session' = NoStatus

Next == Choose \/ Restart

Spec == Init /\ [][Next]_prefVars

=============================================================================
