----------------------------- MODULE AppContext -----------------------------
(***************************************************************************)
(* The application state container of src/main/ui/src/AppContext.tsx:     *)
(* the reducer state held by useReducer, the Dispatcher whose four methods *)
(* write localStorage and then dispatch, and initialState(), which rebuilds *)
(* the state from localStorage when the page is (re)loaded.                *)
(*                                                                         *)
(* Data is abstracted: index, field and JSON-buffer values are model       *)
(* values; an index status snapshot is the record [of |-> i] naming the    *)
(* index it was fetched for, and NoStatus is the default {}.               *)
(***************************************************************************)
EXTENDS Naturals

CONSTANTS
    Indices,     \* index names an operator can select
    Fields,      \* field names
    Jsons,       \* contents of the indexJson buffer ("" is the default)
    QueryTexts,  \* contents of the queryJson buffer
    EmptyQuery,  \* the default '' of queryJson
    Undefined,   \* the JavaScript value undefined
    Absent,      \* localStorage.getItem returned null: no such key
    NoStatus,    \* the default selectedIndexStatus {}
    Err          \* an error message (all error texts are one value)

ASSUME "" \in Jsons /\ EmptyQuery \in QueryTexts

VARIABLES
    app,         \* the current reducer state object (StateType)
    store        \* localStorage: key -> stored string, or Absent

acVars == <<app, store>>

(* enum Views *)
Views == {"INDICES", "FIELDS", "INGEST", "QUERY"}

(* enum Actions: the action tags double as the localStorage keys *)
Keys == {"SELECT_VIEW", "SELECT_INDEX", "SELECT_FIELD", "SET_INDEX_JSON"}

(* selectedIndex / selectedField values; "" is written by the panels *)
IndexValue == Indices \cup {"", Undefined}
FieldValue == Fields \cup {"", Undefined}
Status == [of : Indices] \cup {NoStatus}
StoredValue == Views \cup Indices \cup Fields \cup Jsons \cup {""}

StateType ==
    [selectedView : Views, selectedIndex : IndexValue,
     selectedIndexStatus : Status, selectedField : FieldValue,
     indexJson : Jsons, queryJson : QueryTexts, error : {"", Err}]

(* defaultState *)
defaultState ==
    [selectedView |-> "INDICES", selectedIndex |-> Undefined,
     selectedIndexStatus |-> NoStatus, selectedField |-> Undefined,
     indexJson |-> "", queryJson |-> EmptyQuery, error |-> ""]

(* The null check of initialState() dropped: a missing key overwrites   *)
(* the default with null.                                                *)
OverlayUnchecked(v, key) == store[key]

(* initialState(): overlay every stored key on the default state *)
Overlay(v, key) == IF store[key] = Absent THEN v ELSE store[key]

initialState ==
    [defaultState EXCEPT
        !.selectedView  = Overlay(@, "SELECT_VIEW"),
        !.selectedIndex = Overlay(@, "SELECT_INDEX"),
        !.selectedField = Overlay(@, "SELECT_FIELD"),
        !.indexJson     = Overlay(@, "SET_INDEX_JSON")]

(* reducer(state, action): a new state object with the action's fields  *)
reducer(s, action) ==
    CASE action.type = "SELECT_INDEX" ->
            [s EXCEPT !.selectedIndex = action.index,
                      !.selectedIndexStatus = action.status]
      [] action.type = "SELECT_VIEW" -> [s EXCEPT !.selectedView = action.view]
      [] action.type = "SELECT_FIELD" -> [s EXCEPT !.selectedField = action.field]
      [] action.type = "SET_INDEX_JSON" -> [s EXCEPT !.indexJson = action.indexJson]

(* setItem when the value is defined, removeItem when it is undefined *)
SetOrRemove(key, v) ==
    [store EXCEPT ![key] = IF v # Undefined THEN v ELSE Absent]

(***************************************************************************)
(* The Dispatcher methods: each writes localStorage, then dispatches.     *)
(***************************************************************************)
selectView(view) ==
    /\ store' = [store EXCEPT !["SELECT_VIEW"] = view]
    /\ app' = reducer(app, [type |-> "SELECT_VIEW", view |-> view])

selectIndex(index, status) ==
    /\ store' = SetOrRemove("SELECT_INDEX", index)
    /\ app' = reducer(app, [type |-> "SELECT_INDEX", index |-> index,
                            status |-> status])

(* selectField with the localStorage write forgotten *)
selectFieldUnsaved(field) ==
    /\ app' = reducer(app, [type |-> "SELECT_FIELD", field |-> field])
    /\ UNCHANGED store

selectField(field) ==
    /\ store' = SetOrRemove("SELECT_FIELD", field)
    /\ app' = reducer(app, [type |-> "SELECT_FIELD", field |-> field])

setIndexJson(indexJson) ==
    /\ store' = [store EXCEPT !["SET_INDEX_JSON"] = indexJson]
    /\ app' = reducer(app, [type |-> "SET_INDEX_JSON", indexJson |-> indexJson])

(* The page is reloaded: useReducer(reducer, initialState()) runs again. *)
Reload ==
    /\ app' = initialState
    /\ UNCHANGED store

(* A fresh browser profile: nothing stored yet. *)
Init ==
    /\ store = [k \in Keys |-> Absent]
    /\ app = defaultState

(***************************************************************************)
(* Every call the panels make, with the arguments they pass: Navbar        *)
(* selects a view, IndexList selects an index with the status fetched for  *)
(* it, FieldTable selects a field, IngestView stores the re-serialised     *)
(* (hence non-empty) buffer.  No caller passes undefined, so removeItem is *)
(* not reached from this program.                                          *)
(***************************************************************************)
Next ==
    \/ \E v \in Views : selectView(v)
    \/ \E i \in Indices : selectIndex(i, [of |-> i])
    \/ \E f \in Fields : selectField(f)
    \/ \E j \in Jsons \ {""} : setIndexJson(j)
    \/ Reload

Spec == Init /\ [][Next]_acVars

TypeOK ==
    /\ app \in StateType
    /\ store \in [Keys -> StoredValue \cup {Absent}]

(* The four persisted fields of a state object. *)
Persisted(s) ==
    [view |-> s.selectedView, index |-> s.selectedIndex,
     field |-> s.selectedField, indexJson |-> s.indexJson]

(* Reloading the page now would rebuild exactly the four persisted fields *)
(* the operator sees: every write of them reached localStorage (spec.md   *)
(* section 8, first property).                                            *)
ReloadFaithful == Persisted(initialState) = Persisted(app)

(***************************************************************************)
(* Refinement: the container implements AbstractPrefs, whose preferences  *)
(* are the four persisted fields of the current state object and whose    *)
(* session status is selectedIndexStatus.  A page reload must be a        *)
(* Restart: no preference changes, the status is forgotten.               *)
(***************************************************************************)
Abstract == INSTANCE AbstractPrefs
    WITH prefs <- Persisted(app), session <- app.selectedIndexStatus

(* The Dispatcher and initialState() together keep the abstract promise. *)
PrefsRefinement == Abstract!Spec

=============================================================================
