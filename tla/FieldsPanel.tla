----------------------------- MODULE FieldsPanel ----------------------------
(***************************************************************************)
(* The FIELDS view, FieldsTable.tsx, over the AppContext container.       *)
(*                                                                         *)
(* FieldsTable calls doFetchFields() in its function body (line 57), and  *)
(* doFetchFields calls startTask(), whose setSpinning(true) is a state     *)
(* update of the component being rendered.  React answers a render-phase  *)
(* update by running the function body again at once, before committing;  *)
(* every run issues another GET /{index}/fields and schedules the update  *)
(* again: the first run and RE_RENDER_LIMIT (25) re-runs each fetch,     *)
(* then React throws "Too many re-renders" and nothing commits.  With no  *)
(* error boundary in the sources, the uncaught error unmounts the whole   *)
(* React root (the Navbar and every view with it): no view is left to     *)
(* select anything, and the answers reach the setters of an unmounted     *)
(* component, which do nothing.  A render with no selected index returns  *)
(* null and commits.                                                      *)
(*                                                                         *)
(* Since their callbacks are no-ops, the fetches are a count.             *)
(***************************************************************************)
EXTENDS Naturals

CONSTANTS
    Indices, Fields, Jsons, QueryTexts, EmptyQuery, Undefined, Absent, NoStatus, Err,
    ReRenderLimit,  \* React's RE_RENDER_LIMIT
    MaxClicks       \* selections made from other views

VARIABLES
    app, store,  \* the container (AppContext)
    fp,          \* FieldsTable: mounted (the root alive), a render pending, the committed
                 \* selectedIndex (the useEffect dependency), its hooks
    pending,     \* GET /{index}/fields requests not yet settled
    clicks

vars == <<app, store, fp, pending, clicks>>

AC == INSTANCE AppContext

NoIndex == {"", Undefined}

(* useState initial values: task, error, spinning, fields, editFieldName *)
initialHooks ==
    [task |-> "", error |-> "", spinning |-> FALSE, fields |-> {}, editFieldName |-> ""]

(* The view is shown with the index persisted or left by a delete ("" *)
(* keeps FIELDS enabled in the Navbar); it mounts, so a render is due.  *)
Init ==
    /\ \E i \in Indices \cup {""} :
         /\ app = [AC!defaultState EXCEPT !.selectedView = "FIELDS", !.selectedIndex = i,
                     !.selectedIndexStatus = IF i = "" THEN NoStatus ELSE [of |-> i]]
         /\ \E s \in Indices :
              store = [k \in AC!Keys |-> CASE k = "SELECT_VIEW" -> "FIELDS"
                                          [] k = "SELECT_INDEX" -> IF i = "" THEN s ELSE i
                                          [] OTHER -> Absent]
    /\ fp = [mounted |-> TRUE, dirty |-> TRUE, committed |-> Undefined, hooks |-> initialHooks]
    /\ pending = 0
    /\ clicks = 0

(* startTask() during the render: setSpinning(true) is a render-phase    *)
(* update; React re-runs the body, which fetches and updates again, up  *)
(* to its limit, then throws: 1 + ReRenderLimit fetches are issued,     *)
(* nothing commits, and the root is unmounted.                          *)
renderWithIndex ==
    /\ app.selectedIndex \notin NoIndex
    /\ fp' = [fp EXCEPT !.mounted = FALSE, !.dirty = FALSE]
    /\ pending' = pending + 1 + ReRenderLimit

(* if (!state.selectedIndex) return null: the render commits; the effect *)
(* on [selectedIndex] calls doFetchFields, which returns at once.        *)
renderWithoutIndex ==
    /\ app.selectedIndex \in NoIndex
    /\ fp' = [fp EXCEPT !.dirty = FALSE, !.committed = app.selectedIndex]
    /\ UNCHANGED pending

(* React renders the mounted component after a mount or a context change *)
renderFields ==
    /\ fp.mounted /\ fp.dirty
    /\ renderWithIndex \/ renderWithoutIndex
    /\ UNCHANGED <<app, store, clicks>>

(* Another view selects an index: the context changes, a render is due. *)
(* Only while the React root is still mounted.                          *)
selectOtherIndex(i) ==
    /\ fp.mounted
    /\ clicks < MaxClicks
    /\ clicks' = clicks + 1
    /\ AC!selectIndex(i, [of |-> i])
    /\ fp' = [fp EXCEPT !.dirty = fp.mounted]
    /\ UNCHANGED pending

(* A fields request settles; endTask/setFields of an unmounted component *)
(* change nothing.                                                       *)
settle ==
    /\ pending > 0
    /\ pending' = pending - 1
    /\ UNCHANGED <<app, store, fp, clicks>>

Next == renderFields \/ (\E i \in Indices : selectOtherIndex(i)) \/ settle

(* React renders what it has to, and every fetch settles. *)
Spec == Init /\ [][Next]_vars /\ WF_vars(renderFields) /\ WF_vars(settle)

TypeOK ==
    /\ AC!TypeOK
    /\ fp \in [mounted : BOOLEAN, dirty : BOOLEAN, committed : Indices \cup NoIndex,
               hooks : [task : {""}, error : {""}, spinning : BOOLEAN,
                        fields : SUBSET Fields, editFieldName : Fields \cup {""}]]
    /\ pending \in Nat /\ clicks \in 0..MaxClicks

(* spec.md section 4.4: the FIELDS view lists the fields of the selected *)
(* index (fetched after mount and on index change) and offers create,    *)
(* delete and selection: eventually it is shown, mounted, for the index. *)
FieldsListed ==
    <>[](app.selectedIndex \notin NoIndex => fp.mounted /\ ~fp.dirty)

====
