---------------------------- MODULE IndicesPanel ----------------------------
(***************************************************************************)
(* The INDICES view composed with the state container: IndicesTable.tsx   *)
(* (its useState hooks, the mount-time listing, create and delete),       *)
(* IndexList.tsx (a row click fetches the status and dispatches           *)
(* selectIndex), IndexCreateEditDelete.tsx with CreateOrDeleteButton, the *)
(* Navbar view switch, the REST backend as a set of existing indices, and *)
(* a network that delivers the answers of fetchJson in any order.         *)
(*                                                                         *)
(* A fetch callback holds the `state` object of the render that issued    *)
(* the request.  The reducer replaces that object on every dispatch, so a *)
(* direct write such as `state.selectedIndex = idx` reaches the current   *)
(* state only if nothing was dispatched while the request was in flight.  *)
(* A request records this in its field `fresh`.                           *)
(***************************************************************************)
EXTENDS PanelProtocol, Naturals

CONSTANTS
    Indices, Fields, Jsons, QueryTexts, EmptyQuery, Undefined, Absent, NoStatus, Err,
    MaxClicks,   \* bound on operator clicks that issue a request
    MaxReloads   \* bound on page reloads

ASSUME MaxClicks \in Nat /\ MaxReloads \in Nat

VARIABLES
    app,         \* the state container (AppContext)
    store,       \* localStorage (AppContext)
    panel,       \* IndicesTable hooks: task, error, spinning, indices, indexName
    server,      \* the indices that exist on the backend
    net,         \* requests in flight, and their answers not yet delivered
    sent,        \* requests issued so far (the id of the next one)
    clicks,      \* operator clicks that issued a request
    reloads,     \* page reloads so far
    navIndex     \* the selectedIndex the Navbar last rendered with

vars == <<app, store, panel, server, net, sent, clicks, reloads, navIndex>>

AC == INSTANCE AppContext

Kinds == {"list", "status", "create", "delete"}
Labels == {"", "Creating", "Created", "Deleting", "Deleted"}

Request ==
    [id : Nat, kind : Kinds, target : Indices \cup {""}, fresh : BOOLEAN,
     resp : {"none", "ok", "err"}, data : SUBSET Indices]

Req(id, kind, target) ==
    [id |-> id, kind |-> kind, target |-> target, fresh |-> TRUE,
     resp |-> "none", data |-> {}]

(* fetchJson(url, ...): a new request capturing the current state object *)
fetchJson(kind, target) == Req(sent, kind, target)

(* A dispatch gives the reducer a new state object: every pending        *)
(* callback now holds a stale one.                                       *)
Stale(n) == {[r EXCEPT !.fresh = FALSE] : r \in n}

(* useState initial values of IndicesTable *)
initialPanel ==
    [task |-> "", error |-> "", spinning |-> FALSE, indices |-> {},
     indexName |-> ""]

(* The component mounts: useEffect(..., []) calls doFetchIndices. *)
Mount ==
    /\ panel' = startTask(initialPanel, "")
    /\ net' = {fetchJson("list", "")}
    /\ sent' = sent + 1

Init ==
    /\ store = [k \in AC!Keys |-> Absent]
    /\ app = AC!defaultState
    /\ navIndex = app.selectedIndex
    /\ server \in SUBSET Indices
    /\ panel = startTask(initialPanel, "")
    /\ net = {Req(0, "list", "")}
    /\ sent = 1
    /\ clicks = 0
    /\ reloads = 0

----------------------------------------------------------------------------
(* Operator steps *)

(* The index-name input: setIndexName *)
setIndexName(n) ==
    /\ panel' = [panel EXCEPT !.indexName = n]
    /\ UNCHANGED <<app, store, server, net, sent, clicks, reloads, navIndex>>

(* The Create button: startTask, then POST /{indexName} *)
doCreateIndex(idx) ==
    /\ clicks < MaxClicks
    /\ idx = panel.indexName
    /\ ButtonMode(idx, app.selectedIndex) = "create"
    /\ panel' = startTask(panel, "Creating")
    /\ net' = net \cup {fetchJson("create", idx)}
    /\ sent' = sent + 1
    /\ clicks' = clicks + 1
    /\ UNCHANGED <<app, store, server, reloads, navIndex>>

(* The Delete button: startTask, then DELETE /{idx} *)
doDeleteIndex(idx) ==
    /\ clicks < MaxClicks
    /\ idx = panel.indexName
    /\ ButtonMode(idx, app.selectedIndex) = "delete"
    /\ panel' = startTask(panel, "Deleting")
    /\ net' = net \cup {fetchJson("delete", idx)}
    /\ sent' = sent + 1
    /\ clicks' = clicks + 1
    /\ UNCHANGED <<app, store, server, reloads, navIndex>>

(* A click on a row of IndexList: GET /{index}, no task status *)
selectIndexRow(index) ==
    /\ clicks < MaxClicks
    /\ index \in panel.indices
    /\ net' = net \cup {fetchJson("status", index)}
    /\ sent' = sent + 1
    /\ clicks' = clicks + 1
    /\ UNCHANGED <<app, store, panel, server, reloads, navIndex>>

(* A Navbar MenuItem: enabled at the Navbar's last render (navIndex), not *)
(* the active one, dispatches selectView; the dispatch re-renders the    *)
(* Navbar with the live state object.                                    *)
navigate(view) ==
    /\ view = "INDICES" \/ navIndex # Undefined
    /\ app.selectedView # view
    /\ AC!selectView(view)
    /\ navIndex' = app.selectedIndex
    /\ net' = Stale(net)
    /\ UNCHANGED <<panel, server, sent, clicks, reloads>>

(* The page is reloaded: in-flight requests are forgotten, the state is  *)
(* rebuilt from localStorage and IndicesTable mounts again.              *)
reload ==
    /\ reloads < MaxReloads
    /\ AC!Reload
    /\ Mount
    /\ reloads' = reloads + 1
    /\ navIndex' = app'.selectedIndex
    /\ UNCHANGED <<server, clicks>>

----------------------------------------------------------------------------
(***************************************************************************)
(* The backend answers a request (external: the REST contract of spec.md  *)
(* section 6).  GET / lists the indices, GET /{i} fails for a missing     *)
(* index, POST /{i} creates or updates, DELETE /{i} fails for a missing   *)
(* index.  The answer stays in flight until the browser delivers it.      *)
(***************************************************************************)
Answer(r, resp, data) ==
    net' = (net \ {r}) \cup {[r EXCEPT !.resp = resp, !.data = data]}

serve(r) ==
    /\ r.resp = "none"
    /\ CASE r.kind = "list" ->
               Answer(r, "ok", server) /\ UNCHANGED server
          [] r.kind = "status" ->
               Answer(r, IF r.target \in server THEN "ok" ELSE "err", {})
               /\ UNCHANGED server
          [] r.kind = "create" ->
               Answer(r, "ok", {}) /\ server' = server \cup {r.target}
          [] r.kind = "delete" ->
               IF r.target \in server
               THEN Answer(r, "ok", {}) /\ server' = server \ {r.target}
               ELSE Answer(r, "err", {}) /\ UNCHANGED server
    /\ UNCHANGED <<app, store, panel, sent, clicks, reloads, navIndex>>

(* The request fails in transport: fetchJson calls its error callback.   *)
(* A mutation may or may not have reached the backend first.             *)
transportError(r) ==
    /\ r.resp = "none"
    /\ Answer(r, "err", {})
    /\ \/ UNCHANGED server
       \/ r.kind = "create" /\ server' = server \cup {r.target}
       \/ r.kind = "delete" /\ server' = server \ {r.target}
    /\ UNCHANGED <<app, store, panel, sent, clicks, reloads, navIndex>>

----------------------------------------------------------------------------
(***************************************************************************)
(* The browser runs a callback of fetchJson.  Each is one step: the page  *)
(* has a single thread and a callback runs to completion.                 *)
(***************************************************************************)
Delivered(r, kind, resp) ==
    /\ r.kind = kind
    /\ r.resp = resp

(* doFetchIndices' success callback without its endTask() *)
onIndicesListedNoEnd(r) ==
    /\ Delivered(r, "list", "ok")
    /\ panel' = [panel EXCEPT !.indices = r.data]
    /\ net' = net \ {r}
    /\ UNCHANGED <<app, store, server, sent, clicks, reloads, navIndex>>

(* The success and error callbacks of doFetchIndices *)
onIndicesListed(r) ==
    /\ Delivered(r, "list", "ok")
    /\ panel' = [endTask(panel, "", "") EXCEPT !.indices = r.data]
    /\ net' = net \ {r}
    /\ UNCHANGED <<app, store, server, sent, clicks, reloads, navIndex>>

(* error => endTask(): the message is dropped *)
onPanelErrorSilent(r) ==
    /\ r.kind \in {"list", "create", "delete"}
    /\ r.resp = "err"
    /\ panel' = endTask(panel, "", "")
    /\ net' = net \ {r}
    /\ UNCHANGED <<app, store, server, sent, clicks, reloads, navIndex>>

(* error => setError(error): the spinner is left on *)
onPanelErrorSpinning(r) ==
    /\ r.kind \in {"list", "create", "delete"}
    /\ r.resp = "err"
    /\ panel' = [panel EXCEPT !.error = Err]
    /\ net' = net \ {r}
    /\ UNCHANGED <<app, store, server, sent, clicks, reloads, navIndex>>

(* error => endTask(undefined, error), shared by list, create and delete *)
onPanelError(r) ==
    /\ r.kind \in {"list", "create", "delete"}
    /\ r.resp = "err"
    /\ panel' = endTask(panel, "", Err)
    /\ net' = net \ {r}
    /\ UNCHANGED <<app, store, server, sent, clicks, reloads, navIndex>>

(* doCreateIndex success: endTask, clear the input, write the captured   *)
(* state object directly, refetch the listing                            *)
onIndexCreated(r) ==
    /\ Delivered(r, "create", "ok")
    /\ panel' = startTask([endTask(panel, "Created", "") EXCEPT !.indexName = ""], "")
    /\ app' = IF r.fresh
              THEN [app EXCEPT !.selectedIndex = r.target, !.selectedField = ""]
              ELSE app
    /\ net' = (net \ {r}) \cup {fetchJson("list", "")}
    /\ sent' = sent + 1
    /\ UNCHANGED <<store, server, clicks, reloads, navIndex>>

(* doDeleteIndex success: clear the captured state's selection directly, *)
(* endTask, refetch the listing                                          *)
onIndexDeleted(r) ==
    /\ Delivered(r, "delete", "ok")
    /\ app' = IF r.fresh
              THEN [app EXCEPT !.selectedIndex = "", !.selectedField = ""]
              ELSE app
    /\ panel' = startTask(endTask(panel, "Deleted", ""), "")
    /\ net' = (net \ {r}) \cup {fetchJson("list", "")}
    /\ sent' = sent + 1
    /\ UNCHANGED <<store, server, clicks, reloads, navIndex>>

(* dispatcher.selectIndex given the whole response instead of its JSON *)
onStatusFetchedWrongArg(r) ==
    /\ Delivered(r, "status", "ok")
    /\ AC!selectIndex(r.target, r)
    /\ navIndex' = app'.selectedIndex
    /\ net' = Stale(net \ {r})
    /\ UNCHANGED <<panel, server, sent, clicks, reloads>>

(* IndexListItem.selectIndex success: dispatcher.selectIndex(index, json) *)
onStatusFetched(r) ==
    /\ Delivered(r, "status", "ok")
    /\ AC!selectIndex(r.target, [of |-> r.target])
    /\ navIndex' = app'.selectedIndex
    /\ net' = Stale(net \ {r})
    /\ UNCHANGED <<panel, server, sent, clicks, reloads>>

(* IndexListItem.selectIndex error: state.error = error on the captured  *)
(* object (nothing reads StateType.error)                                *)
onStatusError(r) ==
    /\ Delivered(r, "status", "err")
    /\ app' = IF r.fresh THEN [app EXCEPT !.error = Err] ELSE app
    /\ net' = net \ {r}
    /\ UNCHANGED <<store, panel, server, sent, clicks, reloads, navIndex>>

----------------------------------------------------------------------------
Respond == \E r \in net : serve(r) \/ transportError(r)

Deliver ==
    \E r \in net :
        \/ onIndicesListed(r)
        \/ onPanelError(r)
        \/ onIndexCreated(r)
        \/ onIndexDeleted(r)
        \/ onStatusFetched(r)
        \/ onStatusError(r)

Operate ==
    \/ \E n \in Indices \cup {""} : setIndexName(n)
    \/ \E i \in Indices : doCreateIndex(i) \/ doDeleteIndex(i) \/ selectIndexRow(i)
    \/ \E v \in AC!Views : navigate(v)
    \/ reload

Next == Operate \/ Respond \/ Deliver

(* The operator need not act; the backend and the browser eventually     *)
(* answer and deliver every request (fetch settles, by success or error). *)
Spec == Init /\ [][Next]_vars /\ WF_vars(Respond) /\ WF_vars(Deliver)

----------------------------------------------------------------------------
(* Properties *)

TypeOK ==
    /\ AC!TypeOK
    /\ panel \in [task : Labels, error : {"", Err}, spinning : BOOLEAN,
                   indices : SUBSET Indices, indexName : Indices \cup {""}]
    /\ server \in SUBSET Indices
    /\ net \subseteq Request
    /\ sent \in Nat /\ clicks \in 0..MaxClicks /\ reloads \in 0..MaxReloads
    /\ navIndex \in AC!IndexValue

(* The spinner of the INDICES header never turns while none of the       *)
(* panel's own requests (listing, create, delete) is in flight: every    *)
(* callback that ends a task either stops it or starts a refetch.        *)
SpinnerImpliesPending ==
    panel.spinning => \E r \in net : r.kind \in {"list", "create", "delete"}

(* A "Creating..." or "Deleting..." label does not stay forever without  *)
(* an error beside it: the create/delete callbacks eventually report.    *)
OperationOutcomeShown ==
    \A l \in {"Creating", "Deleting"} :
        [](panel.task = l => <>(panel.task # l \/ panel.error # ""))

(* Once the operator stops, the panel settles: nothing in flight and the *)
(* spinner stopped.                                                      *)
EventuallyIdle == <>[](net = {} /\ ~panel.spinning)

(* getPrimaryKey / getNumDocs: what a status shows, null for none; a    *)
(* status describes the index it was fetched for.                        *)
RowDetail(status) == IF status = NoStatus THEN Undefined ELSE status.of

(* IndexList: a row per listed index; the row of selectedIndex is active *)
(* and shows the primary key and document count of selectedIndexStatus, *)
(* the other rows show nothing.                                          *)
Rows ==
    [i \in panel.indices |->
        IF i = app.selectedIndex THEN RowDetail(app.selectedIndexStatus) ELSE Undefined]

(* spec.md section 3: selectedIndexStatus is the status fetched for the  *)
(* selected index: the active row of the table shows the primary key and *)
(* document count of its own index, never those of another.              *)
StatusMatchesIndex == \A i \in DOMAIN Rows : Rows[i] \in {Undefined, i}

(* spec.md section 8: once the create of "docs" is acknowledged,        *)
(* selectedIndex is "docs"; once the delete of the selected index is     *)
(* acknowledged, selectedIndex is "" (the callbacks of doCreateIndex and *)
(* doDeleteIndex).                                                       *)
MutationAckSelects ==
    [][\A r \in net :
         (r.kind \in {"create", "delete"} /\ r.resp = "ok"
          /\ r.id \notin {q.id : q \in net'} /\ reloads' = reloads)
         => app'.selectedIndex = IF r.kind = "create" THEN r.target ELSE ""]_vars

(* spec.md section 8: reloading would restore what the operator sees.   *)
ReloadFaithful == AC!ReloadFaithful

=============================================================================
