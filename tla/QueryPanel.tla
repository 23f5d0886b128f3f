----------------------------- MODULE QueryPanel -----------------------------
(***************************************************************************)
(* The QUERY view: QueryView.tsx (doQuery) and its QueryHelper.tsx, over  *)
(* the AppContext container and an unordered network.                      *)
(*                                                                         *)
(* Data is abstracted.  A queryJson text is EmptyQuery (''), BadQuery (not *)
(* JSON), or a record [query |-> q, pretty |-> b]: a JSON document whose   *)
(* top-level "query" object has first key q (a query type of Ops, "" for   *)
(* an empty object, "none" when there is no "query" key at all); pretty is *)
(* TRUE for the JSON.stringify(.., 2) form.  A search answer is the record *)
(* [op, idx] of the query and index it answered.  A query-type listing is  *)
(* the lookup it answered; its types and first type are computed from it. *)
(***************************************************************************)
EXTENDS Naturals

CONSTANTS
    Indices, Fields, Jsons, QueryTexts, EmptyQuery, Undefined, Absent, NoStatus, Err,
    Ops,         \* query type names the backend knows
    MaxClicks    \* operator inputs: edits, QUERY clicks, lookups, selections

VARIABLES
    app, store,  \* the container (AppContext)
    qv,          \* QueryView's hooks: error, task, spinning, resultJson
    qh,          \* QueryHelper's hooks
    net,         \* requests issued and not yet handled by their callback
    submitted,   \* the QUERY button submitted its form: a navigation is due
    sent,        \* requests issued so far (the next request id)
    clicks       \* operator inputs so far

vars == <<app, store, qv, qh, net, submitted, sent, clicks>>

AC == INSTANCE AppContext

(* The texts the editor can hold, and what parseJson makes of them. *)
QueryKeys == Ops \cup {"", "none"}
BadQuery == [invalid |-> TRUE]
Texts == {EmptyQuery, BadQuery} \cup [query : QueryKeys, pretty : BOOLEAN]
Parses(t) == t \notin {EmptyQuery, BadQuery}
Pretty(t) == [t EXCEPT !.pretty = TRUE]

(* What the operator can type in the lookup box, and "{}", the initial   *)
(* empty listing.  Lookups of the helper are drawn from the same set.    *)
NoLookup == "{}"
Lookups == Ops \cup {"", "nomatch"}

(* The query types a lookup answers with, and the first of them ("" if  *)
(* none): an empty lookup lists every type, a type name lists itself.    *)
Listed(l) == CASE l = "" -> Ops [] l \in Ops -> {l} [] OTHER -> {}
FirstType(l) ==
    CASE l = "" -> CHOOSE t \in Ops : TRUE [] l \in Ops -> l [] OTHER -> ""

Labels == {"", "Querying...", "Query successful."}
Errors == {"", Err, "Please select an index."}
NoResult == [op |-> "", idx |-> ""]
Results == {NoResult} \cup [op : QueryKeys, idx : Indices]

Req(kind, arg) == [id |-> sent, kind |-> kind, arg |-> arg, resp |-> "none"]
Issue(kind, arg) == net \cup {Req(kind, arg)}

(* useState initial values of QueryView and QueryHelper *)
initialQv == [error |-> "", task |-> "", spinning |-> FALSE, resultJson |-> NoResult]
initialQh == [queryTypes |-> NoLookup, lastQueryJsonLookup |-> "",
              queryLookup |-> "", firstQueryTypeDetail |-> ""]

(* The QUERY view is shown: Navbar enables it when selectedIndex is not  *)
(* undefined, so "" (after a delete) is possible.  The editor is empty.   *)
Init ==
    /\ \E i \in Indices \cup {""} :
         /\ app = [AC!defaultState EXCEPT !.selectedView = "QUERY",
                     !.selectedIndex = i,
                     !.selectedIndexStatus = IF i = "" THEN NoStatus ELSE [of |-> i]]
         /\ \E s \in Indices :
              store = [k \in AC!Keys |-> CASE k = "SELECT_VIEW" -> "QUERY"
                                          [] k = "SELECT_INDEX" ->
                                                IF i = "" THEN s ELSE i
                                          [] OTHER -> Absent]
    /\ qv = initialQv
    /\ qh = initialQh
    /\ net = {}
    /\ submitted = FALSE
    /\ sent = 0
    /\ clicks = 0

Click == clicks < MaxClicks /\ clicks' = clicks + 1

(* JsonEditor onChange: state.queryJson = value (a direct write). *)
editQuery(t) ==
    /\ Click
    /\ app' = [app EXCEPT !.queryJson = t]
    /\ UNCHANGED <<store, qv, qh, net, sent>>

(* Another view selects an index through the Dispatcher. *)
selectOtherIndex(i) ==
    /\ Click
    /\ AC!selectIndex(i, [of |-> i])
    /\ UNCHANGED <<qv, qh, net, sent>>

(* doFetchQueryTypes(lookup), from a helper state h *)
doFetchQueryTypes(h, lookup) ==
    /\ app.selectedIndex \notin {"", Undefined}
    /\ qh' = [h EXCEPT !.queryLookup = lookup]
    /\ net' = Issue("types", lookup)
    /\ sent' = sent + 1

(* The operator types in the lookup box, or clicks a listed type. *)
typeLookup(l) ==
    /\ Click
    /\ doFetchQueryTypes(qh, l)
    /\ UNCHANGED <<app, store, qv>>

clickListedType(t) ==
    /\ Click
    /\ t \in Listed(qh.queryTypes)
    /\ doFetchQueryTypes(qh, t)
    /\ UNCHANGED <<app, store, qv>>

(* The lookup key taken from the editor without the try/catch *)
RenderLookupUnchecked(t) == IF Parses(t) THEN t.query ELSE "error"

(* The helper renders: the first key of the editor's query, when it      *)
(* parses and has a "query" object, is compared with the last one.      *)
RenderLookup(t) == IF Parses(t) /\ t.query # "none" THEN t.query ELSE qh.lastQueryJsonLookup

renderHelper ==
    /\ app.selectedIndex \notin {"", Undefined}
    /\ RenderLookup(app.queryJson) # qh.lastQueryJsonLookup
    /\ doFetchQueryTypes([qh EXCEPT !.lastQueryJsonLookup = RenderLookup(app.queryJson)],
                         RenderLookup(app.queryJson))
    /\ UNCHANGED <<app, store, qv, clicks>>

(* doQuery(), first early return: no index selected *)
queryNoIndex ==
    /\ app.selectedIndex \in {"", Undefined}
    /\ qv' = [qv EXCEPT !.error = "Please select an index."]
    /\ UNCHANGED <<app, net, sent>>

(* The catch of a parse error, leaving the spinner on *)
queryParseErrorSpinning ==
    /\ app.selectedIndex \notin {"", Undefined}
    /\ ~Parses(app.queryJson)
    /\ qv' = [qv EXCEPT !.error = Err, !.task = "", !.spinning = TRUE]
    /\ UNCHANGED <<app, net, sent>>

(* doQuery(), second early return: parseJson threw *)
queryParseError ==
    /\ app.selectedIndex \notin {"", Undefined}
    /\ ~Parses(app.queryJson)
    /\ qv' = [qv EXCEPT !.error = Err, !.task = "", !.spinning = FALSE]
    /\ UNCHANGED <<app, net, sent>>

(* doQuery(), the text parsed: it is normalised in place and POSTed *)
querySend ==
    /\ app.selectedIndex \notin {"", Undefined}
    /\ Parses(app.queryJson)
    /\ qv' = [qv EXCEPT !.error = "", !.task = "Querying...", !.spinning = TRUE]
    /\ app' = [app EXCEPT !.queryJson = Pretty(@)]
    /\ net' = Issue("search", [op |-> app.queryJson.query, idx |-> app.selectedIndex])
    /\ sent' = sent + 1

(* The QUERY button.  It sits in a <form> and has no type attribute, so  *)
(* it is a submit button: once onClick returns, the browser submits the  *)
(* form (nothing calls preventDefault).                                  *)
doQuery ==
    /\ Click
    /\ queryNoIndex \/ queryParseError \/ querySend
    /\ submitted' = TRUE
    /\ UNCHANGED <<store, qh>>

(* The form's GET submission to the page's own URL completes: the page   *)
(* is loaded again.  useReducer rebuilds the state from localStorage,    *)
(* QueryView and QueryHelper mount with their initial hooks, and the     *)
(* callbacks still in flight belong to the unloaded page.                *)
formSubmit ==
    /\ submitted
    /\ AC!Reload
    /\ qv' = initialQv
    /\ qh' = initialQh
    /\ net' = {}
    /\ submitted' = FALSE
    /\ UNCHANGED <<store, sent, clicks>>

(***************************************************************************)
(* The backend answers a request, or the transport fails.  Every request  *)
(* may fail (a missing index, a bad query, a lost connection).             *)
(***************************************************************************)
Respond ==
    \E r \in net, resp \in {"ok", "err"} :
        /\ r.resp = "none"
        /\ net' = (net \ {r}) \cup {[r EXCEPT !.resp = resp]}
        /\ UNCHANGED <<app, store, qv, qh, submitted, sent, clicks>>

(***************************************************************************)
(* Callbacks, each one atomic step that consumes the answer.               *)
(***************************************************************************)
Answered(r, kind, resp) == r.kind = kind /\ r.resp = resp

onSearchResult(r) ==
    /\ Answered(r, "search", "ok")
    /\ net' = net \ {r}
    /\ qv' = [qv EXCEPT !.resultJson = r.arg, !.task = "Query successful.",
                        !.spinning = FALSE]
    /\ UNCHANGED <<qh, sent>>

onSearchError(r) ==
    /\ Answered(r, "search", "err")
    /\ net' = net \ {r}
    /\ qv' = [qv EXCEPT !.resultJson = NoResult, !.error = Err, !.task = "",
                        !.spinning = FALSE]
    /\ UNCHANGED <<qh, sent>>

(* doSetQueryTypes(json): show the listing, then fetch the first type's  *)
(* detail when there is one.                                             *)
doSetQueryTypes(r) ==
    /\ Answered(r, "types", "ok")
    /\ qh' = [qh EXCEPT !.queryTypes = r.arg]
    /\ IF FirstType(r.arg) # ""
         THEN /\ net' = (net \ {r}) \cup {Req("detail", FirstType(r.arg))}
              /\ sent' = sent + 1
         ELSE /\ net' = net \ {r}
              /\ UNCHANGED sent
    /\ UNCHANGED qv

onTypeDetail(r) ==
    /\ Answered(r, "detail", "ok")
    /\ net' = net \ {r}
    /\ qh' = [qh EXCEPT !.firstQueryTypeDetail = r.arg]
    /\ UNCHANGED <<qv, sent>>

(* error => console.log(error) *)
onLookupError(r) ==
    /\ r.kind \in {"types", "detail"}
    /\ Answered(r, r.kind, "err")
    /\ net' = net \ {r}
    /\ UNCHANGED <<qv, qh, sent>>

Deliver ==
    /\ \E r \in net :
         \/ onSearchResult(r) \/ onSearchError(r)
         \/ doSetQueryTypes(r) \/ onTypeDetail(r) \/ onLookupError(r)
    /\ UNCHANGED <<app, store, submitted, clicks>>

(* What the editable JsonEditor's onChange hands to setValue: any text  *)
(* the operator types, never one already pretty-printed.                *)
EditTexts == {EmptyQuery, BadQuery} \cup [query : QueryKeys, pretty : {FALSE}]

Operate ==
    \/ \E t \in EditTexts : editQuery(t)
    \/ \E i \in Indices : selectOtherIndex(i)
    \/ \E l \in Lookups : typeLookup(l)
    \/ \E t \in Ops : clickListedType(t)

Next ==
    \/ (Operate \/ renderHelper) /\ UNCHANGED submitted
    \/ doQuery
    \/ Respond
    \/ Deliver
    \/ formSubmit

(* The helper renders whenever anything of the view changes, but nothing *)
(* forces a render after a direct write, so renderHelper is not fair.    *)
(* The browser completes a navigation it started.                        *)
Spec == Init /\ [][Next]_vars /\ WF_vars(Respond) /\ WF_vars(Deliver)
                              /\ WF_vars(formSubmit)

TypeOK ==
    /\ AC!TypeOK
    /\ qv \in [error : Errors, task : Labels, spinning : BOOLEAN, resultJson : Results]
    /\ qh \in [queryTypes : Lookups \cup {NoLookup}, lastQueryJsonLookup : Lookups,
               queryLookup : Lookups, firstQueryTypeDetail : Ops \cup {""}]
    /\ submitted \in BOOLEAN /\ sent \in Nat /\ clicks \in 0..MaxClicks

(* QueryView's spinner turns only while one of its searches is in flight: *)
(* every path of doQuery and of its callbacks that leaves a search        *)
(* unanswered or answered keeps setSpinning in step with it.              *)
SpinnerImpliesSearch == qv.spinning => \E r \in net : r.kind = "search"

(* The helper's list: an item per listed type; HelpItem at position 0    *)
(* shows queryTypeDetail || queryType, the others their type name.  A    *)
(* detail is named by the type it describes.                             *)
HelpItems ==
    [t \in Listed(qh.queryTypes) |->
        IF t = FirstType(qh.queryTypes) /\ qh.firstQueryTypeDetail # ""
        THEN qh.firstQueryTypeDetail ELSE t]

(* Once no lookup or detail request is in flight, every item of the      *)
(* helper's list shows its own type: the detail beside the first type is *)
(* the detail of that type.                                              *)
QuiescentDetailMatches ==
    (\A r \in net : r.kind = "search") => \A t \in DOMAIN HelpItems : HelpItems[t] = t

(* spec.md section 4: the QUERY panel POSTs a query that parses "and     *)
(* displays the raw JSON result".  Once the backend has answered a search *)
(* with success, the result pane eventually shows a result: the form     *)
(* submission of the QUERY click must not reload the page first.         *)
SearchResultShown ==
    (\E r \in net : r.kind = "search" /\ r.resp = "ok") ~> qv.resultJson # NoResult

====
