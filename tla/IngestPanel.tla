----------------------------- MODULE IngestPanel ----------------------------
(***************************************************************************)
(* The INGEST view, IngestView.tsx, over the AppContext container and an  *)
(* unordered network: the sample generated by an effect or a click, the    *)
(* editor's direct writes of state.indexJson, doIndex (parse, setIndexJson, *)
(* POST), and a page reload.                                               *)
(*                                                                         *)
(* The indexJson buffer is one of: "" (nothing), BadJson (not JSON), Doc   *)
(* (a document the operator typed), DocPretty (Doc after                   *)
(* JSON.stringify(.., 2)), or Sample[i], the pretty-printed sample of      *)
(* index i.  As in IndicesPanel, a request's `fresh` flag is FALSE once a *)
(* dispatch has replaced the state object its callback writes into.       *)
(***************************************************************************)
EXTENDS Naturals

CONSTANTS
    Indices, Fields, Jsons, QueryTexts, EmptyQuery, Undefined, Absent, NoStatus, Err,
    BadJson, Doc, DocPretty,
    Sample,      \* Sample[i]: the document GET /{i}/json/samples returns
    MaxClicks,   \* operator inputs: edits, clicks, selections
    MaxReloads   \* page reloads

VARIABLES
    app, store,  \* the container (AppContext)
    ig,          \* IngestView's hooks: error, task, spinning, ingestResult
    deps,        \* <<indexJson, selectedIndex>> as the effect last saw them
    net,
    submitted,   \* a button of the view's <form> submitted it: a navigation is due
    sent, clicks, reloads

vars == <<app, store, ig, deps, net, submitted, sent, clicks, reloads>>

AC == INSTANCE AppContext

NoIndex == {"", Undefined}
SelectIndexMsg == "Please select an index."
Labels == {"", "Collecting sample...", "Parsing...", "Indexed"}
Errors == {"", Err, SelectIndexMsg, Undefined}

(* parseJson() of IngestView, and the re-serialisation of its result *)
Parses(t) == t \notin {"", BadJson}
Pretty(t) == IF t = Doc THEN DocPretty ELSE t

Req(id, kind, index, doc) ==
    [id |-> id, kind |-> kind, index |-> index, doc |-> doc,
     fresh |-> TRUE, resp |-> "none"]
Stale(n) == {[r EXCEPT !.fresh = FALSE] : r \in n}

Deps == <<app.indexJson, app.selectedIndex>>

Click == clicks < MaxClicks /\ clicks' = clicks + 1

(* doGenerateIndexSample(): checkIndex, then the sample GET *)
doGenerateIndexSample ==
    \/ /\ app.selectedIndex \in NoIndex
       /\ ig' = [ig EXCEPT !.error = SelectIndexMsg]
       /\ UNCHANGED <<net, sent>>
    \/ /\ app.selectedIndex \notin NoIndex
       /\ ig' = [ig EXCEPT !.error = "", !.ingestResult = "",
                           !.task = "Collecting sample...", !.spinning = TRUE]
       /\ net' = net \cup {Req(sent, "sample", app.selectedIndex, app.indexJson)}
       /\ sent' = sent + 1

(* The effect on [indexJson, selectedIndex]: an empty buffer asks for a  *)
(* sample.  It runs after a render in which a dependency changed.        *)
Effect ==
    /\ deps' = Deps
    /\ IF app.indexJson = "" THEN doGenerateIndexSample
                             ELSE UNCHANGED <<ig, net, sent>>

initialView == [error |-> "", task |-> "", spinning |-> FALSE, ingestResult |-> ""]

(* IngestView mounts on the state object s (fresh useState hooks) and    *)
(* its effect runs once: an empty buffer asks for the index's sample.   *)
MountedView(s) ==
    CASE s.indexJson # "" -> initialView
      [] s.selectedIndex \in NoIndex -> [initialView EXCEPT !.error = SelectIndexMsg]
      [] OTHER -> [initialView EXCEPT !.task = "Collecting sample...", !.spinning = TRUE]

MountRequests(s, id) ==
    IF s.indexJson = "" /\ s.selectedIndex \notin NoIndex
    THEN {Req(id, "sample", s.selectedIndex, "")} ELSE {}

(* The view mounts either on a page load with INGEST persisted, where    *)
(* initialState() read the index and, when one was stored, a             *)
(* re-serialised document; or from the Navbar after a delete left        *)
(* selectedIndex = '' in memory, which still enables INGEST (the store   *)
(* keeps the deleted index, and the buffer is whatever the session had). *)
Loaded(i, j) ==
    /\ store = [k \in AC!Keys |-> CASE k = "SELECT_VIEW" -> "INGEST"
                                     [] k = "SELECT_INDEX" -> i
                                     [] k = "SET_INDEX_JSON" -> IF j = "" THEN Absent ELSE j
                                     [] OTHER -> Absent]
    /\ app = [AC!defaultState EXCEPT !.selectedView = "INGEST",
                !.selectedIndex = i, !.indexJson = j]

AfterDelete(i, j) ==
    /\ store = [k \in AC!Keys |-> CASE k = "SELECT_VIEW" -> "INGEST"
                                     [] k = "SELECT_INDEX" -> i
                                     [] OTHER -> Absent]
    /\ app = [AC!defaultState EXCEPT !.selectedView = "INGEST",
                !.selectedIndex = "", !.indexJson = j]

Init ==
    /\ \E i \in Indices, j \in {"", DocPretty} \cup {Sample[k] : k \in Indices} :
         Loaded(i, j) \/ AfterDelete(i, j)
    /\ ig = MountedView(app)
    /\ deps = Deps
    /\ net = MountRequests(app, 0)
    /\ submitted = FALSE
    /\ sent = IF net = {} THEN 0 ELSE 1
    /\ clicks = 0
    /\ reloads = 0

----------------------------------------------------------------------------
(* Operator steps *)

(* JsonEditor onChange: state.indexJson = indexJson (a direct write on   *)
(* the current object: no dispatch, no render, nothing persisted)        *)
editBuffer(t) ==
    /\ Click
    /\ app' = [app EXCEPT !.indexJson = t]
    /\ UNCHANGED <<store, ig, deps, net, submitted, sent, reloads>>

(* The "Generate example" button.  Like INDEX, it sits in a <form> and  *)
(* has no type attribute: once onClick returns, the browser submits the  *)
(* form (nothing calls preventDefault).                                  *)
clickGenerate ==
    /\ Click
    /\ doGenerateIndexSample
    /\ submitted' = TRUE
    /\ UNCHANGED <<app, store, deps, reloads>>

(* doIndex(), checkIndex failed *)
indexNoIndex ==
    /\ app.selectedIndex \in NoIndex
    /\ ig' = [ig EXCEPT !.error = SelectIndexMsg]
    /\ UNCHANGED <<app, store, net, sent>>

(* doIndex(), the catch: parseJson throws the string 'Nothing to index'  *)
(* for an empty buffer, whose .message is undefined, or a SyntaxError.   *)
indexParseError ==
    /\ app.selectedIndex \notin NoIndex
    /\ ~Parses(app.indexJson)
    /\ ig' = [ig EXCEPT !.ingestResult = "", !.task = "", !.spinning = FALSE,
                        !.error = IF app.indexJson = "" THEN Undefined ELSE Err]
    /\ UNCHANGED <<app, store, net, sent>>

(* doIndex(), parsed: setIndexJson(the re-serialised text), then POST it *)
indexSend ==
    /\ app.selectedIndex \notin NoIndex
    /\ Parses(app.indexJson)
    /\ ig' = [ig EXCEPT !.ingestResult = "", !.error = "", !.task = "Parsing...",
                        !.spinning = TRUE]
    /\ AC!setIndexJson(Pretty(app.indexJson))
    /\ net' = Stale(net) \cup {Req(sent, "ingest", app.selectedIndex, Pretty(app.indexJson))}
    /\ sent' = sent + 1

(* The INDEX button *)
clickIndex ==
    /\ Click
    /\ indexNoIndex \/ indexParseError \/ indexSend
    /\ submitted' = TRUE
    /\ UNCHANGED <<deps, reloads>>

(* Another view selects an index through the Dispatcher. *)
selectOtherIndex(i) ==
    /\ Click
    /\ AC!selectIndex(i, [of |-> i])
    /\ net' = Stale(net)
    /\ UNCHANGED <<ig, deps, submitted, sent, reloads>>

(* The page is loaded again: requests in flight are forgotten, the state *)
(* is rebuilt from localStorage and IngestView mounts again.             *)
pageLoad ==
    /\ AC!Reload
    /\ ig' = MountedView(AC!initialState)
    /\ deps' = <<AC!initialState.indexJson, AC!initialState.selectedIndex>>
    /\ net' = MountRequests(AC!initialState, sent)
    /\ sent' = IF net' = {} THEN sent ELSE sent + 1

(* The operator reloads the page. *)
reload ==
    /\ reloads < MaxReloads
    /\ reloads' = reloads + 1
    /\ pageLoad
    /\ UNCHANGED <<submitted, clicks>>

(* The form's GET submission to the page's own URL completes. *)
formSubmit ==
    /\ submitted
    /\ submitted' = FALSE
    /\ pageLoad
    /\ UNCHANGED <<clicks, reloads>>

(* React re-renders the view and the effect sees a changed dependency.  *)
renderIngest ==
    /\ Deps # deps
    /\ Effect
    /\ UNCHANGED <<app, store, submitted, clicks, reloads>>

----------------------------------------------------------------------------
(* The backend answers, or the transport fails. *)
Respond ==
    \E r \in net, resp \in {"ok", "err"} :
        /\ r.resp = "none"
        /\ net' = (net \ {r}) \cup {[r EXCEPT !.resp = resp]}
        /\ UNCHANGED <<app, store, ig, deps, submitted, sent, clicks, reloads>>

(* The sample callback stringifying a field the answer does not have *)
onSampleUndefined(r) ==
    /\ r.kind = "sample" /\ r.resp = "ok"
    /\ app' = IF r.fresh THEN [app EXCEPT !.indexJson = Undefined] ELSE app
    /\ ig' = [ig EXCEPT !.task = "", !.spinning = FALSE]

(* The sample callback with setSpinning(false) forgotten *)
onSampleSpinning(r) ==
    /\ r.kind = "sample" /\ r.resp = "ok"
    /\ app' = IF r.fresh THEN [app EXCEPT !.indexJson = Sample[r.index]] ELSE app
    /\ ig' = [ig EXCEPT !.task = ""]

(* doGenerateIndexSample's callbacks.  On success the sample is written  *)
(* into the captured state object: it reaches the editor only if nothing *)
(* was dispatched since.                                                 *)
onSample(r) ==
    /\ r.kind = "sample" /\ r.resp = "ok"
    /\ app' = IF r.fresh THEN [app EXCEPT !.indexJson = Sample[r.index]] ELSE app
    /\ ig' = [ig EXCEPT !.task = "", !.spinning = FALSE]

(* error: setError(error), setTask(''), setSpinning(false), shared by    *)
(* the sample and the ingest requests                                    *)
onRequestError(r) ==
    /\ r.resp = "err"
    /\ ig' = [ig EXCEPT !.error = Err, !.task = "", !.spinning = FALSE]
    /\ UNCHANGED app

(* doIndex's success callback: the result and the count message *)
onIngested(r) ==
    /\ r.kind = "ingest" /\ r.resp = "ok"
    /\ ig' = [ig EXCEPT !.ingestResult = "result", !.task = "Indexed", !.spinning = FALSE]
    /\ UNCHANGED app

Deliver ==
    /\ \E r \in net :
         /\ onSample(r) \/ onRequestError(r) \/ onIngested(r)
         /\ net' = net \ {r}
    /\ UNCHANGED <<store, deps, submitted, sent, clicks, reloads>>

(* What the editable JsonEditor's onChange hands to setValue: an empty   *)
(* buffer, a text that does not parse, or a document.                    *)
EditTexts == {"", BadJson, Doc}

Operate ==
    \/ \E t \in EditTexts : editBuffer(t)
    \/ clickGenerate
    \/ clickIndex
    \/ \E i \in Indices : selectOtherIndex(i)
    \/ reload

Next == Operate \/ renderIngest \/ Respond \/ Deliver \/ formSubmit

(* The network and the browser are fair (a navigation the browser began *)
(* completes); the operator and the re-render after a direct write are   *)
(* not.                                                                  *)
Spec == Init /\ [][Next]_vars /\ WF_vars(Respond) /\ WF_vars(Deliver)
                              /\ WF_vars(formSubmit)

----------------------------------------------------------------------------
Texts == {"", BadJson, Doc, DocPretty} \cup {Sample[i] : i \in Indices}

TypeOK ==
    /\ AC!TypeOK
    /\ ig \in [error : Errors, task : Labels, spinning : BOOLEAN,
               ingestResult : {"", "result"}]
    /\ deps \in Texts \X (Indices \cup NoIndex)
    /\ \A r \in net : r.kind \in {"sample", "ingest"} /\ r.doc \in Texts
    /\ submitted \in BOOLEAN
    /\ sent \in Nat /\ clicks \in 0..MaxClicks /\ reloads \in 0..MaxReloads

(* Once the operator stops, the view settles: every sample and ingest    *)
(* request is answered and handled, and the spinner stops.               *)
EventuallyIdle == <>[](net = {} /\ ~ig.spinning)

(* IngestView's spinner turns only while a sample or ingest request of   *)
(* the view is in flight: the mount effect, a re-run effect, a GENERATE  *)
(* or INDEX click, every callback and every page load keep setSpinning   *)
(* in step with the requests they issue and consume.                     *)
IngestSpinnerImpliesRequest == ig.spinning => net # {}

(* When doIndex stops at parsing, the status line shows why (an empty    *)
(* buffer is reported as 'Nothing to index').                            *)
IndexFailureReported == [][clickIndex /\ indexParseError => ig'.error \in {Err, SelectIndexMsg}]_vars

(* A sample answer replaces the buffer only if the operator has not      *)
(* edited it since the sample was asked for.                             *)
SampleKeepsEdits ==
    [][\A r \in net :
         (r.kind = "sample" /\ r.id \notin {q.id : q \in net'}
          /\ app'.indexJson # app.indexJson
          /\ ~(reload \/ formSubmit))
             => app.indexJson = r.doc]_vars

====
