# TLA+ models of the qwazr search administration console

The console (`src/src/main/ui/src`, `src/qwazr-search/src/main/ui/src`) is a
React single-page application. It manages the indices, fields, documents and
queries of a search backend over REST. Almost all of it is markup. The part that
has behaviour is this:

- a process-wide state container;
- its partial mirror in `localStorage`;
- the fetch callbacks of each panel. They run later, in any order, against a
  state object that may have been replaced in the meantime.

## Inventory

| Component | Source | State | Operations | Interacts with |
|---|---|---|---|---|
| Application State Container | `AppContext.tsx` | reducer state (`selectedView`, `selectedIndex`, `selectedIndexStatus`, `selectedField`, `indexJson`, `queryJson`, `error`); `localStorage` keys `SELECT_VIEW`, `SELECT_INDEX`, `SELECT_FIELD`, `SET_INDEX_JSON` | `selectView`, `selectIndex`, `selectField`, `setIndexJson` (each writes storage, then dispatches); `initialState()` on load | every panel reads the state object, and some write its fields directly |
| Task/Status protocol | `startTask`/`endTask` in `IndicesTable.tsx`, `FieldsTable.tsx`; inline copies in `IngestView.tsx`, `QueryView.tsx` | per panel `task`, `error`, `spinning` hooks | begin a task, end it with a label or an error | the panel's fetch callbacks |
| Resource toggle rule | `CreateOrDeleteButton.tsx` | none | Delete if name = selected, Create if not, disabled if empty | Indices and Fields panels |
| Indices panel | `IndicesTable.tsx`, `IndexList.tsx`, `IndexCreateEditDelete.tsx` | `indices` listing, `indexName`, `primaryKey`, status triple | list on mount, create, delete, select a row (GET status, then `selectIndex`) | backend, container (dispatch and direct writes) |
| Navbar | `Navbar.tsx` | none | `selectView` on an enabled, inactive item | container |
| Fields panel | `FieldsTable.tsx`, `FieldCreateEditDelete.tsx` | `fields`, `editFieldName`, attribute checkboxes, status triple | list (on every render), create, delete, select a field | backend, container |
| Ingest panel | `IngestView.tsx` | `ingestResult`, status | generate a sample (GET), index (parse, then POST) | backend, container (`indexJson`) |
| Query panel and helper | `QueryView.tsx`, `QueryHelper.tsx` | `resultJson`, status, `queryTypes`, lookup, first-type detail | query (parse, then POST); lookup of query types and of the first type's detail | backend, container (`queryJson`) |
| JSON editor | `JsonEditor.tsx` | none | forwards `onChange` to `setValue` | panels |
| REST backend, `fetchJson` | not in the sources (spec.md section 6) | indices, fields, documents | the endpoints of spec.md section 6 | every panel |

What makes this code hard:

- **Single thread, many callbacks.** A click issues a request and returns.
  The answers arrive later, in any order, and nothing cancels them. A callback
  runs to completion, so each callback is one atomic step.
- **Captured state objects.** A callback closes over the `state` object of the
  render that created it. Every dispatch makes a new object (`{...state}`). A
  direct write such as `state.selectedIndex = idx` therefore changes the
  current state only if nothing was dispatched while the request was in
  flight. Otherwise the write goes into a dead object.
- **Partial persistence.** Only Dispatcher calls write `localStorage`. The
  direct writes in `IndicesTable`, `FieldsTable`, `IngestView` and
  `QueryView` do not. A reload (a crash of the page) then restores older
  values.
- **One status triple per panel**, shared by overlapping requests: the last
  write wins.
- **Failures.** A request can fail before or after the backend applied it.
- **Buttons that submit.** The buttons of the QUERY and INGEST views sit in a
  `<form>` and have no `type` attribute, so they are submit buttons. Nothing
  calls `preventDefault`. After `onClick` returns, the browser submits the
  form to the page's own URL and the page loads again, racing the answers of
  the requests the click just posted.

What makes each component correct:

- **Container:** a reload restores exactly the four preferences last set and
  forgets the status (`AbstractPrefs`). `selectedIndexStatus` describes
  `selectedIndex`.
- **Protocol:** the spinner only turns while a request of the panel is in
  flight. Every started operation ends in a label or an error. The panel
  settles.
- **Panels:** an acknowledged create or delete is reflected in the selection.
  The selection survives a reload. A click never loses the answer it asked
  for. Answers are applied in the order they complete (spec.md section 5), so
  a listing or result may be older than the last request; that order is
  accepted and not checked.

## Modules

- `AppContext.tla` models the container.
  - Variables: `app`, the current reducer object, and `store`, which is
    `localStorage` with `Absent` for a missing key.
  - The Dispatcher methods are actions `selectView`, `selectIndex`,
    `selectField` and `setIndexJson`. Each writes `store`, then applies
    `reducer`.
  - `Reload` rebuilds `app` through `initialState` (`Overlay` is its null
    check).
  - `Next` enumerates the calls the program makes, with the arguments its
    callers pass. No caller passes `undefined`, so `removeItem` is never
    reached.
- `AbstractPrefs.tla` is what the container promises:
  - four preferences, each holding the last value chosen;
  - a session status;
  - `Restart`, which keeps the preferences and resets the status.

  `AppContext` implements it through the mapping `prefs <- Persisted(app)`,
  `session <- app.selectedIndexStatus`.
- `PanelProtocol.tla` defines `startTask`, `endTask` and `ButtonMode` as
  operators on the panel record.
- `IndicesPanel.tla` composes `AppContext` (through `INSTANCE`) with the
  INDICES view, the Navbar, a backend (`server`, a set of indices) and an
  unordered network (`net`, a set of request records).
  - Each request has an `id`, a `kind`, a `target` and an answer (`resp`,
    `data`). Its `fresh` flag is FALSE once a dispatch has replaced the state
    object its callback holds.
  - Operator actions:
    - `setIndexName`;
    - `doCreateIndex` and `doDeleteIndex`, guarded by `ButtonMode`;
    - `selectIndexRow`;
    - `navigate` (the `MenuItem` enable rule, then `selectView`). The Navbar
      computes `enabled` when it renders, and it renders only on a dispatch
      or a page load. `navIndex` is the `selectedIndex` of that last render,
      so the direct writes of the create and delete callbacks do not change
      which items are enabled until the next dispatch;
    - `reload` (drops what is in flight, rebuilds the state, remounts).
  - Backend actions: `serve` computes the answer against `server`.
    `transportError` fails a request whose mutation may or may not have
    reached the backend.
  - Browser actions (one per callback): `onIndicesListed`, `onPanelError`,
    `onIndexCreated`, `onIndexDeleted`, `onStatusFetched`, `onStatusError`.
    Each is the whole callback, including the follow-up `doFetchIndices`.
- `QueryPanel.tla` composes `AppContext` with the QUERY view (`QueryView.tsx`)
  and its `QueryHelper.tsx`, over an unordered network of requests with ids.
  - Texts are abstracted to what parsing sees. `parseJson` is in
    `fetchUtils`, which is not among the sources; `Parses` assumes it is
    `JSON.parse` with an error for `''` (spec.md section 4), as `doQuery`'s
    `try`/`catch` expects:
    - `EmptyQuery` (the default `''`), `BadQuery`, or a JSON document
      `[query, pretty]`;
    - `query` is the first key of its `query` object: a type of `Ops`, `""`
      for `{}`, or `"none"` with no `query` key;
    - `pretty` is TRUE once `doQuery` has rewritten the text with
      `JSON.stringify(.., 2)`.
  - A type listing is the lookup it answered. `Listed` and `FirstType`
    compute its types and first key.
  - Operator actions:
    - `editQuery`, the editor's direct write of `state.queryJson`;
    - `typeLookup` and `clickListedType`, which call `doFetchQueryTypes`;
    - `doQuery`, one of `queryNoIndex`, `queryParseError` or `querySend`,
      which also sets `submitted`: the click submits the form;
    - `selectOtherIndex`, a dispatch made from another view.
  - `formSubmit` is the browser completing that navigation. The state is
    rebuilt by `initialState()`, which leaves `queryJson` at `''`. Both
    components mount with their initial hooks (`initialQv`, `initialQh`),
    and the callbacks in flight belong to the unloaded page.
  - `renderHelper` is the helper's render-time check, whenever the editor's
    first key differs from `lastQueryJsonLookup`.
  - Callbacks: `onSearchResult`, `onSearchError`, `doSetQueryTypes` (which
    issues the detail request), `onTypeDetail`, and `onLookupError`
    (`console.log`, so no state change).
  - The view starts mounted, with `selectedIndex` one of the indices or `''`.
    `''` can happen because Navbar enables QUERY for any value other than
    `undefined`.
- `IngestPanel.tla` composes `AppContext` with the INGEST view
  (`IngestView.tsx`) over an unordered network of requests with ids.
  - Documents are named texts: `""`, `BadJson` (does not parse), `Doc`
    (parses, and `Pretty(Doc)` is its `JSON.stringify(.., 2)` form), and one
    sample per index.
  - `deps` is the last committed `[indexJson, selectedIndex]`, the
    dependencies of the effect. `renderIngest` runs the `Effect` when they
    changed: when the buffer is `""`, it calls `doGenerateIndexSample`.
  - Operator actions:
    - `editBuffer`, the editor's direct write of `state.indexJson`;
    - `clickGenerate`;
    - `clickIndex`, which is `doIndex`: `indexNoIndex`, `indexParseError`
      (the thrown string for `""`, whose `.message` is `undefined`), or
      `indexSend` (`setIndexJson` of the pretty text, then the POST);
    - `selectOtherIndex`;
    - `reload`.
  - `clickGenerate` and `clickIndex` also submit their form. `formSubmit`
    then runs `pageLoad`, the same page load as `reload`.
  - Callbacks: `onSample`, which writes into the captured state object, so
    it has no effect when a dispatch happened since (`fresh` is FALSE);
    `onRequestError`; and `onIngested`.
  - The view starts mounted in one of two ways. `Loaded` is a page load with
    INGEST persisted. `AfterDelete` is the Navbar path after a delete, with
    `selectedIndex = ''`.
- `FieldsPanel.tla` composes `AppContext` with the FIELDS view
  (`FieldsTable.tsx`). `FieldsTable` calls `doFetchFields()` in its render
  body, and `startTask()` there calls `setSpinning(true)` during the render.
  React re-runs the body, which issues another request and updates again,
  until `RE_RENDER_LIMIT` (25), then throws "Too many re-renders".
  - `renderWithIndex` is that whole render: the first run and 25 re-runs
    issue `1 + ReRenderLimit` requests. No error boundary exists in the
    sources, so the uncaught error unmounts the whole React root, the Navbar
    and every other view with it; `selectOtherIndex` is only possible before.
  - `renderWithoutIndex` is the `return null` render, which commits.
  - `settle` is an answer reaching the setters of an unmounted component,
    which do nothing. The requests are therefore only a count.
- Displays are operators over the state: `Rows` in `IndicesPanel` is the
  `IndexList` table, and `HelpItems` in `QueryPanel` is the helper's list.
  The properties about what the operator sees are stated on them.
- `MC_*.tla` / `*.cfg` instantiate the modules with model values.

## Runs

| Run | Checks | Shows |
|---|---|---|
| `appcontext` | `TypeOK`, `PrefsRefinement` | Through the Dispatcher alone, the container refines `AbstractPrefs`: a reload never changes a preference. |
| `indices` | `TypeOK`, `SpinnerImpliesPending`, `OperationOutcomeShown`, `EventuallyIdle` | Under reordering, transport failures, a reload and Navbar items enabled by the Navbar's last render: the spinner never turns with nothing in flight, a Creating/Deleting label always ends in a new label or an error, and the panel settles. |
| `indices_reload` | `ReloadFaithful` (violation) | Create and delete change the selection without persisting it. After a delete, a reload selects the deleted index again. |
| `indices_status` | `StatusMatchesIndex` (violation) | After create or delete, `selectedIndexStatus` still describes the previous index. The active row of the table (`Rows`, the `IndexList` render) then shows the primary key and document count of another index. |
| `indices_ack_selects` | `MutationAckSelects` (violation) | A create or delete acknowledged after a view switch or a selection does not change the selection, because the write goes into a dead state object. After a delete, the deleted index stays selected and persisted, and the Navbar keeps it with FIELDS, INGEST and QUERY enabled. A separate check of the delete half alone also finds it violated. |
| `query` | `TypeOK`, `SpinnerImpliesSearch` | With searches and lookups that overlap, arrive out of order and fail, and each QUERY click reloading the page: the QUERY spinner turns only while a search is in flight, through a parse error under a pending search and through page loads. That the view settles is not checked. Every QUERY click ends in a page load that stops the spinner, so no fault of a callback could keep it on. |
| `query_submit` | `SearchResultShown` (violation) | A search the backend answered is never displayed. The QUERY click submits its form, and the page load comes before the callback. spec.md section 4 says the panel displays the result. INGEST's two buttons have the same fault. |
| `query_detail` | `QuiescentDetailMatches` (violation) | Even with nothing in flight, the helper's first item (`HelpItems`, the `HelpItem` render) can show the detail of a type other than the first one it lists. One way is a failed detail request, which is only logged. Another is a stale detail answer arriving last. |
| `ingest` | `TypeOK`, `IngestSpinnerImpliesRequest`, `EventuallyIdle` | With samples, edits, INDEX clicks, selections, reloads and form submissions interleaved, starting from a page load or from `''` after a delete, and with answers reordered or failing: the INGEST spinner turns only while a sample or ingest request is in flight, and the view settles. |
| `ingest_empty` | `IndexFailureReported` (violation) | INDEX on an empty buffer ends with no error shown. `parseJson` throws a string, and `setError(err.message)` sets `undefined`. |
| `ingest_overwrite` | `SampleKeepsEdits` (violation) | A sample answer replaces text typed while it was in flight. Even the sample the mount effect requests does this. |
| `fields_render` | `FieldsListed` (violation) | With an index selected, the FIELDS view never commits. The render-phase `setSpinning(true)` reaches React's re-render limit. |

Every property of a passing run has a mutant in `PROJECT.json`. The mutant is
a plausible fault in a mapped definition, defined just before it (`Overlay`
without its null check, `selectField` without its `localStorage` write, an
error callback that drops its message or leaves the spinner on, a listing
callback without `endTask`, `selectIndex` given the wrong argument, the
helper's lookup without its `try`, a parse error that leaves the spinner on, a
sample callback that stores `undefined` or leaves the spinner on). TLC finds
each one.

### Bounds

- `MC_AppContext`:
  - two indices and two fields, which is enough to overwrite a preference
    with a different value;
  - one non-empty JSON buffer.

  The space is finite without counters: 150 states.
- `MC_IndicesPanel`:
  - indices `{a, b}`, and the backend may start with any subset of them;
  - `MaxClicks = 2` request-issuing clicks, `MaxReloads = 1`. Typing and
    view switches are unbounded.

  Two clicks are enough for all of these to happen:
  - two overlapping operations (a create and a delete, or a selection and a
    create);
  - a dispatch between a request and its callback (`navigate` needs no
    click);
  - a reload with requests in flight.

  Every callback adds at most one follow-up listing, so the number of requests
  stays bounded. The run has about 99 000 distinct states and takes about
  15 s with its liveness properties.

- `MC_QueryPanel`:
  - indices `{a, b}` and query types `{o1, o2}`;
  - `MaxClicks = 3` operator inputs (edits, QUERY clicks, lookups,
    selections).

  Three inputs are enough for two overlapping lookups plus a search. They also
  allow an edit followed by a render-time lookup racing a typed one. Each
  lookup issues at most one detail request. A QUERY click is one of the
  inputs, so it bounds the form submissions too. The run has about 290 000
  distinct states and takes about 20 s.

  Deadlock checking is off. Once the inputs are used up and every answer is
  handled, the view waits for input, and an idle page really does stop.

- `MC_IngestPanel`:
  - indices `{a, b}`, each with its own sample;
  - `MaxClicks = 3` operator inputs and `MaxReloads = 1`.

  Three inputs are enough for these cases:
  - an edit while the mount sample is in flight;
  - a second sample racing the first;
  - an INDEX click whose `setIndexJson` makes a pending sample stale;
  - a reload with requests in flight.

  The run has about 410 000 distinct states and takes about 10 s. Deadlock checking is
  off for the same reason as `MC_QueryPanel`.
- `MC_FieldsPanel`:
  - `ReRenderLimit = 25`, React's constant;
  - `MaxClicks = 2` selections from other views.

  The run is a counterexample found within about 300 states.

### Fairness

The operator is never obliged to act. The backend answering (`Respond`) and
the browser running callbacks (`Deliver`) are weakly fair. A `fetch` promise
always settles, by success or by error; a hung connection ends in a
transport error. The single JavaScript thread runs every queued callback
eventually. In `QueryPanel`, `renderHelper` is not fair. The helper re-renders
only when something of the view changes, and the editor's direct write of
`queryJson` does not cause a render. `renderIngest` is not fair for the same
reason. In `FieldsPanel`, `renderFields` is weakly fair: React always renders
a mounted component after it mounts or after its context changes. `settle` is
weakly fair because every `fetch` settles. `formSubmit` is weakly fair: a
navigation the browser has started completes.

## Not modelled, and why

- Markup, styling, the primary-key input and field attributes. They are data
  of a request body, and no property tells them apart.
- `App.tsx` (mounting a panel for a view) is not in the sources. Panels are
  therefore not unmounted on `navigate`.
- A request not yet served when the page reloads is dropped. Serving it after
  the reload would only reorder it with the new mount listing.
- `JsonEditor` layout and its read-only branch. The editor has no state.
  Its editable branch's `onChange` is modelled: it is the direct write
  `editQuery` or `editBuffer` over the texts `EditTexts`.
- Field create, delete and selection (`FieldsTable.tsx` lines 59-108) and
  `FieldCreateEditDelete.tsx`. Their buttons are only rendered by a commit of
  `FieldsTable` with an index selected. The render-phase update loop means
  that commit never happens, so no state of this code reaches them. A model
  of them would describe code that cannot run.
- The index in the helper's detail URL comes from the captured state. It is
  not modelled, because query types do not depend on the index.

## Plan

Order: the container and the indices workflow first. They are where the
selection, persistence and status state live. The other panels follow.

1. Done: `AppContext` + `AbstractPrefs` (refinement), `PanelProtocol`,
   `IndicesPanel` with the three divergences above, the displays (`Rows`,
   `HelpItems`), the Navbar's enable rule on its last render (`navIndex`),
   and the delete half of `MutationAckSelects`. Indices with three
   request-issuing clicks were tried and rejected: more than 11 million
   states before liveness checking.
2. Done: `FieldsPanel.tla`. The render-phase fetch loop was expected to break
   `EventuallyIdle`. React's re-render limit turns it into a crash instead
   (`fields_render`). The rest of the panel is unreachable.
3. Done: `IngestPanel.tla`, with the sample-over-edit and empty-buffer
   findings.
4. Done: `QueryPanel.tla`, with the shared spinner and the helper's detail
   divergence.
5. Done: the form submission of the QUERY and INGEST buttons (`formSubmit`,
   finding `query_submit`). Open: a run that shows the lost ingest result.
6. Open: a "latest issued wins" spec (spec.md section 9's request-generation
   token) for the result pane, the type listing and the index table, which
   the current code would violate. `query_detail` already shows the most
   visible case.
7. Open: a top-level `Console.tla` composing all panels over one container and one
   network, with `navigate` unmounting panels if `App.tsx` behaviour can be
   fixed from the spec.
