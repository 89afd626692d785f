---- MODULE CanvasPages ------------------------------------------------------
(****************************************************************************)
(* Canvases and the apps made of them.  These share no state; each has its  *)
(* own section.                                                             *)
(****************************************************************************)
EXTENDS Naturals, FiniteSets, Sequences

(***************************************************************************)
(* One canvas (canvas/mod.rs, routes/canvas.rs, tools/canvas_tools.rs):    *)
(* created, updated field by field, patched, published under a fresh       *)
(* address, deleted.  An update is one statement; a patch reads the row,   *)
(* edits the three contents in memory and writes all three back.           *)
(***************************************************************************)
CONSTANTS
  Patches,      \* calls of patch_canvas
  MaxEdits      \* edits a run of the model makes

VARIABLES
  canvas,      \* "none", "kept" or "deleted"
  contents,    \* per content: the edits it shows
  version,     \* the column
  done,        \* edits answered with success: <<content, edit>>
  patching,    \* per call: the contents it read, and the edit, 0 when idle
  tainted,     \* an update or another patch wrote while a patch was under way
  address,     \* public_slug, 0 is NULL
  addresses,   \* addresses given out
  publishing   \* a publish_canvas between its two statements

canvasVars == <<canvas, contents, version, done, patching, tainted, address,
                addresses, publishing>>

Contents == {"html", "css"}      \* js is like css
Edits == 1 .. MaxEdits
NoPatch == [edit |-> 0, of |-> "html", read |-> [c \in Contents |-> {}]]

CanvasesInit ==
  /\ canvas = "none"
  /\ contents = [c \in Contents |-> {}]
  /\ version = 0 /\ done = {}
  /\ patching = [p \in Patches |-> NoPatch]
  /\ tainted = FALSE
  /\ address = 0 /\ addresses = 0 /\ publishing = FALSE

public == <<address, addresses, publishing>>

\* An INSERT with version 1 (dynamic, freeform or through the route).
CreateCanvas ==
  /\ canvas = "none"
  /\ canvas' = "kept" /\ version' = 1
  /\ UNCHANGED <<contents, done, patching, tainted, public>>

\* Edits are numbered by the version they are made on.
InUse == {d[2] : d \in done} \union {patching[p].edit : p \in Patches}
Fresh(e) == e \in Edits \ InUse

Busy == \E p \in Patches : patching[p].edit # 0

\* update_canvas: the fields given, and version + 1, in one UPDATE.
UpdateCanvas(c, e) ==
  /\ canvas = "kept" /\ Fresh(e)
  /\ contents' = [contents EXCEPT ![c] = @ \union {e}]
  /\ version' = version + 1
  /\ done' = done \union {<<c, e>>}
  /\ tainted' = (tainted \/ Busy)
  /\ UNCHANGED <<canvas, patching, public>>

\* patch_canvas reads the row and edits in memory,
PatchRead(p, c, e) ==
  /\ canvas = "kept" /\ patching[p].edit = 0 /\ Fresh(e)
  /\ patching' = [patching EXCEPT ![p] = [edit |-> e, of |-> c, read |-> contents]]
  /\ UNCHANGED <<canvas, contents, version, done, tainted, public>>

Edited(p) == [patching[p].read EXCEPT ![patching[p].of] = @ \union {patching[p].edit}]

\* then writes html, css and js over whatever is there; no row is an error.
PatchWrite(p) ==
  /\ patching[p].edit # 0
  /\ patching' = [patching EXCEPT ![p] = NoPatch]
  /\ IF canvas = "kept"
       THEN /\ contents' = Edited(p)
            /\ version' = version + 1
            /\ done' = done \union {<<patching[p].of, patching[p].edit>>}
            /\ tainted' = (tainted \/ \E q \in Patches :
                                        q # p /\ patching[q].edit # 0)
       ELSE UNCHANGED <<contents, version, done, tainted>>
  /\ UNCHANGED <<canvas, public>>

\* publish_canvas reads the slug,
PublishRead ==
  /\ canvas = "kept" /\ ~publishing
  /\ publishing' = TRUE
  /\ UNCHANGED <<canvas, contents, version, done, patching, tainted, address,
                 addresses>>

\* and writes a random address: a later publish replaces an earlier one.  The
\* UPDATE of a row that went meanwhile does nothing, and the call succeeds.
PublishWrite ==
  /\ publishing /\ addresses < MaxEdits
  /\ addresses' = addresses + 1
  /\ address' = IF canvas = "kept" THEN addresses' ELSE address
  /\ publishing' = FALSE
  /\ UNCHANGED <<canvas, contents, version, done, patching, tainted>>

\* unpublish_canvas exists in the engine.
UnpublishCanvas ==
  /\ address # 0
  /\ address' = 0
  /\ UNCHANGED <<canvas, contents, version, done, patching, tainted, addresses,
                 publishing>>

DeleteCanvas ==
  /\ canvas = "kept"
  /\ canvas' = "deleted" /\ address' = 0
  /\ UNCHANGED <<contents, version, done, patching, tainted, addresses,
                 publishing>>

CanvasesNext ==
  \/ CreateCanvas \/ PublishRead \/ PublishWrite \/ UnpublishCanvas
  \/ DeleteCanvas
  \/ \E p \in Patches : PatchWrite(p)
  \/ \E c \in Contents, e \in Edits :
       UpdateCanvas(c, e) \/ \E p \in Patches : PatchRead(p, c, e)

CanvasesTypeOK ==
  /\ canvas \in {"none", "kept", "deleted"}
  /\ contents \in [Contents -> SUBSET Edits]
  /\ version \in 0 .. MaxEdits + 1
  /\ done \subseteq Contents \X Edits
  /\ tainted \in BOOLEAN /\ publishing \in BOOLEAN
  /\ address \in 0 .. MaxEdits /\ addresses \in 0 .. MaxEdits

\* An edit that was answered with success is in the canvas, unless something
\* else wrote while a patch was under way: a patch writes the contents it did
\* not edit as well, so an update of the css is lost to a patch of the html.
EditsSurvive == ~tainted => \A d \in done : d[2] \in contents[d[1]]

\* Every write that was answered with success is one version, also those that
\* overlapped and lost each other's text: the version tells how often a canvas
\* was written, not what it shows.
VersionsCountWrites ==
  \/ version = 0 /\ done = {}
  \/ version = 1 + Cardinality(done)

\* A deleted canvas has no address, although a publication may be under way.
DeletedIsPrivate == canvas = "deleted" => address = 0

(****************************************************************************)
(* Small applications on a canvas: a list of views kept as its metadata,    *)
(* and the page rendered from it.  An update reads the list, changes one    *)
(* view of it and writes list and page back; canvas tools may write the     *)
(* page alone.                                                              *)
(****************************************************************************)
CONSTANTS Slugs, AppCalls, MaxViews, NoSlug

VARIABLES config, page, updates, patched

appsVars == <<config, page, updates, patched>>

View == [slug : Slugs, is_default : BOOLEAN]
Configs == UNION {[1..n -> View] : n \in 1..MaxViews}
NoPage == [active |-> {}, shown |-> {}]
Idle == [stage |-> "idle", base |-> <<>>, slug |-> NoSlug, is_default |-> FALSE]

AppsInit ==
  /\ config = <<>>
  /\ page = NoPage
  /\ updates = [c \in AppCalls |-> Idle]
  /\ patched = FALSE

\* The first view that says so is the default one, or the first of all.
DefaultSlug(views) ==
  LET said == {i \in DOMAIN views : views[i].is_default}
      first == IF said = {} THEN 1 ELSE CHOOSE i \in said : \A j \in said : i <= j
  IN  views[first].slug

\* Every view that calls itself the default is marked in the navigation; what
\* is shown is the view, by its slug, that the default comes down to.
RenderAppHtml(views) ==
  [active |-> {i \in DOMAIN views : views[i].is_default},
   shown |-> {i \in DOMAIN views : views[i].slug = DefaultSlug(views)}]

\* The slugs of the views an application is made with are not compared.
CreateApp ==
  /\ config = <<>>
  /\ config' \in Configs
  /\ page' = RenderAppHtml(config')
  /\ UNCHANGED <<updates, patched>>

UpdateAppView(c, slug) ==
  /\ updates[c].stage = "idle" /\ config # <<>>
  /\ \E is_default \in BOOLEAN :
       updates' = [updates EXCEPT ![c] = [stage |-> "read", base |-> config, slug |-> slug,
                                          is_default |-> is_default]]
  /\ UNCHANGED <<config, page, patched>>

\* The view with the slug, or a new one at the end.
WithView(views, view) ==
  LET same == {i \in DOMAIN views : views[i].slug = view.slug}
  IN  IF same = {} THEN Append(views, view)
      ELSE [views EXCEPT ![CHOOSE i \in same : \A j \in same : i <= j] = view]

\* List and page are written together, over whatever is there by now.
WriteView(c) ==
  /\ updates[c].stage = "read"
  /\ config' = WithView(updates[c].base, [slug |-> updates[c].slug, is_default |-> updates[c].is_default])
  /\ Len(config') <= MaxViews
  /\ page' = RenderAppHtml(config')
  /\ patched' = FALSE
  /\ updates' = [updates EXCEPT ![c] = Idle]

UpdateFails(c) ==
  /\ updates[c].stage = "read"
  /\ updates' = [updates EXCEPT ![c] = Idle]
  /\ UNCHANGED <<config, page, patched>>

\* The canvas tools write a page and know nothing of the list.
PatchPage ==
  /\ config # <<>>
  /\ page' = NoPage
  /\ patched' = TRUE
  /\ UNCHANGED <<config, updates>>

AppsNext ==
  \/ CreateApp \/ PatchPage
  \/ \E c \in AppCalls :
       (\E slug \in Slugs : UpdateAppView(c, slug)) \/ WriteView(c) \/ UpdateFails(c)

AppsTypeOK ==
  /\ config \in Configs \cup {<<>>} /\ patched \in BOOLEAN
  /\ page \in [active : SUBSET (1..MaxViews), shown : SUBSET (1..MaxViews)]
  /\ updates \in [AppCalls -> [stage : {"idle", "read"}, base : Configs \cup {<<>>},
                               slug : Slugs \cup {NoSlug}, is_default : BOOLEAN]]

----------------------------------------------------------------------------
\* The page shows what the list says, however the updates overlap, until a
\* canvas tool writes the page.
PageShowsTheList == config # <<>> /\ ~patched => page = RenderAppHtml(config)

Distinct(views) == \A i, j \in DOMAIN views : views[i].slug = views[j].slug => i = j

\* Of views with slugs of their own exactly one is shown, though several may
\* be marked.
OneViewIsShown ==
  config # <<>> /\ ~patched /\ Distinct(config) => \E i \in DOMAIN config : page.shown = {i}

SlugsOf(views) == {views[i].slug : i \in DOMAIN views}

\* An update whose list is still the current one when it writes loses no view;
\* only an update that another has overtaken can.
FreshUpdatesKeepViews ==
  [][ \A c \in AppCalls :
        updates[c].base = config /\ config # <<>> /\ config' # config
        /\ updates[c].stage = "read" /\ updates'[c].stage = "idle" =>
          SlugsOf(config) \subseteq SlugsOf(config') ]_appsVars

(****************************************************************************)
(* All of it.                                                               *)
(****************************************************************************)
canvasPagesVars == <<canvasVars, appsVars>>

Init ==
  /\ CanvasesInit
  /\ AppsInit

Next ==
  \/ CanvasesNext /\ UNCHANGED appsVars
  \/ AppsNext /\ UNCHANGED canvasVars

Spec == Init /\ [][Next]_canvasPagesVars

TypeOK ==
  /\ CanvasesTypeOK
  /\ AppsTypeOK
==============================================================================
