------------------------------- MODULE Sites --------------------------------
(***************************************************************************)
(* The site of one slug and its pages (sites.rs, routes/sites.rs,          *)
(* tools/site_tools.rs).  Every operation names the site by its slug, reads *)
(* its row and uses the id in a second statement, while others publish,    *)
(* delete and make the site again.  A visitor's form posts into a          *)
(* collection.  The text of pages is left out.                             *)
(***************************************************************************)
EXTENDS Naturals, FiniteSets

CONSTANTS
  Paths,       \* paths of pages
  Forms,       \* collections that forms post to
  NoForm,      \* form_collection is null
  SiteCalls,   \* callers of tools and routes, and visitors
  MaxSites     \* sites made under the slug in a run of the model

VARIABLES
  site,         \* [id, published]; id 0 when the slug is free
  siteCount,    \* sites made so far
  pages,        \* per path: [site, form]; site 0 when there is no page
  siteCalls,    \* per caller: what it read and does next
  ever,         \* ids of sites that were published at some time
  offered,      \* <<site, form>> that some page named at some time
  served,       \* visits answered: the id that was checked
  submissions   \* <<site, form>> of records that forms created

siteVars == <<site, siteCount, pages, siteCalls, ever, offered, served, submissions>>

NoSite == [id |-> 0, published |-> FALSE]
NoPage == [site |-> 0, form |-> NoForm]
Quiet == [step |-> "none", site |-> 0, at |-> {}, form |-> NoForm, next |-> "none"]

Init ==
  /\ site = NoSite /\ siteCount = 0
  /\ pages = [p \in Paths |-> NoPage]
  /\ siteCalls = [c \in SiteCalls |-> Quiet]
  /\ ever = {} /\ offered = {} /\ served = {} /\ submissions = {}

Step(c, step, id, at, form, next) ==
  siteCalls' = [siteCalls EXCEPT ![c] =
    [step |-> step, site |-> id, at |-> at, form |-> form, next |-> next]]
Ends(c) == siteCalls' = [siteCalls EXCEPT ![c] = Quiet]
Kept == UNCHANGED <<ever, offered, served, submissions>>

\* The slug is unique: a second insert fails.
MakeSite ==
  /\ site.id = 0 /\ siteCount < MaxSites
  /\ site' = [id |-> siteCount + 1, published |-> FALSE]
  /\ siteCount' = siteCount + 1

CreateSite == MakeSite /\ Kept /\ UNCHANGED <<pages, siteCalls>>

\* create_landing_page: a site, its index page and its publication, each a
\* statement of its own; a failure leaves what was done.
CreateLandingPage(c, p, f) ==
  /\ siteCalls[c].step = "none"
  /\ MakeSite /\ Step(c, "find", 0, {p}, f, "publish")
  /\ Kept /\ UNCHANGED pages

\* upsert_page looks the site up.
UpsertPage(c, p, f) ==
  /\ siteCalls[c].step = "none"
  /\ Step(c, "find", 0, {p}, f, "none")
  /\ Kept /\ UNCHANGED <<site, siteCount, pages>>

FindSite(c) ==
  /\ siteCalls[c].step = "find"
  /\ IF site.id = 0 THEN Ends(c)
     ELSE Step(c, "write", site.id, siteCalls[c].at, siteCalls[c].form,
               siteCalls[c].next)
  /\ Kept /\ UNCHANGED <<site, siteCount, pages>>

\* COALESCE: a form that is not given stays as it is.
Form(p, id, new) == IF pages[p].site # id \/ new # NoForm THEN new ELSE pages[p].form

PutPage(c, p, f) ==
  /\ pages' = [pages EXCEPT ![p] = [site |-> siteCalls[c].site, form |-> f]]
  /\ offered' = IF f = NoForm THEN offered
                ELSE offered \union {<<siteCalls[c].site, f>>}
  /\ IF siteCalls[c].next = "none" THEN Ends(c)
     ELSE siteCalls' = [siteCalls EXCEPT ![c].step = siteCalls[c].next]

\* Mutant of WritePage: no foreign key to the site.
WritePageAnyway(c) ==
  /\ siteCalls[c].step = "write"
  /\ \E p \in siteCalls[c].at :
       PutPage(c, p, Form(p, siteCalls[c].site, siteCalls[c].form))
  /\ UNCHANGED <<site, siteCount, ever, served, submissions>>

\* Insert or update the page of that path.  The site that was read may be gone:
\* the foreign key fails the call.
WritePage(c) ==
  /\ siteCalls[c].step = "write"
  /\ IF siteCalls[c].site # site.id THEN Ends(c) /\ UNCHANGED <<pages, offered>>
     ELSE \E p \in siteCalls[c].at :
            PutPage(c, p, Form(p, siteCalls[c].site, siteCalls[c].form))
  /\ UNCHANGED <<site, siteCount, ever, served, submissions>>

\* patch_page: the page that is read is written back with its patched text.
PatchPage(c, p) ==
  /\ siteCalls[c].step = "none" /\ site.id # 0 /\ pages[p].site = site.id
  /\ Step(c, "find", 0, {p}, pages[p].form, "none")
  /\ Kept /\ UNCHANGED <<site, siteCount, pages>>

SetPublished(publish) ==
  /\ site' = [site EXCEPT !.published = publish]
  /\ ever' = IF publish THEN ever \union {site.id} ELSE ever

PublishSite(publish) ==
  /\ site.id # 0 /\ SetPublished(publish)
  /\ UNCHANGED <<siteCount, pages, siteCalls, offered, served, submissions>>

\* The last step of create_landing_page publishes whatever site has the slug.
PublishLanding(c) ==
  /\ siteCalls[c].step = "publish" /\ Ends(c)
  /\ IF site.id = 0 THEN UNCHANGED <<site, ever>> ELSE SetPublished(TRUE)
  /\ UNCHANGED <<siteCount, pages, offered, served, submissions>>

\* Pages go with their site.
DeleteSite ==
  /\ site.id # 0
  /\ site' = NoSite
  /\ pages' = [p \in Paths |-> NoPage]
  /\ Kept /\ UNCHANGED <<siteCount, siteCalls>>

DeletePage(p) ==
  /\ pages[p].site # 0
  /\ pages' = [pages EXCEPT ![p] = NoPage]
  /\ Kept /\ UNCHANGED <<site, siteCount, siteCalls>>

\* A visit and a submission both begin by asking whether the site is published.
Visit(c, p) ==
  /\ siteCalls[c].step = "none" /\ site.published
  /\ Step(c, "serve", site.id, {p}, NoForm, "none")
  /\ Kept /\ UNCHANGED <<site, siteCount, pages>>

\* get_page reads the site again, by its slug, and the page by its id; nobody
\* asks again whether it is published.
Serve(c) ==
  /\ siteCalls[c].step = "serve" /\ Ends(c)
  /\ served' = IF site.id # 0 /\ \E p \in siteCalls[c].at : pages[p].site = site.id
                 THEN served \union {siteCalls[c].site} ELSE served
  /\ UNCHANGED <<site, siteCount, pages, ever, offered, submissions>>

Submit(c, f) ==
  /\ siteCalls[c].step = "none" /\ site.published
  /\ Step(c, "check", site.id, {}, f, "none")
  /\ Kept /\ UNCHANGED <<site, siteCount, pages>>

\* Some page of the site must name the collection.
CheckForm(c) ==
  /\ siteCalls[c].step = "check"
  /\ IF \E p \in Paths : pages[p] = [site |-> siteCalls[c].site,
                                     form |-> siteCalls[c].form]
       THEN siteCalls' = [siteCalls EXCEPT ![c].step = "create"]
       ELSE Ends(c)
  /\ Kept /\ UNCHANGED <<site, siteCount, pages>>

\* create_record, without an event sender.
CreateSubmission(c) ==
  /\ siteCalls[c].step = "create" /\ Ends(c)
  /\ submissions' = submissions \union {<<siteCalls[c].site, siteCalls[c].form>>}
  /\ UNCHANGED <<site, siteCount, pages, ever, offered, served>>

Next ==
  \/ CreateSite \/ DeleteSite
  \/ \E publish \in BOOLEAN : PublishSite(publish)
  \/ \E p \in Paths : DeletePage(p)
  \/ \E c \in SiteCalls :
       \/ FindSite(c) \/ WritePage(c) \/ PublishLanding(c) \/ Serve(c)
       \/ CheckForm(c) \/ CreateSubmission(c)
       \/ \E f \in Forms : Submit(c, f)
       \/ \E p \in Paths :
            \/ Visit(c, p) \/ PatchPage(c, p)
            \/ \E f \in Forms \union {NoForm} :
                 CreateLandingPage(c, p, f) \/ UpsertPage(c, p, f)

Spec == Init /\ [][Next]_siteVars

TypeOK ==
  /\ site.id \in 0 .. MaxSites /\ site.published \in BOOLEAN
  /\ pages \in [Paths -> [site : 0 .. MaxSites, form : Forms \union {NoForm}]]
  /\ \A c \in SiteCalls : siteCalls[c].step \in
       {"none", "find", "write", "publish", "serve", "check", "create"}
  /\ ever \subseteq 1 .. MaxSites

\* Pages are those of the site that stands: a call that looked a site up never
\* leaves its page in the one that took the slug since (upsert_page).
PagesBelong == \A p \in Paths : pages[p].site \in {0, site.id}

\* Nobody is shown a page before some site of the slug was published
\* (serve_site_index, serve_site_page).
ServedWasPublished == served \subseteq ever

\* A form creates records only in a collection that a page of its own site named,
\* on a site that was published (handle_form_submit).
SubmissionsWereOffered ==
  submissions \subseteq offered /\ \A s \in submissions : s[1] \in ever

\* A page that has a form keeps one as long as it stands: a patch that read it
\* before the form was set does not take it away (COALESCE in upsert_page).
FormsAreKept ==
  [][\A p \in Paths :
       pages[p].form # NoForm /\ pages'[p].site = pages[p].site
         => pages'[p].form # NoForm]_pages
=============================================================================
