---- MODULE WorkspaceSetup ---------------------------------------------------
(****************************************************************************)
(* What sets a workspace up: templates, and packages that are switched on   *)
(* and off.  These share no state; each has its own section.                *)
(****************************************************************************)
EXTENDS Naturals, FiniteSets

(****************************************************************************)
(* A template applied to the workspace: its collections are defined anew,   *)
(* its canvases and automations are made if none has their name.  A fault   *)
(* ends the run where it is, and running it again is how it is completed.   *)
(****************************************************************************)
CONSTANTS CollectionCount, CanvasCount, AutomationCount, Applies, MaxCopies

VARIABLES copies, applying, raced, applied

templatesVars == <<copies, applying, raced, applied>>

\* The parts in the order they are applied; those after the collections are
\* asked for by name and made if they are not there.
Parts == 1..(CollectionCount + CanvasCount + AutomationCount)
IsCollection(i) == i <= CollectionCount
IsCanvas(i) == ~IsCollection(i) /\ i <= CollectionCount + CanvasCount
Idle == [stage |-> "idle", at |-> 1]

TemplatesInit ==
  /\ copies = [i \in Parts |-> 0]
  /\ applying = [r \in Applies |-> Idle]
  /\ raced = FALSE
  /\ applied = [r \in Applies |-> {}]

Others(r) == {q \in Applies \ {r} : applying[q].stage # "idle"}

ApplyTemplate(r) ==
  /\ applying[r].stage = "idle"
  /\ applying' = [applying EXCEPT ![r] = [stage |-> "check", at |-> 1]]
  /\ applied' = [applied EXCEPT ![r] = {}]
  /\ raced' = (raced \/ Others(r) # {})
  /\ UNCHANGED copies

Going(r, stage) == applying[r].stage = stage /\ applying[r].at \in Parts
Advance(r) ==
  /\ applying' = [applying EXCEPT ![r] = [stage |-> "check", at |-> @.at + 1]]
  /\ applied' = [applied EXCEPT ![r] = @ \cup {applying[r].at}]

\* A definition replaces the one of the same name.
DefineCollection(r) ==
  /\ Going(r, "check") /\ IsCollection(applying[r].at)
  /\ copies' = [copies EXCEPT ![applying[r].at] = 1]
  /\ Advance(r)
  /\ UNCHANGED raced

Exists(r) ==
  /\ Going(r, "check") /\ ~IsCollection(applying[r].at)
  /\ IF copies[applying[r].at] > 0
     THEN Advance(r)
     ELSE applying' = [applying EXCEPT ![r].stage = "make"] /\ UNCHANGED applied
  /\ UNCHANGED <<copies, raced>>

\* The slug of a canvas comes from its name and is unique; nothing is unique
\* about an automation.
Create(r) ==
  /\ Going(r, "make")
  /\ copies[applying[r].at] < (IF IsCanvas(applying[r].at) THEN 1 ELSE MaxCopies)
  /\ copies' = [copies EXCEPT ![applying[r].at] = @ + 1]
  /\ Advance(r)
  /\ UNCHANGED raced

\* A fault of the database, or an automation whose kind is unknown.
ApplyFails(r) ==
  /\ applying[r].stage # "idle"
  /\ applying' = [applying EXCEPT ![r] = Idle]
  /\ applied' = [applied EXCEPT ![r] = {}]
  /\ UNCHANGED <<copies, raced>>

ApplyEnds(r) ==
  /\ applying[r] = [stage |-> "check", at |-> Cardinality(Parts) + 1]
  /\ applying' = [applying EXCEPT ![r] = Idle]
  /\ UNCHANGED <<copies, raced, applied>>

TemplatesNext ==
  \E r \in Applies :
    \/ ApplyTemplate(r) \/ DefineCollection(r) \/ Exists(r) \/ Create(r)
    \/ ApplyFails(r) \/ ApplyEnds(r)

TemplatesTypeOK ==
  /\ copies \in [Parts -> 0..MaxCopies] /\ raced \in BOOLEAN
  /\ applying \in [Applies -> [stage : {"idle", "check", "make"}, at : 1..(Cardinality(Parts) + 1)]]
  /\ applied \in [Applies -> SUBSET Parts]

----------------------------------------------------------------------------
\* However often the template is applied and breaks off, nothing of it is
\* there twice; two runs that overlap can only double an automation.
NothingTwice ==
  \A i \in Parts : IsCollection(i) \/ IsCanvas(i) \/ ~raced => copies[i] <= 1

\* A run that came to its end leaves the workspace with every part.
AppliedIsWhole ==
  \A r \in Applies : applied[r] = Parts => \A i \in Parts : copies[i] > 0

(****************************************************************************)
(* Packages of tools.  Their rows say which are enabled, a start of the     *)
(* harness registers the tools of those and of the ones the environment     *)
(* asks for, and a switch in the administration writes the row and then the *)
(* registry of the running process.  Nothing makes the two one step.        *)
(****************************************************************************)
CONSTANTS Packages, Requested, Admins, MaxStarts

VARIABLES rows, loading, registered, enabled, switching, crossed, starts

packagesVars == <<rows, loading, registered, enabled, switching, crossed, starts>>

Absent == "absent"
NoSwitch == [stage |-> "idle", package |-> {}, on |-> FALSE]

\* "loading" holds the packages a start has yet to look at; a process that is
\* down or up has none.  "crossed": those whose rows and registry may differ,
\* because a write was lost at the start or two switches overlapped.
PackagesInit ==
  /\ rows = [p \in Packages |-> Absent]
  /\ loading = [state |-> "down", left |-> {}]
  /\ registered = {}
  /\ enabled = {}
  /\ switching = [a \in Admins |-> NoSwitch]
  /\ crossed = {}
  /\ starts = 0

StartHarness ==
  /\ loading.state = "down"
  /\ starts < MaxStarts
  /\ starts' = starts + 1
  /\ loading' = [state |-> "loading", left |-> Packages]
  /\ registered' = {}
  /\ enabled' = {}
  /\ crossed' = {}
  /\ UNCHANGED <<rows, switching>>

\* What the row says before the environment is heard: a new row says nothing.
UpsertPackage(p, before, after) ==
  /\ before = (rows[p] = "on")
  /\ after = IF before \/ p \in Requested THEN "on" ELSE "off"

RegisterTools(p) ==
  /\ registered' = registered \cup {p}
  /\ enabled' = enabled \cup {p}

\* The tools of an enabled package are registered and its row written; a write
\* that fails is not noticed.
LoadPackage(p) ==
  /\ loading.state = "loading" /\ p \in loading.left
  /\ loading' = [loading EXCEPT !.left = @ \ {p}]
  /\ \E before \in BOOLEAN, after \in {"on", "off"}, lost \in BOOLEAN :
       /\ UpsertPackage(p, before, after)
       /\ rows' = IF lost THEN rows ELSE [rows EXCEPT ![p] = after]
       /\ IF p \in Requested \/ before
          THEN RegisterTools(p)
          ELSE UNCHANGED <<registered, enabled>>
       /\ crossed' = IF lost THEN crossed \cup {p} ELSE crossed
  /\ UNCHANGED <<switching, starts>>

\* Each activated package makes its collections; one that fails ends the start.
ActivatePackages ==
  /\ loading = [state |-> "loading", left |-> {}]
  /\ \E ready \in {"up", "down"} : loading' = [loading EXCEPT !.state = ready]
  /\ UNCHANGED <<rows, registered, enabled, switching, crossed, starts>>

OtherAdmins(a, p) == {b \in Admins \ {a} : switching[b].stage # "idle" /\ switching[b].package = {p}}

\* A switch turns over what its own read found.
TogglePackage(a, p) ==
  /\ loading.state = "up" /\ switching[a].stage = "idle"
  /\ rows[p] # Absent
  /\ switching' = [switching EXCEPT ![a] =
                     [stage |-> "read", package |-> {p}, on |-> rows[p] = "off"]]
  /\ crossed' = IF OtherAdmins(a, p) = {} THEN crossed ELSE crossed \cup {p}
  /\ UNCHANGED <<rows, loading, registered, enabled, starts>>

WriteToggle(a) ==
  /\ switching[a].stage = "read"
  /\ \/ /\ rows' = [p \in Packages |-> IF p \in switching[a].package
                                       THEN (IF switching[a].on THEN "on" ELSE "off") ELSE rows[p]]
        /\ switching' = [switching EXCEPT ![a].stage = "written"]
     \/ switching' = [switching EXCEPT ![a] = NoSwitch] /\ UNCHANGED rows
  /\ UNCHANGED <<loading, registered, enabled, crossed, starts>>

SwitchTools(a) ==
  /\ switching[a].stage = "written"
  /\ enabled' = IF switching[a].on THEN enabled \cup switching[a].package
                                   ELSE enabled \ switching[a].package
  /\ switching' = [switching EXCEPT ![a] = NoSwitch]
  /\ UNCHANGED <<rows, loading, registered, crossed, starts>>

Crash ==
  /\ loading.state # "down"
  /\ loading' = [state |-> "down", left |-> {}]
  /\ switching' = [a \in Admins |-> NoSwitch]
  /\ UNCHANGED <<rows, registered, enabled, crossed, starts>>

PackagesNext ==
  \/ StartHarness \/ ActivatePackages \/ Crash
  \/ \E p \in Packages : LoadPackage(p)
  \/ \E a \in Admins : (\E p \in Packages : TogglePackage(a, p)) \/ WriteToggle(a) \/ SwitchTools(a)

PackagesTypeOK ==
  /\ rows \in [Packages -> {Absent, "on", "off"}]
  /\ loading.state \in {"down", "loading", "up"} /\ loading.left \subseteq Packages
  /\ registered \subseteq Packages /\ enabled \subseteq Packages /\ crossed \subseteq Packages
  /\ switching \in [Admins -> [stage : {"idle", "read", "written"},
                               package : {{}} \cup {{p} : p \in Packages}, on : BOOLEAN]]
  /\ starts \in 0..MaxStarts

----------------------------------------------------------------------------
Untouched(p) == p \notin crossed /\ \A a \in Admins : switching[a].package # {p}

\* While the harness runs, the registry shows the tools of a package exactly
\* when its row says enabled, unless two switches overlapped or a write was
\* lost; who reads the one need not read the other.
RegistryFollowsRows ==
  loading.state = "up" =>
    \A p \in Packages : Untouched(p) => (p \in enabled <=> rows[p] = "on")

\* What is enabled when the harness starts has its tools: only a package that
\* was off at the start can be enabled without any, and it stays so until the
\* next start.
EnabledAtStartHasTools ==
  [][ \A p \in Packages :
        loading = [state |-> "loading", left |-> {}] /\ loading'.state = "up"
        /\ rows[p] = "on" /\ p \notin crossed => p \in registered \cap enabled ]_packagesVars

(****************************************************************************)
(* All of it.                                                               *)
(****************************************************************************)
workspaceSetupVars == <<templatesVars, packagesVars>>

Init ==
  /\ TemplatesInit
  /\ PackagesInit

Next ==
  \/ TemplatesNext /\ UNCHANGED packagesVars
  \/ PackagesNext /\ UNCHANGED templatesVars

Spec == Init /\ [][Next]_workspaceSetupVars

TypeOK ==
  /\ TemplatesTypeOK
  /\ PackagesTypeOK
==============================================================================
