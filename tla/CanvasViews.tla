---- MODULE CanvasViews ------------------------------------------------------
(****************************************************************************)
(* What is generated for a canvas and what is drawn on a board.  These      *)
(* share no state; each has its own section.                                *)
(****************************************************************************)
EXTENDS Naturals, Sequences, FiniteSetsExt, FiniteSets

(****************************************************************************)
(* A canvas from the answer of a model: headings and fenced code, in the    *)
(* order the model writes them, cut where its answer ends.  Each section is *)
(* found by its heading and the next pair of fences; without an HTML        *)
(* section the static template of the canvas type is taken.                 *)
(****************************************************************************)
CONSTANTS CanvasTypes, MaxCode

VARIABLES canvasType, reply, call, canvas

generationVars == <<canvasType, reply, call, canvas>>

Sections == <<"html", "js", "css">>
Templates == {"list", "freeform", "dashboard", "form", "detail", "kanban", "calendar"}
Nothing == <<>>
NoCanvas == [from |-> "none", html |-> Nothing, js |-> Nothing, css |-> Nothing]

CanvasGenerationInit ==
  /\ canvasType = "custom"
  /\ reply = <<>>
  /\ call = "idle"
  /\ canvas = NoCanvas

GenerateCanvas ==
  /\ call = "idle"
  /\ \E t \in CanvasTypes : canvasType' = t
  /\ \E answers \in BOOLEAN : call' = IF answers THEN "asked" ELSE "static"
  /\ UNCHANGED <<reply, canvas>>

\* The lines of a reply: a heading, a fence, or code of a section.
Heading(s) == [kind |-> "heading", of |-> s]
Fence(s) == [kind |-> "fence", of |-> s]
Code(s) == [kind |-> "code", of |-> s]
Count(line) == Cardinality({i \in DOMAIN reply : reply[i] = line})
Begun == {s \in DOMAIN Sections : Count(Heading(Sections[s])) > 0}

\* The model follows the format it is told: sections in order, some left out,
\* each a heading and its code between two fences.
ModelWrites ==
  /\ call = "asked"
  /\ \E s \in DOMAIN Sections :
       \/ /\ \A b \in Begun : b < s /\ Count(Fence(Sections[b])) = 2
          /\ reply' = Append(reply, Heading(Sections[s]))
       \/ /\ Begun # {} /\ s = Max(Begun)
          /\ \/ /\ Count(Fence(Sections[s])) = 0
                /\ reply' = Append(reply, Fence(Sections[s]))
             \/ /\ Count(Fence(Sections[s])) = 1
                /\ Count(Code(Sections[s])) < MaxCode
                /\ reply' = Append(reply, Code(Sections[s]))
             \/ /\ Count(Fence(Sections[s])) = 1
                /\ Count(Code(Sections[s])) > 0
                /\ reply' = Append(reply, Fence(Sections[s]))
  /\ UNCHANGED <<canvasType, call, canvas>>

After(p, kind) == {i \in DOMAIN reply : i > p /\ reply[i].kind = kind}
Places(s) == {i \in DOMAIN reply : reply[i] = Heading(s)}

\* What is between the next two fences after the heading.
ExtractSection(s) ==
  IF Places(s) = {} THEN Nothing
  ELSE LET fences == After(Min(Places(s)), "fence") IN
       IF Cardinality(fences) < 2 THEN Nothing
       ELSE SubSeq(reply, Min(fences) + 1, Min(fences \ {Min(fences)}) - 1)

\* An answer without HTML, or an error of the call, leaves the template.
ParseGeneratedContent ==
  /\ call = "asked"
  /\ IF ExtractSection("html") = Nothing
     THEN call' = "static" /\ UNCHANGED canvas
     ELSE /\ call' = "done"
          /\ canvas' = [from |-> "model", html |-> ExtractSection("html"),
                        js |-> ExtractSection("js"), css |-> ExtractSection("css")]
  /\ UNCHANGED <<canvasType, reply>>

ModelFails ==
  /\ call = "asked"
  /\ call' = "static"
  /\ UNCHANGED <<canvasType, reply, canvas>>

TemplateKey ==
  CASE canvasType \in {"dynamic", "datagrid"} -> "list"
    [] canvasType \in {"freeform", "custom"} -> "freeform"
    [] canvasType \in {"dashboard", "report"} -> "dashboard"
    [] canvasType \in {"form", "wizard"} -> "form"
    [] canvasType \in {"detail", "kanban", "calendar"} -> canvasType

UseStaticTemplate ==
  /\ call = "static"
  /\ call' = IF TemplateKey \in Templates THEN "done" ELSE "failed"
  /\ canvas' = IF TemplateKey \in Templates THEN [NoCanvas EXCEPT !.from = "template"] ELSE canvas
  /\ UNCHANGED <<canvasType, reply>>

CanvasGenerationNext == GenerateCanvas \/ ModelWrites \/ ParseGeneratedContent \/ ModelFails \/ UseStaticTemplate

CanvasGenerationTypeOK ==
  /\ canvasType \in CanvasTypes \cup {"custom"}
  /\ call \in {"idle", "asked", "static", "done", "failed"}
  /\ canvas.from \in {"none", "model", "template"}
  /\ canvas.from # "model" => canvas.html = Nothing

----------------------------------------------------------------------------
\* Every section of a canvas is all of the code the model wrote for it and
\* nothing else, wherever the answer was cut and whichever sections it has.
SectionsAreOwn ==
  LET own(s) == [i \in 1..Count(Code(s)) |-> Code(s)] IN
  canvas.from = "model" =>
    /\ canvas.html = own("html") /\ canvas.html # Nothing
    /\ canvas.js \in {Nothing, own("js")}
    /\ canvas.css \in {Nothing, own("css")}
    /\ Count(Fence("js")) = 2 => canvas.js # Nothing

\* Code that was cut off is left out and not run as far as it came.
CutCodeIsLeftOut ==
  canvas.from = "model" =>
    /\ canvas.js # Nothing => Count(Fence("js")) = 2
    /\ canvas.css # Nothing => Count(Fence("css")) = 2

\* The generation of a canvas of any type ends with a canvas.
NeverWithoutCanvas == call # "failed"

(****************************************************************************)
(* A kanban canvas drawn from a collection: its newest records are read,    *)
(* then, by another query, its fields; the first field fit for grouping     *)
(* gives a column for each of its choices, and each card goes into the      *)
(* column of its value.  Records and fields change in between.              *)
(****************************************************************************)
CONSTANTS MaxCards, CardLimit, MaxFields, MaxChanges

VARIABLES fields, cards, drawing, changes

kanbanVars == <<fields, cards, drawing, changes>>

\* A value is one of the choices, or none of them.
NoValue == 0
FieldChoices == 1..2
CardValues == FieldChoices \cup {NoValue}
FieldKinds == [stage : BOOLEAN, type : {"enum"}, choices : {{}, {1}, FieldChoices}]
                \cup [stage : {TRUE}, type : {"text"}, choices : {{}}]
\* The group_by of a canvas names a field, or is not given.
NotPreferred == 0

NoDrawing == [pc |-> "idle", preferred |-> NotPreferred, read |-> {}, field |-> 0, columns |-> <<>>]

KanbanBoardInit ==
  /\ fields = <<>>
  /\ cards = <<>>
  /\ drawing = NoDrawing
  /\ changes = 0

DefineCollection ==
  /\ changes < MaxChanges /\ changes' = changes + 1
  /\ \E n \in 1..MaxFields, defined \in [1..MaxFields -> FieldKinds] : fields' = SubSeq(defined, 1, n)
  /\ UNCHANGED <<cards, drawing>>

CreateRecord ==
  /\ Len(cards) < MaxCards /\ changes < MaxChanges /\ changes' = changes + 1
  /\ \E v \in CardValues : cards' = Append(cards, [id |-> Len(cards) + 1, value |-> v])
  /\ UNCHANGED <<fields, drawing>>

UpdateRecord ==
  /\ changes < MaxChanges /\ changes' = changes + 1
  /\ \E i \in DOMAIN cards, v \in CardValues : cards' = [cards EXCEPT ![i].value = v]
  /\ UNCHANGED <<fields, drawing>>

\* The newest ones first, no more than the limit.
Newest == {cards[i] : i \in {j \in DOMAIN cards : Len(cards) - j < CardLimit}}

FetchCollectionData ==
  /\ drawing.pc \in {"idle", "drawn"}
  /\ \E p \in {NotPreferred} \cup 1..MaxFields :
       drawing' = [NoDrawing EXCEPT !.pc = "read", !.preferred = p, !.read = Newest]
  /\ UNCHANGED <<fields, cards, changes>>

\* Without a preference the fields of a stage or status go before all others.
GroupFields(fs, preferred) ==
  {f \in DOMAIN fs :
     /\ fs[f].type = "enum" /\ fs[f].choices # {}
     /\ IF preferred # NotPreferred THEN f = preferred
        ELSE fs[f].stage \/ \A g \in DOMAIN fs : ~fs[g].stage}

Columns(choices, read) == [c \in choices |-> {card \in read : card.value = c}]

\* No field fit for grouping, no columns at all.
BuildKanbanColumns ==
  /\ drawing.pc = "read"
  /\ LET fit == GroupFields(fields, drawing.preferred) IN
       drawing' = IF fit = {} THEN [drawing EXCEPT !.pc = "drawn"]
                  ELSE LET f == CHOOSE g \in fit : \A h \in fit : g <= h IN
                         [drawing EXCEPT !.pc = "drawn", !.field = f,
                                         !.columns = Columns(fields[f].choices, drawing.read)]
  /\ UNCHANGED <<fields, cards, changes>>

KanbanBoardNext == DefineCollection \/ CreateRecord \/ UpdateRecord \/ FetchCollectionData \/ BuildKanbanColumns

Cards == [id : 1..MaxCards, value : CardValues]

KanbanBoardTypeOK ==
  /\ Len(fields) <= MaxFields /\ \A f \in DOMAIN fields : fields[f] \in FieldKinds
  /\ Len(cards) <= MaxCards /\ \A i \in DOMAIN cards : cards[i] \in Cards
  /\ drawing.pc \in {"idle", "read", "drawn"} /\ drawing.preferred \in 0..MaxFields
  /\ drawing.read \subseteq Cards
  /\ \A c \in DOMAIN drawing.columns : drawing.columns[c] \subseteq Cards
  /\ changes \in 0..MaxChanges

----------------------------------------------------------------------------
Drawn == drawing.pc = "drawn" /\ drawing.field # 0
Shown == UNION {drawing.columns[c] : c \in DOMAIN drawing.columns}

\* However records and choices change while a board is drawn, a record is on
\* it once at most, with the value it is filed under, and one that is read and
\* not shown has a value none of the columns stands for.
CardsAreFiledOnce ==
  Drawn =>
    /\ Cardinality({card.id : card \in Shown}) = Cardinality(Shown)
    /\ \A c \in DOMAIN drawing.columns : \A card \in drawing.columns[c] : card.value = c
    /\ \A card \in drawing.read \ Shown : card.value \notin DOMAIN drawing.columns
    /\ Cardinality(Shown) <= CardLimit

\* A board with columns that follows the fields as they are: the preferred
\* field or none; without a preference a field that is no stage only where no
\* field is one, and a collection whose stage is mere text has no board.
StagesGoFirst ==
  [][drawing.pc = "read" /\ drawing'.pc = "drawn" =>
       LET stages == {f \in DOMAIN fields : fields[f].stage} IN
         /\ drawing'.field # 0 /\ drawing.preferred = NotPreferred /\ stages # {} => drawing'.field \in stages
         /\ drawing.preferred # NotPreferred => drawing'.field \in {0, drawing.preferred}
         /\ (\A f \in stages : fields[f].type = "text") /\ stages # {} /\ drawing.preferred = NotPreferred
              => drawing'.field = 0]_kanbanVars

(****************************************************************************)
(* All of it.                                                               *)
(****************************************************************************)
canvasViewsVars == <<generationVars, kanbanVars>>

Init ==
  /\ CanvasGenerationInit
  /\ KanbanBoardInit

Next ==
  \/ CanvasGenerationNext /\ UNCHANGED kanbanVars
  \/ KanbanBoardNext /\ UNCHANGED generationVars

Spec == Init /\ [][Next]_canvasViewsVars

TypeOK ==
  /\ CanvasGenerationTypeOK
  /\ KanbanBoardTypeOK
==============================================================================
