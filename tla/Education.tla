---- MODULE Education --------------------------------------------------------
(****************************************************************************)
(* The education package: courses and enrolments, what learners leave       *)
(* behind, and the manifest of a SCORM package.  These share no state; each *)
(* has its own section.                                                     *)
(****************************************************************************)
EXTENDS Naturals, FiniteSets, Sequences

(****************************************************************************)
(* Courses of the education package: its collections, the SCORM packages    *)
(* and the courses made from them, and the enrolments of one learner in one *)
(* course.  Every operation looks its collection up first and fails when it *)
(* is not there.                                                            *)
(****************************************************************************)
CONSTANTS Enrolling, MaxPackages, MaxEnrollments

VARIABLES collections, packages, courses, ingesting, checked, enrollments, overlapped

courseVars ==
  <<collections, packages, courses, ingesting, checked, enrollments, overlapped>>

EduCollections == {"edu_courses", "edu_scorm_packages", "edu_enrollments"}
Statuses == {"enrolled", "completed", "withdrawn"}

CoursesInit ==
  /\ collections = {}
  /\ packages = {}
  /\ courses = {}
  /\ ingesting = 0
  /\ checked = {}
  /\ enrollments = <<>>
  /\ overlapped = FALSE

\* Activation creates what is missing; a creation that fails is only logged.
BootstrapSchemas ==
  /\ \E made \in SUBSET (EduCollections \ collections) : collections' = collections \cup made
  /\ UNCHANGED <<packages, courses, ingesting, checked, enrollments, overlapped>>

InsertPackage ==
  /\ ingesting = 0
  /\ Cardinality(packages) < MaxPackages
  /\ "edu_scorm_packages" \in collections
  /\ packages' = packages \cup {Cardinality(packages) + 1}
  /\ ingesting' = Cardinality(packages) + 1
  /\ UNCHANGED <<collections, courses, checked, enrollments, overlapped>>

InsertCourse ==
  /\ ingesting # 0
  /\ "edu_courses" \in collections
  /\ courses' = courses \cup {ingesting}
  /\ ingesting' = 0
  /\ UNCHANGED <<collections, packages, checked, enrollments, overlapped>>

\* Nothing undoes the package.
InsertCourseFails ==
  /\ ingesting # 0
  /\ ingesting' = 0
  /\ UNCHANGED <<collections, packages, courses, checked, enrollments, overlapped>>

IngestScorm == InsertPackage

Enrolled == {i \in DOMAIN enrollments : enrollments[i] # "withdrawn"}
\* The check and the insertion are two statements.
CheckEnrollment(c) ==
  /\ c \notin checked
  /\ Enrolled = {}
  /\ checked' = checked \cup {c}
  /\ overlapped' = (overlapped \/ checked # {})
  /\ UNCHANGED <<collections, packages, courses, ingesting, enrollments>>

EnrollLearner(c) ==
  /\ c \in checked
  /\ "edu_enrollments" \in collections
  /\ Len(enrollments) < MaxEnrollments
  /\ enrollments' = Append(enrollments, "enrolled")
  /\ checked' = checked \ {c}
  /\ UNCHANGED <<collections, packages, courses, ingesting, overlapped>>

EnrollFails(c) ==
  /\ c \in checked
  /\ checked' = checked \ {c}
  /\ UNCHANGED <<collections, packages, courses, ingesting, enrollments, overlapped>>

\* The package itself never changes a status; the record tools do.
UpdateEnrollment ==
  /\ \E i \in DOMAIN enrollments, s \in {"completed", "withdrawn"} :
       /\ enrollments[i] = "enrolled"
       /\ enrollments' = [enrollments EXCEPT ![i] = s]
  /\ UNCHANGED <<collections, packages, courses, ingesting, checked, overlapped>>

CoursesNext ==
  \/ BootstrapSchemas \/ IngestScorm \/ InsertCourse \/ InsertCourseFails \/ UpdateEnrollment
  \/ \E c \in Enrolling : CheckEnrollment(c) \/ EnrollLearner(c) \/ EnrollFails(c)

CoursesTypeOK ==
  /\ collections \subseteq EduCollections
  /\ packages \subseteq 1..MaxPackages /\ courses \subseteq 1..MaxPackages
  /\ ingesting \in 0..MaxPackages
  /\ checked \subseteq Enrolling
  /\ enrollments \in Seq(Statuses) /\ overlapped \in BOOLEAN

----------------------------------------------------------------------------
\* A course can be launched: its package is there, whatever step of the
\* ingestion failed.
CoursesHavePackages == courses \subseteq packages

\* A learner has one enrolment that is not withdrawn, unless two calls were
\* between their check and their insertion at the same time.
EnrolledOnce == Cardinality(Enrolled) <= 1 \/ overlapped

(****************************************************************************)
(* What the education package records of learners: the runtime data a SCORM *)
(* player commits while a course is played, its completions, certificates   *)
(* issued for them, and what is known of one learner in one area.           *)
(****************************************************************************)
CONSTANTS Learners, Played, MaxCommits, MaxAssessments, Levels

VARIABLES schema, committed, answered, certificates, evidence, gap, analysis

learnerVars == <<schema, committed, answered, certificates, evidence, gap, analysis>>

NoGap == [level |-> 0, status |-> "none"]
NoAnalysis == [pc |-> "none", learners |-> {}, completions |-> 0, certificates |-> 0, gap |-> NoGap]

\* schema says whether the collection of completions is there.
LearnerRecordsInit ==
  /\ schema = FALSE
  /\ committed = <<>>
  /\ answered = <<>>
  /\ certificates = 0
  /\ evidence = <<>>
  /\ gap = NoGap
  /\ analysis = NoAnalysis

OnActivate ==
  /\ ~schema
  /\ schema' = TRUE
  /\ UNCHANGED <<committed, answered, certificates, evidence, gap, analysis>>

CommitReplaces(l, p) ==
  /\ Len(answered) < MaxCommits
  /\ LET row == [learner |-> l, package |-> p, data |-> Len(answered) + 1, stored |-> schema]
         others == SelectSeq(committed, LAMBDA r : r.package # p) IN
       /\ answered' = Append(answered, row)
       /\ committed' = IF schema THEN Append(others, row) ELSE committed
  /\ UNCHANGED <<schema, certificates, evidence, gap, analysis>>

\* Every commit is a row of its own; without the collection no row is
\* inserted, and the player is told success all the same.
ScormRuntimeCommit(l, p) ==
  /\ Len(answered) < MaxCommits
  /\ LET row == [learner |-> l, package |-> p, data |-> Len(answered) + 1, stored |-> schema] IN
       /\ answered' = Append(answered, row)
       /\ committed' = IF schema THEN Append(committed, row) ELSE committed
  /\ UNCHANGED <<schema, certificates, evidence, gap, analysis>>

OfPackage(p) == SelectSeq(committed, LAMBDA r : r.package = p)

\* The newest row of the package, whoever played it; nothing without one.
ScormRuntimeFetch(p) ==
  LET rows == OfPackage(p) IN IF rows = <<>> THEN {} ELSE {rows[Len(rows)]}

\* No completion is asked for.
IssueCertificate ==
  /\ certificates < 1
  /\ certificates' = certificates + 1
  /\ UNCHANGED <<schema, committed, answered, evidence, gap, analysis>>

\* One upsert: the first assessment inserts the row, later ones overwrite the
\* level and append their evidence.
UpdateKnowledgeGap(level, status) ==
  /\ Len(evidence) < MaxAssessments
  /\ evidence' = Append(evidence, level)
  /\ gap' = [level |-> level, status |-> status]
  /\ UNCHANGED <<schema, committed, answered, certificates, analysis>>

Completions(l) == SelectSeq(committed, LAMBDA r : r.learner = l)

\* The analysis of a learner asks one thing after another: completions first,
AnalyzeLearner(l) ==
  /\ analysis.pc # "asking"
  /\ analysis' = [NoAnalysis EXCEPT !.pc = "asking", !.learners = {l}, !.completions = Len(Completions(l))]
  /\ UNCHANGED <<schema, committed, answered, certificates, evidence, gap>>

\* then certificates and gaps.
AnalysisEnds ==
  /\ analysis.pc = "asking"
  /\ analysis' = [analysis EXCEPT !.pc = "told", !.certificates = certificates, !.gap = gap]
  /\ UNCHANGED <<schema, committed, answered, certificates, evidence, gap>>

LearnerRecordsNext ==
  \/ OnActivate \/ IssueCertificate
  \/ \E l \in Learners, p \in Played : ScormRuntimeCommit(l, p)
  \/ \E n \in Levels, s \in {"identified", "resolved"} : UpdateKnowledgeGap(n, s)
  \/ (\E l \in Learners : AnalyzeLearner(l)) \/ AnalysisEnds

LearnerRecordsTypeOK ==
  /\ schema \in BOOLEAN /\ certificates \in 0..1
  /\ Len(committed) <= Len(answered) /\ Len(answered) <= MaxCommits
  /\ evidence \in Seq(Levels) /\ gap.level \in Levels \cup {0}
  /\ analysis.pc \in {"none", "asking", "told"} /\ analysis.learners \subseteq Learners
  /\ analysis.completions \in 0..MaxCommits /\ analysis.certificates \in 0..1

----------------------------------------------------------------------------
StoredWithSchema == SelectSeq(answered, LAMBDA r : r.stored)

\* A player that comes back gets the last data that was committed for its
\* package since the package was activated: no commit hides another's.
NothingCommittedIsLost == committed = StoredWithSchema

\* A resumed course gets the data of the last player, which is the learner's
\* own when nobody else played since.
ResumesOwnData ==
  \A l \in Learners, p \in Played :
    LET mine == SelectSeq(OfPackage(p), LAMBDA r : r.learner = l) IN
      mine = OfPackage(p) /\ mine # <<>> =>
        ScormRuntimeFetch(p) = {mine[Len(mine)]}

\* What is known of the learner is what the last evidence says, and all of the
\* evidence is kept.
GapFollowsEvidence ==
  [][evidence' # evidence =>
       /\ Len(evidence') = Len(evidence) + 1
       /\ gap'.level = evidence'[Len(evidence')]]_<<evidence, gap>>

\* An analysis tells of a learner what was once recorded of that learner: no
\* completion of another is counted, and it may only be behind, the parts of
\* it not equally.
AnalysisIsOwn ==
  \A l \in analysis.learners :
    /\ analysis.completions <= Len(Completions(l))
    /\ analysis.certificates <= certificates
    /\ analysis.gap # NoGap => \E k \in DOMAIN evidence : evidence[k] = analysis.gap.level

(****************************************************************************)
(* The reader of a SCORM manifest: a stream of XML events and the few       *)
(* variables in which it remembers where it is.  The stream is well formed; *)
(* its organizations and its resources come in either order.  An item may   *)
(* refer to a resource, and may hold further items; one that is written as  *)
(* an empty element is not seen at all, and is left out here.               *)
(****************************************************************************)
CONSTANTS MaxItems, MaxDepth, NoRef

VARIABLES section, past, open, refs, parents, inItem, currentRef, currentTitle, pending, declared, resources, courseTitle, scos

manifestVars ==
  <<section, past, open, refs, parents, inItem, currentRef, currentTitle, pending, declared, resources, courseTitle, scos>>

\* Items are numbered as they open; open is the stack of those not closed.
\* An item that refers to a resource refers to one of its own number, which
\* the manifest may declare or not; the reader may know it or not.
Sections == {"organizations", "resources"}
Untitled == 0
OrganizationsTitle == MaxItems + 1

ScormManifestInit ==
  /\ section = "none" /\ past = {}
  /\ open = <<>> /\ refs = <<>> /\ parents = {}
  /\ inItem = FALSE /\ currentRef = NoRef /\ currentTitle = Untitled
  /\ pending = <<>>
  /\ resources = {} /\ declared = {}
  /\ courseTitle = Untitled
  /\ scos = <<>>

StartSection(s) ==
  /\ section = "none" /\ s \notin past
  /\ section' = s
  /\ UNCHANGED <<past, open, refs, parents, inItem, currentRef, currentTitle, pending, declared, resources, courseTitle, scos>>

EndSection ==
  /\ section \in Sections /\ open = <<>>
  /\ section' = "none" /\ past' = past \cup {section}
  /\ UNCHANGED <<open, refs, parents, inItem, currentRef, currentTitle, pending, declared, resources, courseTitle, scos>>

\* With content or without, a resource is kept by its identifier.
Resource(i) ==
  /\ section = "resources" /\ i \notin resources
  /\ resources' = resources \cup {i} /\ declared' = declared \cup {i}
  /\ UNCHANGED <<section, past, open, refs, parents, inItem, currentRef, currentTitle, pending, courseTitle, scos>>

StartItem(hasRef) ==
  /\ section = "organizations"
  /\ Len(refs) < MaxItems /\ Len(open) < MaxDepth
  /\ refs' = Append(refs, hasRef)
  /\ parents' = IF open = <<>> THEN parents ELSE parents \cup {open[Len(open)]}
  /\ open' = Append(open, Len(refs) + 1)
  /\ inItem' = TRUE
  /\ currentRef' = IF hasRef THEN Len(refs) + 1 ELSE NoRef
  /\ currentTitle' = Untitled
  /\ UNCHANGED <<section, past, pending, declared, resources, courseTitle, scos>>

\* A title is of an item while the reader is in one, else of the course.
ItemTitle ==
  /\ section = "organizations"
  /\ \/ /\ inItem /\ currentTitle = Untitled
        /\ currentTitle' = open[Len(open)] /\ UNCHANGED courseTitle
     \/ /\ ~inItem /\ courseTitle = Untitled /\ open = <<>>
        /\ courseTitle' = OrganizationsTitle /\ UNCHANGED currentTitle
  /\ UNCHANGED <<section, past, open, refs, parents, inItem, currentRef, pending, declared, resources, scos>>

CloseItem ==
  /\ open # <<>>
  /\ open' = SubSeq(open, 1, Len(open) - 1)
  /\ inItem' = FALSE
  /\ UNCHANGED <<section, past, refs, parents, currentRef, currentTitle, declared, resources, courseTitle, scos>>

Current == [ref |-> currentRef, title |-> currentTitle]

\* The end of an item takes what the last start of one left.
EndItem ==
  /\ CloseItem
  /\ pending' = IF currentRef # NoRef THEN Append(pending, Current) ELSE pending

\* Items find their resources when all of the manifest is read, and a course
\* without a title has that of its first SCO.
EndOfFile ==
  /\ past = Sections /\ section = "none"
  /\ section' = "finished"
  /\ scos' = [k \in DOMAIN pending |-> [item |-> pending[k].ref, found |-> pending[k].ref \in resources]]
  /\ courseTitle' = IF courseTitle = Untitled /\ pending # <<>> THEN pending[1].title ELSE courseTitle
  /\ UNCHANGED <<past, open, refs, parents, inItem, currentRef, currentTitle, pending, declared, resources>>

\* The first SCO is the one that is launched.
LaunchUrl == IF scos = <<>> THEN NoRef ELSE scos[1].item

ScormManifestNext ==
  \/ \E s \in Sections : StartSection(s)
  \/ \E i \in 1..MaxItems : Resource(i)
  \/ \E h \in BOOLEAN : StartItem(h)
  \/ ItemTitle \/ EndItem \/ EndSection \/ EndOfFile

ScormManifestTypeOK ==
  /\ section \in Sections \cup {"none", "finished"} /\ past \subseteq Sections
  /\ Len(refs) <= MaxItems /\ Len(open) <= MaxDepth
  /\ parents \subseteq DOMAIN refs
  /\ inItem \in BOOLEAN /\ currentTitle \in 0..MaxItems
  /\ Len(pending) <= MaxItems
  /\ resources \subseteq 1..MaxItems /\ declared \subseteq 1..MaxItems /\ courseTitle \in 0..OrganizationsTitle

----------------------------------------------------------------------------
Finished == section = "finished"
Leaves == {i \in DOMAIN refs : i \notin parents /\ refs[i]}
Listed == {scos[k].item : k \in DOMAIN scos}

\* Every leaf that refers to a resource is a SCO of the course, and nothing is
\* that no item refers to.
LeavesAreListed ==
  Finished => Leaves \subseteq Listed /\ \A i \in Listed : refs[i]

\* A course without nesting lists each of its items once and in order, with
\* its own title, and is launched at the first.
FlatCoursesAreExact ==
  Finished /\ parents = {} =>
    /\ Len(scos) = Cardinality(Leaves)
    /\ \A k, n \in DOMAIN scos : k < n => scos[k].item < scos[n].item
    /\ \A i \in Leaves : LaunchUrl <= i
    /\ \A k \in DOMAIN pending : pending[k].title \in {Untitled, pending[k].ref}
    /\ courseTitle \in {Untitled, OrganizationsTitle} \cup {LaunchUrl}

\* A SCO has the file of its resource, whichever of the two the manifest lists
\* first, and none if it has no such resource.
ReferencesResolve ==
  Finished => \A k \in DOMAIN scos : scos[k].found <=> scos[k].item \in declared

(****************************************************************************)
(* All of it.                                                               *)
(****************************************************************************)
educationVars == <<courseVars, learnerVars, manifestVars>>

Init ==
  /\ CoursesInit
  /\ LearnerRecordsInit
  /\ ScormManifestInit

Next ==
  \/ CoursesNext /\ UNCHANGED <<learnerVars, manifestVars>>
  \/ LearnerRecordsNext /\ UNCHANGED <<courseVars, manifestVars>>
  \/ ScormManifestNext /\ UNCHANGED <<courseVars, learnerVars>>

Spec == Init /\ [][Next]_educationVars

TypeOK ==
  /\ CoursesTypeOK
  /\ LearnerRecordsTypeOK
  /\ ScormManifestTypeOK
==============================================================================
