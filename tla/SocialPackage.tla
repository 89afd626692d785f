---- MODULE SocialPackage ----------------------------------------------------
(****************************************************************************)
(* The social package: what is published and recorded, and the calendar     *)
(* tables it reads.  These share no state; each has its own section.        *)
(****************************************************************************)
EXTENDS Naturals, Sequences

(****************************************************************************)
(* Posts of the social package: single ones, threads whose parts answer     *)
(* each other, and links the platform answers with a page.  What is out is  *)
(* out: an answer may be lost, a thread may be interrupted, and a repeated  *)
(* call starts from the beginning.  Collections may be missing.             *)
(****************************************************************************)
CONSTANTS Authors, Tweets, Updates, Submissions, Threads, Links,
          ThreadParts, MaxPublished, MaxScheduled, NoPost

VARIABLES collections, connected, published, posting, posts, analytics, schedule

socialVars == <<collections, connected, published, posting, posts, analytics, schedule>>

Singles == Tweets \cup Updates \cup Submissions
Contents == Singles \cup Threads \cup Links
PartsOf(c) == IF c \in Threads THEN ThreadParts ELSE 1
SocialCollections == {"social_posts", "social_analytics", "content_schedule"}
Unknown == 0
Idle == [stage |-> "idle", of |-> NoPost, parts |-> <<>>]

SocialPostsInit ==
  /\ collections = {}
  /\ connected = FALSE
  /\ published = <<>>
  /\ posting = [u \in Authors |-> Idle]
  /\ posts = {}
  /\ analytics = 0
  /\ schedule = 0

\* Activation makes the collections that are missing, one by one.
BootstrapSchemas ==
  /\ \E made \in SUBSET (SocialCollections \ collections) : collections' = collections \cup made
  /\ UNCHANGED <<connected, published, posting, posts, analytics, schedule>>

Connect ==
  /\ ~connected
  /\ connected' = TRUE
  /\ UNCHANGED <<collections, published, posting, posts, analytics, schedule>>

\* The credentials of the connection are read once, before the first part,
\* whatever has become of the connection since.
ResolveCredentials(u, c) ==
  /\ posting[u].stage = "idle"
  /\ connected
  /\ posting' = [posting EXCEPT ![u] = [stage |-> "sending", of |-> c, parts |-> <<>>]]
  /\ UNCHANGED <<collections, connected, published, posts, analytics, schedule>>

PartsSent(u) == Len(posting[u].parts)
Previous(u) == IF PartsSent(u) = 0 THEN Unknown ELSE posting[u].parts[PartsSent(u)]
FirstPart(u) == IF PartsSent(u) = 0 THEN Unknown ELSE posting[u].parts[1]
Sends(u, kind) == posting[u].stage = "sending" /\ posting[u].of \in kind

\* The platform takes a part; an answer to a post it does not know it refuses.
Publish(u, after) ==
  /\ Len(published) < MaxPublished
  /\ PartsSent(u) > 0 => after # Unknown
  /\ published' = Append(published, [of |-> posting[u].of, part |-> PartsSent(u) + 1, after |-> after])

Proceed(u, id) ==
  posting' = [posting EXCEPT
    ![u].parts = Append(@, id),
    ![u].stage = IF PartsSent(u) + 1 = PartsOf(posting[u].of) THEN "sent" ELSE "sending"]

\* A single post: a success without a readable id counts as one.
PostOnce(u, kind) ==
  /\ Sends(u, kind)
  /\ Publish(u, Unknown)
  /\ \E id \in {Len(published) + 1, Unknown} : Proceed(u, id)
  /\ UNCHANGED <<collections, connected, posts, analytics, schedule>>

PostTweet(u) == PostOnce(u, Tweets)
PostLinkedIn(u) == PostOnce(u, Updates)
PostReddit(u) == PostOnce(u, Submissions)

\* A part of a thread answers the one before it.
SendPart(u) ==
  /\ Sends(u, Threads)
  /\ Publish(u, Previous(u))
  /\ \E id \in {Len(published) + 1, Unknown} : Proceed(u, id)
  /\ UNCHANGED <<collections, connected, posts, analytics, schedule>>

\* A link: the page that comes back names the item, or it is any other page
\* that speaks of no duplicate, and the post counts as pending.
PostHackerNews(u) ==
  /\ Sends(u, Links)
  /\ \/ Publish(u, Unknown) /\ \E id \in {Len(published) + 1, Unknown} : Proceed(u, id)
     \/ Proceed(u, Unknown) /\ UNCHANGED published
  /\ UNCHANGED <<collections, connected, posts, analytics, schedule>>

\* The call ends at the first refusal or failed request; parts that are out
\* stay.
PartRefused(u) ==
  /\ posting[u].stage = "sending"
  /\ posting' = [posting EXCEPT ![u] = Idle]
  /\ UNCHANGED <<collections, connected, published, posts, analytics, schedule>>

\* The part is out and the caller is told that it failed.
AnswerLost(u) ==
  /\ posting[u].stage = "sending"
  /\ Publish(u, Previous(u))
  /\ posting' = [posting EXCEPT ![u] = Idle]
  /\ UNCHANGED <<collections, connected, posts, analytics, schedule>>

\* The record is made under the id of the first part, if its collection is
\* there; nothing tells the caller when it is not.
RecordPost(u) ==
  /\ posting[u].stage = "sent"
  /\ posts' = IF "social_posts" \in collections
              THEN posts \cup {[of |-> posting[u].of, id |-> FirstPart(u)]} ELSE posts
  /\ posting' = [posting EXCEPT ![u] = Idle]
  /\ UNCHANGED <<collections, connected, published, analytics, schedule>>

\* The numbers of a post the caller names, asked of the platform and kept as
\* a snapshot, if the collection is there.
GetPostAnalytics(i) ==
  /\ connected
  /\ "social_analytics" \in collections
  /\ analytics' = i
  /\ UNCHANGED <<collections, connected, published, posting, posts, schedule>>

\* An entry in content_schedule, which nothing in the package reads.
ScheduleContent ==
  /\ "content_schedule" \in collections
  /\ schedule < MaxScheduled
  /\ schedule' = schedule + 1
  /\ UNCHANGED <<collections, connected, published, posting, posts, analytics>>

SocialPostsNext ==
  \/ BootstrapSchemas \/ Connect \/ ScheduleContent
  \/ \E u \in Authors :
       \/ \E c \in Contents : ResolveCredentials(u, c)
       \/ PostTweet(u) \/ PostLinkedIn(u) \/ PostReddit(u) \/ SendPart(u) \/ PostHackerNews(u)
       \/ PartRefused(u) \/ AnswerLost(u) \/ RecordPost(u)
  \/ \E i \in {1} \cap DOMAIN published : GetPostAnalytics(i)

SocialPostsTypeOK ==
  /\ collections \subseteq SocialCollections /\ connected \in BOOLEAN
  /\ published \in Seq([of : Contents, part : 1..ThreadParts, after : 0..MaxPublished])
  /\ posting \in [Authors -> [stage : {"idle", "sending", "sent"}, of : Contents \cup {NoPost},
                             parts : Seq(0..MaxPublished)]]
  /\ posts \subseteq [of : Contents, id : 0..MaxPublished]
  /\ analytics \in 0..MaxPublished /\ schedule \in 0..MaxScheduled

----------------------------------------------------------------------------
\* A part of a thread answers the part before it, of the same thread, however
\* often the thread was begun.
ThreadsAreChains ==
  \A i \in DOMAIN published :
    published[i].part > 1 =>
      /\ published[i].after \in 1..(i - 1)
      /\ published[published[i].after].of = published[i].of
      /\ published[published[i].after].part = published[i].part - 1

Follows(i, j) == published[j].after = i
ReachesEnd(i, k) ==
  LET end[j \in DOMAIN published] ==
        published[j].part = k \/ \E n \in (j + 1)..Len(published) : Follows(j, n) /\ end[n]
  IN  end[i]

\* A record that names a post names the first part of one that is out as a
\* whole; an interrupted thread leaves no record.
RecordedIsWhole ==
  \A r \in posts :
    r.id # Unknown =>
      /\ published[r.id].of = r.of /\ published[r.id].part = 1
      /\ ReachesEnd(r.id, PartsOf(r.of))

(****************************************************************************)
(* The calendar of the social package, read from tables of a text, line by  *)
(* line.  The first line of cells gives the headers, a line of dashes opens *)
(* the table, the lines of cells after it are its rows.  Only a line without *)
(* bars after an open table forgets the headers.                            *)
(****************************************************************************)
CONSTANTS MaxLines

VARIABLES lines, headers, inTable, calendar

calendarTableVars == <<lines, headers, inTable, calendar>>

\* A line is text, a line of dashes, a line of empty cells, or cells.
LineKinds == {"text", "dashes", "blank", "cells"}

\* Headers, and the rows of the calendar, are named by their lines.
CalendarTableInit ==
  /\ lines = <<>>
  /\ headers = 0
  /\ inTable = FALSE
  /\ calendar = {}

Number == Len(lines) + 1

ReadText ==
  /\ inTable' = FALSE
  /\ headers' = IF inTable THEN 0 ELSE headers
  /\ UNCHANGED calendar

ReadDashes ==
  /\ inTable' = TRUE
  /\ UNCHANGED <<headers, calendar>>

ReadBlank == UNCHANGED <<headers, inTable, calendar>>

\* Cells before a table is open are its headers if there are none, else they
\* are passed over; cells of an open table without headers are too.
ReadCells ==
  /\ headers' = IF ~inTable /\ headers = 0 THEN Number ELSE headers
  /\ calendar' = IF inTable /\ headers # 0
                 THEN calendar \cup {[row |-> Number, under |-> headers]} ELSE calendar
  /\ UNCHANGED inTable

ParseMarkdownCalendar(kind) ==
  /\ Len(lines) < MaxLines
  /\ lines' = Append(lines, kind)
  /\ \/ kind = "text" /\ ReadText
     \/ kind = "dashes" /\ ReadDashes
     \/ kind = "blank" /\ ReadBlank
     \/ kind = "cells" /\ ReadCells

\* A load of another file begins anew.
LoadContentCalendar ==
  /\ lines # <<>>
  /\ lines' = <<>> /\ headers' = 0 /\ inTable' = FALSE /\ calendar' = {}

CalendarTableNext == LoadContentCalendar \/ \E kind \in LineKinds : ParseMarkdownCalendar(kind)

CalendarTableTypeOK ==
  /\ lines \in Seq(LineKinds) /\ headers \in 0..MaxLines /\ inTable \in BOOLEAN
  /\ calendar \subseteq [row : 1..MaxLines, under : 1..MaxLines]

----------------------------------------------------------------------------
NoText(i, j) == \A k \in i..j : lines[k] # "text"
Opened(i, j) == \E k \in i..j : lines[k] = "dashes"

\* A row is read under headers before the dashes of its own table; a table
\* that was open and ended lies between no row and its headers, only text
\* after a stray line of cells may.
RowsUnderTheirHeaders ==
  \A r \in calendar :
    \E d \in (r.under + 1)..(r.row - 1) :
      /\ lines[d] = "dashes" /\ NoText(d, r.row)
      /\ \A k \in r.under..d : lines[k] = "text" => ~Opened(r.under, k)

\* Every line of cells below the headers and the dashes of its table is read.
RowsAreRead ==
  \A h, r \in 1..Len(lines) :
    h < r /\ lines[h] = "cells" /\ lines[r] = "cells" /\ NoText(h, r) /\ Opened(h, r)
    /\ ~(\E d \in 1..h : lines[d] = "dashes") =>
      \E c \in calendar : c.row = r

(****************************************************************************)
(* All of it.                                                               *)
(****************************************************************************)
socialPackageVars == <<socialVars, calendarTableVars>>

Init ==
  /\ SocialPostsInit
  /\ CalendarTableInit

Next ==
  \/ SocialPostsNext /\ UNCHANGED calendarTableVars
  \/ CalendarTableNext /\ UNCHANGED socialVars

Spec == Init /\ [][Next]_socialPackageVars

TypeOK ==
  /\ SocialPostsTypeOK
  /\ CalendarTableTypeOK
==============================================================================
