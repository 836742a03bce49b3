----------------------------- MODULE Navigation -----------------------------
(***************************************************************************)
(* One tab of the application as the bundled Turbo Drive runs it: links,   *)
(* back and forward, forms, the snapshot cache with its previews and the   *)
(* prefetching of hovered links, against what the controllers answer.      *)
(*                                                                         *)
(* A page's content is the location it is of and the version of the data   *)
(* it shows.  The server handles a request in one step; a step here is the *)
(* code between two callbacks of the browser.  Documents the browser keeps *)
(* by itself (its back/forward cache) and the sidebar's frame are left out.*)
(***************************************************************************)
EXTENDS Naturals, Sequences, FiniteSets

CONSTANTS
  Locs,        \* locations that pages link to
  Consoles,    \* those of consoles: their forms are "Close session" and "Sign out"
  Redirects,   \* where a GET of a location may be redirected to
  MaxChanges,  \* bound: changes of the data
  MaxActs,     \* bound: what the user does
  None

\* The snapshot cache holds ten pages, of which none is evicted here.
ASSUME ConstantsOK ==
  /\ Consoles \subseteq Locs /\ Locs # {} /\ None \notin Locs
  /\ Redirects \in [Locs -> SUBSET (Locs \ Consoles)]
  /\ IsFiniteSet(Locs) /\ Cardinality(Locs) <= 10
  /\ MaxChanges \in Nat /\ MaxActs \in Nat

\* What a request is answered with, and what the document shows: a page, an
\* error page without the application's scripts, or what Turbo cannot show
\* (JSON, or no answer at all); raw is such a document, loaded without Turbo.
Contents ==
  [kind : {"page", "error", "none", "raw"}, of : Locs, ver : 0..MaxChanges]

Visits ==
  [loc : Locs, action : {"advance", "replace", "restore"},
   snap : Contents \cup {None},    \* the cached snapshot it found
   frame : {"none", "cached", "answer"},  \* what the next animation frame renders
   reply : Contents \cup {None},   \* what the server answered
   posted : BOOLEAN,               \* it came with its response: a form's, a redirect's
   renders : BOOLEAN,              \* willRender
   shown : BOOLEAN,                \* historyChanged
   kept : BOOLEAN]                 \* snapshotCached

ASSUME NoneIsNoVisit == None \notin Visits

Forms == [on : Locs, reply : Contents \cup {None}, moved : BOOLEAN]

VARIABLES
  now,        \* the version of the data at the server
  trail, at,  \* the history entries of this document, and the current one
  doc,        \* what the document shows
  preview,    \* it is marked data-turbo-preview
  last,       \* lastRenderedLocation
  cache,      \* snapshotCache
  prefetch,   \* prefetchCache: a location and what the server answered
  visit,      \* navigator.currentVisit
  form,       \* navigator.formSubmission
  acts,       \* what the user has done, counted
  known,      \* history: version shown by the last page a form of this tab led to
  cut,        \* history: a visit was cut off between two of its own changes
  left        \* history: a preview whose visit was given up is shown

page    == <<trail, at, doc, preview, last, cache>>
working == <<prefetch, visit, form>>
history == <<known, cut, left>>
vars == <<now, page, working, acts, history>>

Addr == trail[at]

TypeOK ==
  /\ now \in 0..MaxChanges /\ known \in 0..MaxChanges /\ acts \in 0..MaxActs
  /\ preview \in BOOLEAN /\ cut \in BOOLEAN /\ left \in BOOLEAN
  /\ trail \in Seq(Locs) /\ at \in DOMAIN trail /\ last \in Locs
  /\ doc \in Contents /\ doc.kind \in {"page", "error", "raw"}
  /\ cache \in [Locs -> Contents \cup {None}]
  /\ prefetch \in [loc : Locs, reply : Contents \cup {None}] \cup {None}
  /\ visit \in Visits \cup {None} /\ form \in Forms \cup {None}
  /\ visit = None \/ form = None

Content(k, l, v) == [kind |-> k, of |-> l, ver |-> v]

Init ==
  /\ now = 0
  /\ \E l \in Locs \ Consoles :
       trail = <<l>> /\ last = l /\ doc = Content("page", l, 0)
  /\ at = 1 /\ preview = FALSE
  /\ cache = [l \in Locs |-> None]
  /\ prefetch = None /\ visit = None /\ form = None
  /\ acts = 0 /\ known = 0
  /\ cut = FALSE /\ left = FALSE

-----------------------------------------------------------------------------
(* The server.                                                             *)

\* Answers to a GET: the page or one it redirects to, an exception's error page,
\* vms#show's JSON when the command fails.
Answers(l) ==
  {Content("page", m, now) : m \in {l} \cup Redirects[l]}
    \cup {Content(k, l, now) : k \in {"error", "none"}}

Waits(r) == r # None /\ r.reply = None

HandleVisit ==
  /\ Waits(visit)
  /\ \E a \in Answers(visit.loc) : visit' = [visit EXCEPT !.reply = a]
  /\ UNCHANGED <<now, page, prefetch, form, acts, history>>

HandlePrefetch ==
  /\ Waits(prefetch)
  /\ \E a \in Answers(prefetch.loc) : prefetch' = [prefetch EXCEPT !.reply = a]
  /\ UNCHANGED <<now, page, visit, form, acts, history>>

\* A form's action: done or not, then answered.  render_error answers JSON to
\* what Turbo accepts, where a redirect with an alert is meant, and so does
\* "Close session" always.  The layout's "Sign out" leads away from every page.
\* A console has no form that is shown again with what was wrong.
AnswerForm(done, k, l) ==
  /\ k = "invalid" => ~done /\ form.on \notin Consoles
  /\ now' = (IF done THEN now + 1 ELSE now) /\ now' <= MaxChanges
  /\ IF k = "page" THEN l \notin Consoles ELSE l = form.on
  /\ form' = [form EXCEPT !.reply = Content(IF k = "invalid" THEN "page" ELSE k, l, now'),
                          !.moved = (k = "page")]

HandleForm ==
  /\ Waits(form)
  /\ \E done \in BOOLEAN, k \in {"page", "invalid", "error", "none"}, l \in Locs :
       AnswerForm(done, k, l)
  /\ UNCHANGED <<page, prefetch, visit, acts, history>>

\* Another tab, the scheduler, the guest.
OthersChange ==
  /\ now < MaxChanges /\ now' = now + 1
  /\ UNCHANGED <<page, working, acts, history>>

-----------------------------------------------------------------------------
(* The tab.                                                                *)

\* A document loaded by the browser itself: Turbo starts anew in it, or, when
\* it is not one of the application's pages, not at all.
Load(l) ==
  /\ \E a \in Answers(l) :
       /\ doc' = IF a.kind = "page" THEN a ELSE [a EXCEPT !.kind = "raw"]
       /\ trail' = <<a.of>> /\ last' = a.of
  /\ at' = 1 /\ preview' = FALSE /\ cut' = FALSE /\ left' = FALSE
  /\ cache' = [m \in Locs |-> None]
  /\ visit' = None /\ form' = None /\ prefetch' = None
  /\ UNCHANGED <<now, known>>

\* Navigator.stop cancels the current visit: cut is when it has shown its
\* answer but not yet the address, or the address but not yet its page.
Cuts(by) ==
  /\ visit # None
  /\ \/ visit.posted /\ ~visit.renders
     \/ by = "form" /\ last # Addr

Acts == acts < MaxActs /\ acts' = acts + 1

\* Mutant: a visit leaves the form's request running.
StopForm_Forgotten == UNCHANGED form

\* The current form's request is cancelled.
StopForm == form' = None

\* A visit of l with the cached snapshot it finds; it asks the server unless it
\* restores that snapshot, and takes a prefetched request's answer for its own.
Start(l, act, shown) ==
  LET asks == act # "restore" \/ cache[l] = None
      hit  == asks /\ prefetch # None /\ prefetch.loc = l
      snap == cache[l]
  IN /\ visit' = [loc |-> l, action |-> act, snap |-> snap,
                  frame |-> IF snap = None THEN "none" ELSE "cached",
                  reply |-> IF ~asks THEN snap ELSE IF hit THEN prefetch.reply ELSE None,
                  posted |-> FALSE, renders |-> TRUE, shown |-> shown, kept |-> FALSE]
     /\ prefetch' = IF asks THEN None ELSE prefetch
     /\ StopForm
     /\ cut' = (cut \/ Cuts("visit"))

\* A link.
Click(l) ==
  /\ Acts /\ doc.kind = "page"
  /\ Start(l, "advance", FALSE)
  /\ UNCHANGED <<now, page, known, left>>

\* Back and forward: the address changes at once.
Restore(i) ==
  /\ Acts /\ doc.kind # "raw" /\ i \in DOMAIN trail \ {at}
  /\ at' = i
  /\ Start(trail[i], "restore", TRUE)
  /\ UNCHANGED <<now, trail, doc, preview, last, cache, known, left>>

\* A hovered link, after its delay.
Hover(l) ==
  /\ Acts /\ doc.kind = "page" /\ l # Addr
  /\ prefetch' = [loc |-> l, reply |-> None]
  /\ UNCHANGED <<now, page, visit, form, history>>

\* The mouse leaves the link, or ten seconds pass.
Forget ==
  /\ prefetch # None /\ prefetch' = None
  /\ UNCHANGED <<now, page, visit, form, acts, history>>

\* A form.  The visit is given up before the user is asked to confirm.
Submit ==
  /\ Acts /\ doc.kind = "page"
  /\ visit' = None
  /\ \E confirmed \in BOOLEAN :
       /\ form' = IF confirmed
                  THEN [on |-> doc.of, reply |-> None, moved |-> FALSE] ELSE None
       /\ left' = (left \/ (preview /\ ~confirmed))
  /\ cut' = (cut \/ Cuts("form"))
  /\ UNCHANGED <<now, page, prefetch, known>>

\* The address typed, or the page reloaded.
GoTo(l) == Acts /\ Load(l)

-----------------------------------------------------------------------------
(* Rendering, in an animation frame.                                       *)

\* A rendered page is a preview or not; then what was given up is gone.
MarkAsPreview(is) == preview' = is /\ left' = FALSE

\* Visit.changeHistory, and lastRenderedLocation with it.
ShowAddress ==
  /\ IF visit.shown THEN UNCHANGED <<trail, at>>
     ELSE IF visit.action = "advance" /\ visit.loc # Addr
       THEN trail' = Append(SubSeq(trail, 1, at), visit.loc) /\ at' = at + 1
       ELSE trail' = [trail EXCEPT ![at] = visit.loc] /\ UNCHANGED at
  /\ last' = trail'[at']

\* Mutant: the page is kept under the address that is shown.
CacheSnapshot_UnderAddress ==
  cache' = IF visit.kept THEN cache ELSE [cache EXCEPT ![Addr] = doc]

\* PageView.cacheSnapshot, once a visit, under the address of what was rendered.
CacheSnapshot ==
  cache' = IF visit.kept THEN cache ELSE [cache EXCEPT ![last] = doc]

\* A page and an error page, whose head has no tracked scripts, do not replace
\* each other as pages: the location is loaded anew.
FrameReloads ==
  /\ visit # None
  /\ \/ visit.frame = "cached" /\ visit.snap.kind # doc.kind /\ Load(visit.loc)
     \/ visit.frame = "answer" /\ visit.reply.kind = "page" /\ doc.kind # "page"
        /\ Load(visit.reply.of)
  /\ UNCHANGED acts

\* loadCachedSnapshot: the page itself when it is restored, else a preview.
FrameCached ==
  /\ visit # None /\ visit.frame = "cached" /\ visit.snap.kind = doc.kind
  /\ CacheSnapshot /\ ShowAddress
  /\ doc' = visit.snap
  /\ MarkAsPreview(visit.action # "restore")
  /\ visit' = IF visit.action = "restore" THEN None
              ELSE [visit EXCEPT !.frame = "none", !.shown = TRUE, !.kept = TRUE]
  /\ UNCHANGED <<now, prefetch, form, acts, known, cut>>

\* Mutant: the address of a redirect is not shown.
FollowRedirect_Dropped == None

\* The visit that only shows the address of the page already rendered.
FollowRedirect ==
  [visit EXCEPT !.loc = visit.reply.of, !.action = "replace", !.snap = None,
                !.posted = TRUE, !.renders = FALSE, !.shown = FALSE]

\* loadResponse.
FrameAnswer ==
  /\ visit # None /\ visit.frame = "answer"
  /\ doc.kind = "page" \/ visit.reply.kind = "error"
  /\ IF visit.posted THEN UNCHANGED cache ELSE CacheSnapshot
  /\ ShowAddress
  /\ doc' = IF visit.renders THEN visit.reply ELSE doc
  /\ MarkAsPreview(FALSE)
  /\ visit' = IF visit.reply.kind = "page" /\ visit.reply.of # visit.loc
              THEN FollowRedirect ELSE None
  /\ known' = IF visit.posted /\ visit.renders THEN visit.reply.ver ELSE known
  /\ UNCHANGED <<now, prefetch, form, acts, cut>>

\* The answer of a visit's request: anything but a page is loaded anew.
ReceiveVisit ==
  /\ visit # None /\ ~visit.posted /\ visit.frame # "answer" /\ visit.reply # None
  /\ visit.action = "restore" => visit.snap = None
  /\ \/ /\ visit.reply.kind \in {"page", "error"}
        /\ visit' = [visit EXCEPT !.frame = "answer"]
        /\ UNCHANGED <<now, page, prefetch, form, known, cut, left>>
     \/ visit.reply.kind = "none" /\ Load(visit.loc)
  /\ UNCHANGED acts

-----------------------------------------------------------------------------
(* The answer of a form.                                                   *)

Answered(k) == form # None /\ form.reply # None /\ form.reply.kind = k /\ form' = None

\* Mutant: a form's redirect leaves the cache as it was.
ClearSnapshotCache_Forgotten == UNCHANGED cache

ClearSnapshotCache == cache' = [l \in Locs |-> None]

\* A redirect: the caches are cleared, and the page it led to is visited.
ReceiveRedirect ==
  /\ Answered("page") /\ form.moved
  /\ ClearSnapshotCache /\ prefetch' = None
  /\ visit' = [loc |-> form.reply.of,
               action |-> IF form.reply.of = Addr THEN "replace" ELSE "advance",
               snap |-> None, frame |-> "answer", reply |-> form.reply,
               posted |-> TRUE, renders |-> TRUE, shown |-> FALSE, kept |-> FALSE]
  /\ UNCHANGED <<now, trail, at, doc, preview, last, acts, history>>

\* The form again with what was wrong, or an error page, rendered at once.
ReceiveRefusal ==
  /\ \/ Answered("page") /\ ~form.moved
     \/ Answered("error")
  /\ doc' = form.reply /\ MarkAsPreview(FALSE)
  /\ last' = Addr
  /\ ClearSnapshotCache
  /\ UNCHANGED <<now, trail, at, prefetch, visit, acts, known, cut>>

\* JSON and a lost answer are shown by nothing.  JSON of a success is taken for
\* a page that should have been a redirect, and drops the prefetched one.
ReceiveNothing ==
  /\ Answered("none")
  /\ left' = preview
  /\ prefetch' \in {prefetch, None}
  /\ UNCHANGED <<now, page, visit, acts, known, cut>>

-----------------------------------------------------------------------------
Next ==
  \/ \E l \in Locs : Click(l) \/ Hover(l) \/ GoTo(l)
  \/ \E i \in DOMAIN trail : Restore(i)
  \/ Forget \/ Submit
  \/ HandleVisit \/ HandlePrefetch \/ HandleForm \/ OthersChange
  \/ FrameReloads \/ FrameCached \/ FrameAnswer
  \/ ReceiveVisit \/ ReceiveRedirect \/ ReceiveRefusal \/ ReceiveNothing

\* The server answers or the browser gives up, and frames are shown.
Fairness ==
  /\ WF_vars(HandleVisit) /\ WF_vars(HandlePrefetch) /\ WF_vars(HandleForm)
  /\ WF_vars(FrameReloads) /\ WF_vars(FrameCached) /\ WF_vars(FrameAnswer)
  /\ WF_vars(ReceiveVisit) /\ WF_vars(ReceiveRedirect)
  /\ WF_vars(ReceiveRefusal) /\ WF_vars(ReceiveNothing)

Spec == Init /\ [][Next]_vars
FairSpec == Spec /\ Fairness

-----------------------------------------------------------------------------
(* What should hold.                                                       *)

\* Once the page after a form was shown, nothing older than it can come back:
\* not by Back, not as a preview, not from a prefetched link.
\* (clearSnapshotCache, prefetchCache.clear, shouldCacheSnapshot.)
NothingOlder ==
  /\ doc.kind = "page" => doc.ver >= known
  /\ \A l \in Locs : cache[l] # None /\ cache[l].kind = "page" => cache[l].ver >= known
  /\ prefetch # None /\ prefetch.reply # None => prefetch.reply.ver >= known
  /\ visit # None /\ visit.reply # None => visit.reply.ver >= known

\* A snapshot is kept under the address of its page, so that Back shows what
\* its address says, unless a visit was cut off half-way.
\* (cacheSnapshot with lastRenderedLocation, followRedirect.)
CacheIsItsPage ==
  ~cut => \A l \in Locs : cache[l] # None => cache[l].of = l

\* The tab comes to rest on the page of its address, whatever was answered,
\* unless a visit was cut off half-way.  It is left with a preview only when the
\* preview's visit was given up for a form that was then not confirmed, or that
\* nothing visible answered.
\* (Visit, followRedirect, adapter.reload, Navigator.stop, render_error.)
Settles ==
  <>[](/\ visit = None /\ form = None
       /\ cut \/ doc.of = Addr
       /\ preview => left)
=============================================================================
