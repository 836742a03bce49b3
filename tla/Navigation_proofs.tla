------------------------- MODULE Navigation_proofs -------------------------
(***************************************************************************)
(* Navigation proved for any pages, redirects and number of changes.       *)
(* Three layers, each inductive given those before: types with what a      *)
(* frame renders, what is never older than the page after a form, and      *)
(* where every page and snapshot belongs.                                  *)
(***************************************************************************)
EXTENDS Navigation, TLAPS

-----------------------------------------------------------------------------
(* Types.                                                                  *)

\* What the next frame renders is there, and can be rendered.
Frames ==
  visit # None =>
    /\ visit.frame = "cached" => visit.snap # None
    /\ visit.frame = "answer" => visit.reply # None /\ visit.reply.kind \in {"page", "error"}

Types == TypeOK /\ Frames

\* What a controller answers a GET with is something a tab can receive.
LEMMA AnswersAreContents ==
  ASSUME TypeOK, NEW l \in Locs
  PROVE  Answers(l) \subseteq Contents
BY ConstantsOK DEF Answers, Content, Contents, TypeOK

\* A document loaded anew is as typed as the first one.
LEMMA LoadTypes ==
  ASSUME Types, NEW l \in Locs, Load(l), acts' \in 0..MaxActs
  PROVE  Types'
<1>1. PICK a \in Answers(l) :
        /\ doc' = IF a.kind = "page" THEN a ELSE [a EXCEPT !.kind = "raw"]
        /\ trail' = <<a.of>> /\ last' = a.of
  BY DEF Load
<1>2. a \in Contents
  BY AnswersAreContents DEF Types
<1>3. doc' \in Contents /\ doc'.kind \in {"page", "error", "raw"}
  BY <1>1, <1>2 DEF Contents
<1>4. trail' \in Seq(Locs) /\ at' \in DOMAIN trail' /\ last' \in Locs
  BY <1>1, <1>2 DEF Contents, Load
<1>5. cache' \in [Locs -> Contents \cup {None}]
  BY DEF Load
<1> QED
  BY <1>3, <1>4, <1>5 DEF Load, Types, TypeOK, Frames

\* The visit a click or Back starts is typed, and has what its frame renders.
LEMMA StartTypes ==
  ASSUME TypeOK, NEW l \in Locs, NEW act \in {"advance", "restore"},
         NEW shown \in BOOLEAN, Start(l, act, shown)
  PROVE  /\ visit' \in Visits /\ form' = None /\ cut' \in BOOLEAN
         /\ prefetch' \in [loc : Locs, reply : Contents \cup {None}] \cup {None}
         /\ Frames'
<1> DEFINE asks == act # "restore" \/ cache[l] = None
           hit == asks /\ prefetch # None /\ prefetch.loc = l
           reply == IF ~asks THEN cache[l] ELSE IF hit THEN prefetch.reply ELSE None
<1>1. cache[l] \in Contents \cup {None}
  BY DEF TypeOK
<1>2. reply \in Contents \cup {None}
  BY <1>1 DEF TypeOK
<1>3. visit' = [loc |-> l, action |-> act, snap |-> cache[l],
                frame |-> IF cache[l] = None THEN "none" ELSE "cached",
                reply |-> reply, posted |-> FALSE, renders |-> TRUE,
                shown |-> shown, kept |-> FALSE]
  BY DEF Start
<1>4. visit' \in Visits
  BY <1>1, <1>2, <1>3 DEF Visits
<1>5. Frames'
  BY <1>3 DEF Frames
<1> QED
  BY <1>4, <1>5 DEF Start, StopForm, Cuts, TypeOK

\* The address a visit shows is one of the pages', and rendered last.
LEMMA ShowAddressTypes ==
  ASSUME TypeOK, visit # None, ShowAddress
  PROVE  trail' \in Seq(Locs) /\ at' \in DOMAIN trail' /\ last' \in Locs
<1>1. visit.loc \in Locs /\ trail \in Seq(Locs) /\ at \in 1..Len(trail)
  BY DEF TypeOK, Visits
<1>2. CASE visit.shown
  BY <1>1, <1>2 DEF ShowAddress
<1>3. CASE ~visit.shown /\ visit.action = "advance" /\ visit.loc # Addr
  <2>1. trail' = Append(SubSeq(trail, 1, at), visit.loc) /\ at' = at + 1
    BY <1>3 DEF ShowAddress
  <2>2. SubSeq(trail, 1, at) \in Seq(Locs) /\ Len(SubSeq(trail, 1, at)) = at
    BY <1>1
  <2>3. trail' \in Seq(Locs) /\ at' \in 1..Len(trail')
    BY <1>1, <2>1, <2>2
  <2> QED
    BY <2>3 DEF ShowAddress
<1>4. CASE ~visit.shown /\ ~(visit.action = "advance" /\ visit.loc # Addr)
  BY <1>1, <1>4 DEF ShowAddress
<1> QED
  BY <1>2, <1>3, <1>4

LEMMA InitTypes == Init => Types
<1> SUFFICES ASSUME Init PROVE Types
  OBVIOUS
<1>1. PICK l \in Locs : trail = <<l>> /\ last = l /\ doc = Content("page", l, 0)
  BY DEF Init
<1>2. trail \in Seq(Locs) /\ at \in DOMAIN trail /\ last \in Locs
  BY <1>1 DEF Init
<1>3. doc \in Contents /\ doc.kind = "page"
  BY <1>1, ConstantsOK DEF Content, Contents
<1>4. cache \in [Locs -> Contents \cup {None}]
  BY DEF Init
<1>5. visit = None /\ form = None /\ prefetch = None
  BY DEF Init
<1>6. now \in 0..MaxChanges /\ known \in 0..MaxChanges /\ acts \in 0..MaxActs
  BY ConstantsOK DEF Init
<1>7. preview \in BOOLEAN /\ cut \in BOOLEAN /\ left \in BOOLEAN
  BY Zenon DEF Init
<1> QED
  BY <1>2, <1>3, <1>4, <1>5, <1>6, <1>7 DEF Types, TypeOK, Frames

\* Every action keeps the types.
LEMMA NextTypes == Types /\ [Next]_vars => Types'
<1> SUFFICES ASSUME Types, [Next]_vars PROVE Types'
  OBVIOUS
<1> USE DEF Types
<1>1. ASSUME NEW l \in Locs, Click(l) PROVE Types'
  <2>1. Start(l, "advance", FALSE)
    BY <1>1 DEF Click
  <2>2. /\ visit' \in Visits /\ form' = None /\ cut' \in BOOLEAN /\ Frames'
        /\ prefetch' \in [loc : Locs, reply : Contents \cup {None}] \cup {None}
    BY <2>1, StartTypes
  <2>3. acts' \in 0..MaxActs
    BY <1>1, ConstantsOK DEF Click, Acts, TypeOK
  <2> QED
    BY <1>1, <2>2, <2>3 DEF Click, page, TypeOK
<1>2. ASSUME NEW l \in Locs, Hover(l) PROVE Types'
  BY <1>2, ConstantsOK DEF Hover, Acts, page, history, TypeOK, Frames
<1>3. ASSUME NEW l \in Locs, GoTo(l) PROVE Types'
  BY <1>3, LoadTypes, ConstantsOK DEF GoTo, Acts, TypeOK
<1>4. ASSUME NEW i \in DOMAIN trail, Restore(i) PROVE Types'
  <2>1. trail[i] \in Locs
    <3>1. trail \in Seq(Locs)
      BY DEF TypeOK
    <3> QED
      BY <1>4, <3>1
  <2>2. Start(trail[i], "restore", TRUE)
    BY <1>4 DEF Restore
  <2>3. /\ visit' \in Visits /\ form' = None /\ cut' \in BOOLEAN /\ Frames'
        /\ prefetch' \in [loc : Locs, reply : Contents \cup {None}] \cup {None}
    BY <2>1, <2>2, StartTypes
  <2>4. acts' \in 0..MaxActs /\ at' \in DOMAIN trail'
    BY <1>4, ConstantsOK DEF Restore, Acts, TypeOK
  <2> QED
    BY <1>4, <2>3, <2>4 DEF Restore, TypeOK
<1>5. CASE Forget
  BY <1>5 DEF Forget, page, history, TypeOK, Frames
<1>6. CASE Submit
  <2>1. PICK confirmed \in BOOLEAN :
          /\ form' = IF confirmed
                     THEN [on |-> doc.of, reply |-> None, moved |-> FALSE] ELSE None
          /\ left' = (left \/ (preview /\ ~confirmed))
    BY <1>6 DEF Submit
  <2>2. form' \in Forms \cup {None}
    BY <2>1 DEF Forms, TypeOK, Contents
  <2>3. left' \in BOOLEAN /\ cut' \in BOOLEAN
    BY <1>6, <2>1 DEF Submit
  <2> QED
    BY <1>6, <2>2, <2>3, ConstantsOK DEF Submit, Acts, page, TypeOK, Frames
<1>7. CASE HandleVisit
  <2>1. visit # None /\ visit \in Visits /\ visit.loc \in Locs
    BY <1>7 DEF HandleVisit, Waits, TypeOK, Visits
  <2>2. PICK a \in Contents : visit' = [visit EXCEPT !.reply = a]
    BY <1>7, <2>1, AnswersAreContents DEF HandleVisit
  <2>3. visit' \in Visits
    BY <2>1, <2>2 DEF Visits
  <2>4. Frames'
    BY <1>7, <2>1, <2>2 DEF HandleVisit, Waits, Frames, Visits
  <2> QED
    BY <1>7, <2>1, <2>3, <2>4 DEF HandleVisit, page, history, TypeOK
<1>8. CASE HandlePrefetch
  <2>1. prefetch # None /\ prefetch.loc \in Locs
    BY <1>8 DEF HandlePrefetch, Waits, TypeOK
  <2>2. PICK a \in Contents : prefetch' = [prefetch EXCEPT !.reply = a]
    BY <1>8, <2>1, AnswersAreContents DEF HandlePrefetch
  <2> QED
    BY <1>8, <2>1, <2>2 DEF HandlePrefetch, page, history, TypeOK, Frames
<1>9. CASE HandleForm
  <2>1. form # None /\ form \in Forms
    BY <1>9 DEF HandleForm, Waits, TypeOK
  <2>2. PICK done \in BOOLEAN, k \in {"page", "invalid", "error", "none"}, l \in Locs :
          AnswerForm(done, k, l)
    BY <1>9 DEF HandleForm
  <2>3. now' \in 0..MaxChanges
    BY <2>2, ConstantsOK DEF AnswerForm, TypeOK
  <2>4. form' \in Forms
    <3> DEFINE c == Content(IF k = "invalid" THEN "page" ELSE k, l, now')
    <3>1. c \in Contents
      BY <2>3 DEF Content, Contents
    <3>2. (k = "page") \in BOOLEAN
      OBVIOUS
    <3> HIDE DEF c
    <3> QED
      BY <2>1, <2>2, <3>1, <3>2 DEF AnswerForm, Forms, c
  <2> QED
    BY <1>9, <2>1, <2>3, <2>4 DEF HandleForm, page, history, TypeOK, Frames
<1>10. CASE OthersChange
  BY <1>10, ConstantsOK DEF OthersChange, page, working, history, TypeOK, Frames
<1>11. CASE FrameReloads
  <2>1. visit # None /\ visit.loc \in Locs
    BY <1>11 DEF FrameReloads, TypeOK, Visits
  <2>2. CASE visit.frame = "cached" /\ Load(visit.loc)
    BY <1>11, <2>1, <2>2, LoadTypes DEF FrameReloads, TypeOK
  <2>3. CASE visit.frame = "answer" /\ Load(visit.reply.of)
    <3>1. visit.reply.of \in Locs
      BY <2>1, <2>3 DEF Frames, TypeOK, Visits, Contents
    <3> QED
      BY <1>11, <2>3, <3>1, LoadTypes DEF FrameReloads, TypeOK
  <2> QED
    BY <1>11, <2>2, <2>3 DEF FrameReloads
<1>12. CASE FrameCached
  <2>1. visit # None /\ visit \in Visits /\ visit.snap \in Contents
    BY <1>12 DEF FrameCached, Frames, TypeOK, Visits
  <2>2. trail' \in Seq(Locs) /\ at' \in DOMAIN trail' /\ last' \in Locs
    BY <1>12, <2>1, ShowAddressTypes DEF FrameCached
  <2>3. cache' \in [Locs -> Contents \cup {None}]
    BY <1>12 DEF FrameCached, CacheSnapshot, TypeOK
  <2>4. doc' \in Contents /\ doc'.kind \in {"page", "error", "raw"}
    BY <1>12, <2>1 DEF FrameCached, TypeOK
  <2>5. visit' \in Visits \cup {None} /\ Frames'
    BY <1>12, <2>1 DEF FrameCached, Visits, Frames
  <2>6. preview' \in BOOLEAN /\ left' \in BOOLEAN
    BY <1>12 DEF FrameCached, MarkAsPreview
  <2> QED
    BY <1>12, <2>1, <2>2, <2>3, <2>4, <2>5, <2>6 DEF FrameCached, TypeOK
<1>13. CASE FrameAnswer
  <2>1. visit # None /\ visit \in Visits /\ visit.reply \in Contents
        /\ visit.reply # None /\ visit.reply.kind \in {"page", "error"}
    BY <1>13 DEF FrameAnswer, Frames, TypeOK, Visits
  <2>2. trail' \in Seq(Locs) /\ at' \in DOMAIN trail' /\ last' \in Locs
    BY <1>13, <2>1, ShowAddressTypes DEF FrameAnswer
  <2>3. cache' \in [Locs -> Contents \cup {None}]
    BY <1>13 DEF FrameAnswer, CacheSnapshot, TypeOK
  <2>4. doc' \in Contents /\ doc'.kind \in {"page", "error", "raw"}
    BY <1>13, <2>1 DEF FrameAnswer, TypeOK
  <2>5. FollowRedirect \in Visits /\ FollowRedirect.frame = visit.frame
        /\ FollowRedirect.reply = visit.reply
    BY <2>1 DEF FollowRedirect, Visits, Contents
  <2>6. visit' \in Visits \cup {None} /\ Frames'
    BY <1>13, <2>1, <2>5 DEF FrameAnswer, Frames
  <2>7. preview' \in BOOLEAN /\ left' \in BOOLEAN /\ known' \in 0..MaxChanges
    BY <1>13, <2>1 DEF FrameAnswer, MarkAsPreview, TypeOK, Contents
  <2> QED
    BY <1>13, <2>1, <2>2, <2>3, <2>4, <2>6, <2>7 DEF FrameAnswer, TypeOK
<1>14. CASE ReceiveVisit
  <2>1. visit # None /\ visit \in Visits /\ visit.loc \in Locs
    BY <1>14 DEF ReceiveVisit, TypeOK, Visits
  <2>2. CASE visit.reply.kind = "none" /\ Load(visit.loc)
    BY <1>14, <2>1, <2>2, LoadTypes DEF ReceiveVisit, TypeOK
  <2>3. CASE /\ visit.reply.kind \in {"page", "error"}
             /\ visit' = [visit EXCEPT !.frame = "answer"]
             /\ UNCHANGED <<now, page, prefetch, form, known, cut, left>>
    <3>1. visit' \in Visits /\ Frames'
      BY <1>14, <2>1, <2>3 DEF ReceiveVisit, Visits, Frames
    <3> QED
      BY <1>14, <2>1, <2>3, <3>1 DEF ReceiveVisit, page, TypeOK
  <2> QED
    BY <1>14, <2>2, <2>3 DEF ReceiveVisit
<1>15. CASE ReceiveRedirect
  <2>1. form # None /\ form.reply \in Contents /\ form.reply # None /\ form.reply.kind = "page"
    BY <1>15 DEF ReceiveRedirect, Answered, TypeOK, Forms
  <2>2. visit' \in Visits /\ Frames'
    BY <1>15, <2>1 DEF ReceiveRedirect, Visits, Frames, Contents
  <2> QED
    BY <1>15, <2>1, <2>2 DEF ReceiveRedirect, Answered, ClearSnapshotCache, history, TypeOK
<1>16. CASE ReceiveRefusal
  <2>1. form # None /\ form.reply \in Contents /\ form.reply.kind \in {"page", "error"}
    BY <1>16 DEF ReceiveRefusal, Answered, TypeOK, Forms
  <2>2. Addr \in Locs
    BY DEF Addr, TypeOK
  <2> QED
    BY <1>16, <2>1, <2>2
    DEF ReceiveRefusal, Answered, ClearSnapshotCache, MarkAsPreview, TypeOK, Frames
<1>17. CASE ReceiveNothing
  BY <1>17 DEF ReceiveNothing, Answered, page, TypeOK, Frames
<1>18. CASE UNCHANGED vars
  BY <1>18 DEF vars, page, working, history, TypeOK, Frames
<1> QED
  BY <1>1, <1>2, <1>3, <1>4, <1>5, <1>6, <1>7, <1>8, <1>9, <1>10, <1>11, <1>12,
     <1>13, <1>14, <1>15, <1>16, <1>17, <1>18 DEF Next

\* The tab's state is typed, and a frame finds what it is to render, whatever
\* pages there are and however long the tab is used.
THEOREM TypeCorrect == Spec => []TypeOK
<1>1. Types => TypeOK
  BY DEF Types
<1> QED
  BY <1>1, InitTypes, NextTypes, PTL DEF Spec

-----------------------------------------------------------------------------
(* Nothing older than the page after a form.                               *)

\* What is kept to be shown later is of version r or newer.
Since(r) ==
  /\ \A l \in Locs : cache[l] # None => cache[l].ver >= r
  /\ prefetch # None /\ prefetch.reply # None => prefetch.reply.ver >= r

\* Whatever the tab holds, and what the server will answer, is as new as known.
Fresh ==
  /\ known <= now /\ doc.ver >= known /\ Since(known)
  /\ visit # None => /\ visit.snap # None => visit.snap.ver >= known
                     /\ visit.reply # None => visit.reply.ver >= known
  /\ form # None /\ form.reply # None => form.reply.ver \in known..now

\* The page a form led to is about to be shown, and nothing older is kept.
Answering ==
  visit # None /\ visit.posted /\ visit.renders =>
    visit.frame = "answer" /\ visit.reply.ver <= now /\ Since(visit.reply.ver)

FreshInv == Types /\ Fresh /\ Answering

\* An answer to a GET is as new as the data.
LEMMA AnswersAreNow ==
  ASSUME NEW l \in Locs, NEW a \in Answers(l)
  PROVE  a.ver = now
BY DEF Answers, Content

\* The versions that are compared are numbers.
LEMMA VersionsAreNumbers ==
  ASSUME Types
  PROVE  /\ now \in Nat /\ known \in Nat /\ doc.ver \in Nat
         /\ \A l \in Locs : cache[l] # None => cache[l].ver \in Nat
         /\ prefetch # None /\ prefetch.reply # None => prefetch.reply.ver \in Nat
         /\ visit # None /\ visit.snap # None => visit.snap.ver \in Nat
         /\ visit # None /\ visit.reply # None => visit.reply.ver \in Nat
         /\ form # None /\ form.reply # None => form.reply.ver \in Nat
<1>1. now \in Nat /\ known \in Nat
  BY ConstantsOK DEF Types, TypeOK
<1>2. \A c \in Contents : c.ver \in Nat
  BY ConstantsOK DEF Contents
<1>3. doc \in Contents /\ \A l \in Locs : cache[l] \in Contents \cup {None}
  BY DEF Types, TypeOK
<1>4. prefetch # None => prefetch.reply \in Contents \cup {None}
  BY DEF Types, TypeOK
<1>5. visit # None => visit.snap \in Contents \cup {None} /\ visit.reply \in Contents \cup {None}
  BY DEF Types, TypeOK, Visits
<1>6. form # None => form.reply \in Contents \cup {None}
  BY DEF Types, TypeOK, Forms
<1> QED
  BY <1>1, <1>2, <1>3, <1>4, <1>5, <1>6

\* A document loaded anew shows the data as it is.
LEMMA LoadFresh ==
  ASSUME FreshInv, NEW l \in Locs, Load(l)
  PROVE  Fresh' /\ Answering'
<1>1. doc'.ver = now
  <2>1. PICK a \in Answers(l) :
          doc' = IF a.kind = "page" THEN a ELSE [a EXCEPT !.kind = "raw"]
    BY DEF Load
  <2>2. a \in Contents /\ a.ver = now
    BY AnswersAreContents, AnswersAreNow DEF FreshInv, Types
  <2> QED
    BY <2>1, <2>2 DEF Contents
<1>2. /\ visit' = None /\ form' = None /\ prefetch' = None
      /\ now' = now /\ known' = known /\ \A m \in Locs : cache'[m] = None
  BY DEF Load
<1>3. now \in Nat /\ known \in Nat /\ known <= now
  BY VersionsAreNumbers DEF FreshInv, Fresh
<1> QED
  BY <1>1, <1>2, <1>3 DEF Fresh, Answering, Since

\* A click or Back starts from what the cache or the prefetched request hold.
LEMMA StartFresh ==
  ASSUME FreshInv, NEW l \in Locs, NEW act, NEW shown, Start(l, act, shown),
         UNCHANGED <<now, doc, cache, known>>
  PROVE  Fresh' /\ Answering'
<1>1. /\ visit'.snap = cache[l] /\ ~visit'.posted /\ form' = None
      /\ prefetch' \in {prefetch, None}
      /\ visit'.reply \in {cache[l], None} \/ (prefetch # None /\ visit'.reply = prefetch.reply)
  BY DEF Start, StopForm
<1>2. Since(known)'
  BY <1>1 DEF FreshInv, Fresh, Since
<1> QED
  BY <1>1, <1>2 DEF FreshInv, Fresh, Answering, Since

\* Every action keeps what is held as new as known.
LEMMA NextFresh == FreshInv /\ [Next]_vars => Fresh' /\ Answering'
<1> SUFFICES ASSUME FreshInv, [Next]_vars PROVE Fresh' /\ Answering'
  OBVIOUS
<1> DEFINE Goal == Fresh' /\ Answering'
<1>0. Types /\ Fresh /\ Answering
  BY DEF FreshInv
<1>1. ASSUME NEW l \in Locs, Click(l) PROVE Goal
  BY <1>1, StartFresh DEF Click, page
<1>2. ASSUME NEW l \in Locs, Hover(l) PROVE Goal
  BY <1>0, <1>2 DEF Hover, page, history, Fresh, Answering, Since
<1>3. ASSUME NEW l \in Locs, GoTo(l) PROVE Goal
  BY <1>3, LoadFresh DEF GoTo
<1>4. ASSUME NEW i \in DOMAIN trail, Restore(i) PROVE Goal
  <2>1. trail \in Seq(Locs)
    BY <1>0 DEF Types, TypeOK
  <2>2. trail[i] \in Locs
    BY <1>4, <2>1
  <2> QED
    BY <1>4, <2>2, StartFresh DEF Restore
<1>5. CASE Forget
  BY <1>0, <1>5 DEF Forget, page, history, Fresh, Answering, Since
<1>6. CASE Submit
  <2>1. visit' = None /\ (form' # None => form'.reply = None)
    BY <1>6 DEF Submit
  <2> QED
    BY <1>0, <1>6, <2>1 DEF Submit, page, Fresh, Answering, Since
<1>7. CASE HandleVisit
  <2>1. visit # None /\ visit.reply = None /\ visit.loc \in Locs /\ visit \in Visits
    BY <1>0, <1>7 DEF HandleVisit, Waits, Types, TypeOK, Visits
  <2>2. PICK a \in Answers(visit.loc) : visit' = [visit EXCEPT !.reply = a]
    BY <1>7 DEF HandleVisit
  <2>3. /\ visit'.reply.ver = now /\ visit'.snap = visit.snap
        /\ visit'.posted = visit.posted /\ visit'.renders = visit.renders
    BY <2>1, <2>2, AnswersAreNow DEF Visits
  <2>4. ~(visit.posted /\ visit.renders)
    BY <1>0, <2>1 DEF Answering, Types, Frames
  <2> QED
    BY <1>0, <1>7, <2>1, <2>3, <2>4
    DEF HandleVisit, page, history, Fresh, Answering, Since
<1>8. CASE HandlePrefetch
  <2>1. prefetch # None /\ prefetch.loc \in Locs
    BY <1>0, <1>8 DEF HandlePrefetch, Waits, Types, TypeOK
  <2>2. PICK a \in Answers(prefetch.loc) : prefetch' = [prefetch EXCEPT !.reply = a]
    BY <1>8 DEF HandlePrefetch
  <2>3. prefetch'.reply.ver = now
    BY <1>0, <2>1, <2>2, AnswersAreNow DEF Types, TypeOK
  <2> QED
    BY <1>0, <1>8, <2>3, VersionsAreNumbers
    DEF HandlePrefetch, page, history, Fresh, Answering, Since
<1>9. CASE HandleForm
  <2>1. form # None /\ form \in Forms /\ visit = None
    BY <1>0, <1>9 DEF HandleForm, Waits, Types, TypeOK
  <2>2. PICK done \in BOOLEAN, k \in {"page", "invalid", "error", "none"}, l \in Locs :
          AnswerForm(done, k, l)
    BY <1>9 DEF HandleForm
  <2>3. now \in Nat /\ known \in Nat /\ now' \in Nat /\ now <= now'
    BY <1>0, <2>2, VersionsAreNumbers DEF AnswerForm
  <2>4. form'.reply.ver = now'
    BY <2>1, <2>2 DEF AnswerForm, Forms, Content
  <2> QED
    BY <1>0, <1>9, <2>1, <2>3, <2>4
    DEF HandleForm, page, history, Fresh, Answering, Since
<1>10. CASE OthersChange
  <2>1. UNCHANGED <<doc, cache, prefetch, visit, form, known>>
    BY <1>10 DEF OthersChange, page, working, history
  <2>2. now \in Nat /\ known \in Nat /\ now' = now + 1
    BY <1>0, <1>10, VersionsAreNumbers DEF OthersChange
  <2>3. Since(known)' /\ (visit # None /\ visit.reply # None => visit.reply.ver \in Nat)
    BY <1>0, <2>1, VersionsAreNumbers DEF Fresh, Since
  <2>4. form # None /\ form.reply # None => form.reply.ver \in known..now'
    BY <1>0, <2>2, VersionsAreNumbers DEF Fresh
  <2>5. Fresh'
    BY <1>0, <2>1, <2>2, <2>3, <2>4 DEF Fresh
  <2>6. Answering'
    <3>1. SUFFICES ASSUME visit # None, visit.posted, visit.renders
                   PROVE  visit.frame = "answer" /\ visit.reply.ver <= now + 1
                          /\ Since(visit.reply.ver)'
      BY <2>1, <2>2 DEF Answering
    <3>2. visit.reply # None /\ visit.frame = "answer" /\ visit.reply.ver <= now
          /\ Since(visit.reply.ver)
      BY <1>0, <3>1 DEF Answering, Types, Frames
    <3>3. Since(visit.reply.ver)'
      BY <2>1, <3>2 DEF Since
    <3> QED
      BY <2>2, <2>3, <3>1, <3>2, <3>3
  <2> QED
    BY <2>5, <2>6
<1>11. CASE FrameReloads
  <2>1. visit # None /\ visit.loc \in Locs
        /\ (visit.frame = "answer" => visit.reply.of \in Locs)
    BY <1>0, <1>11 DEF FrameReloads, Types, TypeOK, Frames, Visits, Contents
  <2> QED
    BY <1>11, <2>1, LoadFresh DEF FrameReloads
<1>12. CASE FrameCached
  <2>1. visit # None /\ visit \in Visits /\ visit.snap # None /\ visit.frame = "cached"
    BY <1>0, <1>12 DEF FrameCached, Types, TypeOK, Frames
  <2>2. ~(visit.posted /\ visit.renders)
    BY <1>0, <2>1 DEF Answering
  <2>3. doc'.ver >= known
    BY <1>0, <1>12, <2>1 DEF FrameCached, Fresh
  <2>4. Since(known)'
    BY <1>0, <1>12 DEF FrameCached, CacheSnapshot, Fresh, Since, Types, TypeOK
  <2>5. visit' # None => /\ visit'.snap = visit.snap /\ visit'.reply = visit.reply
                         /\ visit'.posted = visit.posted /\ visit'.renders = visit.renders
    BY <1>12, <2>1 DEF FrameCached, Visits
  <2> QED
    BY <1>0, <1>12, <2>1, <2>2, <2>3, <2>4, <2>5 DEF FrameCached, Fresh, Answering
<1>13. CASE FrameAnswer
  <2>1. visit # None /\ visit \in Visits /\ visit.reply # None /\ visit.frame = "answer"
    BY <1>0, <1>13 DEF FrameAnswer, Types, TypeOK, Frames
  <2>2. visit.posted \in BOOLEAN /\ visit.renders \in BOOLEAN
    BY <2>1 DEF Visits
  <2>3. visit' # None => /\ visit'.snap = None /\ visit'.reply = visit.reply
                         /\ visit'.posted /\ ~visit'.renders
    BY <1>13, <2>1 DEF FrameAnswer, FollowRedirect, Visits
  <2>4. CASE visit.posted /\ visit.renders
    <3>1. known' = visit.reply.ver /\ doc' = visit.reply
          /\ UNCHANGED <<now, cache, prefetch, form>>
      BY <1>13, <2>4 DEF FrameAnswer
    <3>2. form = None
      BY <1>0, <2>1 DEF Types, TypeOK
    <3> QED
      BY <1>0, <2>1, <2>3, <2>4, <3>1, <3>2, VersionsAreNumbers
      DEF Fresh, Answering, Since
  <2>5. CASE ~(visit.posted /\ visit.renders)
    <3>1. known' = known /\ UNCHANGED <<now, prefetch, form>> /\ doc' \in {visit.reply, doc}
      BY <1>13, <2>5 DEF FrameAnswer
    <3>2. Since(known)'
      BY <1>0, <1>13, <3>1 DEF FrameAnswer, CacheSnapshot, Fresh, Since, Types, TypeOK
    <3> QED
      BY <1>0, <2>1, <2>3, <3>1, <3>2 DEF Fresh, Answering
  <2> QED
    BY <2>4, <2>5
<1>14. CASE ReceiveVisit
  <2>1. visit # None /\ visit \in Visits /\ visit.loc \in Locs /\ ~visit.posted
    BY <1>0, <1>14 DEF ReceiveVisit, Types, TypeOK, Visits
  <2>2. CASE Load(visit.loc)
    BY <2>1, <2>2, LoadFresh
  <2>3. CASE /\ visit' = [visit EXCEPT !.frame = "answer"]
             /\ UNCHANGED <<now, page, prefetch, form, known, cut, left>>
    <3>1. visit'.snap = visit.snap /\ visit'.reply = visit.reply /\ ~visit'.posted
      BY <2>1, <2>3 DEF Visits
    <3> QED
      BY <1>0, <2>1, <2>3, <3>1 DEF page, Fresh, Answering, Since
  <2> QED
    BY <1>14, <2>2, <2>3 DEF ReceiveVisit
<1>15. CASE ReceiveRedirect
  <2>1. form # None /\ form.reply # None /\ form.reply.ver \in known..now
    BY <1>0, <1>15 DEF ReceiveRedirect, Answered, Fresh
  <2>2. /\ visit'.snap = None /\ visit'.reply = form.reply /\ visit'.frame = "answer"
        /\ form' = None /\ prefetch' = None /\ \A l \in Locs : cache'[l] = None
        /\ UNCHANGED <<now, doc, known>>
    BY <1>15 DEF ReceiveRedirect, Answered, ClearSnapshotCache, history
  <2> QED
    BY <1>0, <2>1, <2>2, VersionsAreNumbers DEF Fresh, Answering, Since
<1>16. CASE ReceiveRefusal
  <2>1. form # None /\ form.reply # None /\ form.reply.ver \in known..now /\ visit = None
    BY <1>0, <1>16 DEF ReceiveRefusal, Answered, Fresh, Types, TypeOK
  <2>2. /\ doc' = form.reply /\ form' = None /\ visit' = None
        /\ UNCHANGED <<now, known, prefetch>>
        /\ \A l \in Locs : cache'[l] = None
    BY <1>16, <2>1 DEF ReceiveRefusal, Answered, ClearSnapshotCache
  <2> QED
    BY <1>0, <2>1, <2>2, VersionsAreNumbers DEF Fresh, Answering, Since
<1>17. CASE ReceiveNothing
  <2>1. prefetch' \in {prefetch, None} /\ form' = None
        /\ UNCHANGED <<now, doc, cache, visit, known>>
    BY <1>17 DEF ReceiveNothing, Answered, page
  <2> QED
    BY <1>0, <2>1 DEF Fresh, Answering, Since
<1>18. CASE UNCHANGED vars
  BY <1>0, <1>18 DEF vars, page, working, history, Fresh, Answering, Since
<1> QED
  BY <1>1, <1>2, <1>3, <1>4, <1>5, <1>6, <1>7, <1>8, <1>9, <1>10, <1>11, <1>12,
     <1>13, <1>14, <1>15, <1>16, <1>17, <1>18 DEF Next

\* Once the page after a form was shown, nothing older comes back, whatever
\* pages there are and however long the tab is used.
THEOREM NothingOlderAlways == Spec => []NothingOlder
<1>1. Init => FreshInv
  <2> SUFFICES ASSUME Init PROVE FreshInv
    OBVIOUS
  <2>1. Types
    BY InitTypes
  <2>2. doc.ver = 0
    BY DEF Init, Content
  <2> QED
    BY <2>1, <2>2 DEF Init, FreshInv, Fresh, Answering, Since
<1>2. FreshInv /\ [Next]_vars => FreshInv'
  BY NextTypes, NextFresh DEF FreshInv
<1>3. FreshInv => NothingOlder
  BY DEF FreshInv, Fresh, Since, NothingOlder
<1> QED
  BY <1>1, <1>2, <1>3, PTL DEF Spec

-----------------------------------------------------------------------------
(* Where every page and snapshot belongs.                                  *)

\* The visit only shows the address of the page already rendered.
Behind == visit # None /\ visit.posted /\ ~visit.renders

\* What a visit has got is of its location; one that came with its response
\* shows it next.
OfVisit ==
  visit # None =>
    /\ visit.posted => visit.frame = "answer" /\ visit.reply.of = visit.loc /\ ~visit.shown
    /\ visit.posted \/ visit.renders
    /\ visit.shown => Addr = visit.loc
    /\ visit.snap # None => visit.snap.of = visit.loc
    /\ visit.reply # None /\ visit.reply.kind # "page" => visit.reply.of = visit.loc
    /\ Behind => doc.of = visit.loc

OfPrefetch ==
  prefetch # None /\ prefetch.reply # None /\ prefetch.reply.kind # "page" =>
    prefetch.reply.of = prefetch.loc

\* A form is the document's, and so is what refuses it.
OfForm ==
  form # None =>
    /\ form.on = doc.of
    /\ form.reply # None => IF form.moved THEN form.reply.kind = "page"
                            ELSE form.reply.of = form.on

\* The document is of the address rendered last, which is the one shown when
\* no visit runs, and every snapshot is under its own.
Places ==
  /\ visit = None => last = Addr
  /\ ~Behind => doc.of = last
  /\ OfVisit /\ OfForm
  /\ \A l \in Locs : cache[l] # None => cache[l].of = l

PlaceInv == Types /\ OfPrefetch /\ (~cut => Places)

\* Only a page can be of another location than was asked for.
LEMMA AnswersAreOf ==
  ASSUME NEW l \in Locs, NEW a \in Answers(l), a.kind # "page"
  PROVE  a.of = l
BY DEF Answers, Content

\* A document loaded anew is of its address.
LEMMA LoadPlaced ==
  ASSUME Types, NEW l \in Locs, Load(l)
  PROVE  OfPrefetch' /\ Places'
<1>1. PICK a \in Answers(l) :
        /\ doc' = IF a.kind = "page" THEN a ELSE [a EXCEPT !.kind = "raw"]
        /\ trail' = <<a.of>> /\ last' = a.of
  BY DEF Load
<1>2. a \in Contents
  BY AnswersAreContents DEF Types
<1>3. doc'.of = a.of
  BY <1>1, <1>2 DEF Contents
<1>4. last' = Addr'
  BY <1>1 DEF Addr, Load
<1>5. visit' = None /\ form' = None /\ prefetch' = None /\ \A m \in Locs : cache'[m] = None
  BY DEF Load
<1> QED
  BY <1>1, <1>3, <1>4, <1>5 DEF OfPrefetch, Places, Behind, OfVisit, OfForm

\* A click or Back starts from what belongs to its location.
LEMMA StartPlaced ==
  ASSUME PlaceInv, NEW l \in Locs, NEW act \in {"advance", "restore"},
         NEW shown \in BOOLEAN, Start(l, act, shown), shown => Addr' = l, UNCHANGED <<doc, last, cache>>
  PROVE  OfPrefetch' /\ (~cut' => Places')
<1>1. /\ visit'.loc = l /\ visit'.snap = cache[l]
      /\ ~visit'.posted /\ visit'.renders /\ visit'.shown = shown
      /\ visit' # None /\ form' = None
  <2>1. form' = None /\ ~visit'.posted /\ visit'.renders /\ visit'.shown = shown
        /\ visit'.loc = l /\ visit'.snap = cache[l]
    BY DEF Start, StopForm
  <2>2. visit' # None
    BY StartTypes, NoneIsNoVisit DEF PlaceInv, Types
  <2> QED
    BY <2>1, <2>2
<1>2. prefetch' \in {prefetch, None}
  BY DEF Start
<1>3. visit'.reply \in {cache[l], None}
      \/ (prefetch # None /\ prefetch.loc = l /\ visit'.reply = prefetch.reply)
  BY DEF Start
<1>4. ASSUME ~cut' PROVE Places'
  <2>1. Places /\ ~Behind
    BY <1>4 DEF Start, Cuts, Behind, PlaceInv
  <2>2. OfVisit'
    BY <1>1, <1>3, <2>1 DEF OfVisit, Behind, Places, PlaceInv, OfPrefetch
  <2> QED
    BY <1>1, <2>1, <2>2 DEF Places, Behind, OfForm
<1> QED
  BY <1>2, <1>4 DEF PlaceInv, OfPrefetch

\* The address a visit shows is its location's, and is rendered last.
LEMMA ShowAddressPlaces ==
  ASSUME Types, visit # None, ShowAddress, visit.shown => Addr = visit.loc
  PROVE  last' = Addr' /\ Addr' = visit.loc
<1>1. visit.loc \in Locs /\ trail \in Seq(Locs) /\ at \in 1..Len(trail)
  BY DEF Types, TypeOK, Visits
<1>2. CASE visit.shown
  BY <1>1, <1>2 DEF ShowAddress, Addr
<1>3. CASE ~visit.shown /\ visit.action = "advance" /\ visit.loc # Addr
  <2>1. trail' = Append(SubSeq(trail, 1, at), visit.loc) /\ at' = at + 1 /\ last' = trail'[at']
    BY <1>3 DEF ShowAddress
  <2>2. SubSeq(trail, 1, at) \in Seq(Locs) /\ Len(SubSeq(trail, 1, at)) = at
    BY <1>1
  <2> QED
    BY <1>1, <2>1, <2>2 DEF Addr
<1>4. CASE ~visit.shown /\ ~(visit.action = "advance" /\ visit.loc # Addr)
  BY <1>1, <1>4 DEF ShowAddress, Addr
<1> QED
  BY <1>2, <1>3, <1>4

\* Every action leaves page, snapshots and address where they belong.
LEMMA NextPlaced == PlaceInv /\ [Next]_vars => OfPrefetch' /\ (~cut' => Places')
<1> SUFFICES ASSUME PlaceInv, [Next]_vars PROVE OfPrefetch' /\ (~cut' => Places')
  OBVIOUS
<1> DEFINE Goal == OfPrefetch' /\ (~cut' => Places')
<1>0. Types /\ OfPrefetch /\ (~cut => Places)
  BY DEF PlaceInv
<1>1. ASSUME NEW l \in Locs, Click(l) PROVE Goal
  BY <1>1, StartPlaced DEF Click, page
<1>2. ASSUME NEW l \in Locs, Hover(l) PROVE Goal
  BY <1>0, <1>2 DEF Hover, page, history, OfPrefetch, Places, Behind, OfVisit, OfForm, Addr
<1>3. ASSUME NEW l \in Locs, GoTo(l) PROVE Goal
  BY <1>0, <1>3, LoadPlaced DEF GoTo
<1>4. ASSUME NEW i \in DOMAIN trail, Restore(i) PROVE Goal
  <2>1. trail \in Seq(Locs)
    BY <1>0 DEF Types, TypeOK
  <2>2. trail[i] \in Locs
    BY <1>4, <2>1
  <2>3. Addr' = trail[i]
    BY <1>4 DEF Restore, Addr
  <2> QED
    BY <1>4, <2>2, <2>3, StartPlaced DEF Restore
<1>5. CASE Forget
  BY <1>0, <1>5 DEF Forget, page, history, OfPrefetch, Places, Behind, OfVisit, OfForm, Addr
<1>6. CASE Submit
  <2>1. /\ visit' = None /\ UNCHANGED <<trail, at, doc, last, cache, prefetch>>
        /\ form' # None => form'.on = doc.of /\ form'.reply = None
    BY <1>6 DEF Submit, page
  <2>2. ASSUME ~cut' PROVE Places /\ ~Behind /\ last = Addr
    BY <1>0, <1>6, <2>2 DEF Submit, Cuts, Behind, Places
  <2> QED
    BY <1>0, <2>1, <2>2 DEF OfPrefetch, Places, Behind, OfVisit, OfForm, Addr
<1>7. CASE HandleVisit
  <2>1. visit # None /\ visit.reply = None /\ visit.loc \in Locs /\ visit \in Visits
    BY <1>0, <1>7 DEF HandleVisit, Waits, Types, TypeOK, Visits
  <2>2. PICK a \in Answers(visit.loc) : visit' = [visit EXCEPT !.reply = a]
    BY <1>7 DEF HandleVisit
  <2>3. visit'.reply = a /\ (a.kind # "page" => a.of = visit.loc)
    BY <2>1, <2>2, AnswersAreOf DEF Visits
  <2>4. /\ visit'.loc = visit.loc /\ visit'.snap = visit.snap /\ visit'.frame = visit.frame
        /\ visit'.posted = visit.posted /\ visit'.renders = visit.renders
        /\ visit'.shown = visit.shown
    BY <2>1, <2>2 DEF Visits
  <2>5. visit' # None
    BY <1>0, <2>1, <2>2, AnswersAreContents, NoneIsNoVisit
    DEF Visits, Types
  <2>6. UNCHANGED <<trail, at, doc, last, cache, prefetch, form, cut>>
    BY <1>7 DEF HandleVisit, page, history
  <2>7. visit.frame # "answer"
    BY <1>0, <2>1 DEF Types, Frames
  <2>8. Places => OfVisit'
    BY <2>1, <2>3, <2>4, <2>6, <2>7 DEF Places, OfVisit, Behind, Addr
  <2> QED
    BY <1>0, <2>1, <2>4, <2>5, <2>6, <2>8 DEF OfPrefetch, Places, Behind, OfForm, Addr
<1>8. CASE HandlePrefetch
  <2>1. prefetch # None /\ prefetch.loc \in Locs
        /\ prefetch \in [loc : Locs, reply : Contents \cup {None}]
    BY <1>0, <1>8 DEF HandlePrefetch, Waits, Types, TypeOK
  <2>2. PICK a \in Answers(prefetch.loc) : prefetch' = [prefetch EXCEPT !.reply = a]
    BY <1>8 DEF HandlePrefetch
  <2>3. OfPrefetch'
    BY <2>1, <2>2, AnswersAreOf DEF OfPrefetch
  <2> QED
    BY <1>0, <1>8, <2>3
    DEF HandlePrefetch, page, history, Places, Behind, OfVisit, OfForm, Addr
<1>9. CASE HandleForm
  <2>1. form # None /\ form \in Forms /\ visit = None
    BY <1>0, <1>9 DEF HandleForm, Waits, Types, TypeOK
  <2>2. PICK done \in BOOLEAN, k \in {"page", "invalid", "error", "none"}, l \in Locs :
          AnswerForm(done, k, l)
    BY <1>9 DEF HandleForm
  <2>3. /\ form'.on = form.on
        /\ IF form'.moved THEN form'.reply.kind = "page" ELSE form'.reply.of = form.on
    BY <2>1, <2>2 DEF AnswerForm, Forms, Content
  <2> QED
    BY <1>0, <1>9, <2>1, <2>3
    DEF HandleForm, page, history, OfPrefetch, Places, Behind, OfVisit, OfForm, Addr
<1>10. CASE OthersChange
  BY <1>0, <1>10
  DEF OthersChange, page, working, history, OfPrefetch, Places, Behind, OfVisit, OfForm, Addr
<1>11. CASE FrameReloads
  <2>1. visit # None /\ visit.loc \in Locs
        /\ (visit.frame = "answer" => visit.reply.of \in Locs)
    BY <1>0, <1>11 DEF FrameReloads, Types, TypeOK, Frames, Visits, Contents
  <2> QED
    BY <1>0, <1>11, <2>1, LoadPlaced DEF FrameReloads
<1>12. CASE FrameCached
  <2>1. visit # None /\ visit \in Visits /\ visit.snap # None /\ visit.frame = "cached"
    BY <1>0, <1>12 DEF FrameCached, Types, TypeOK, Frames
  <2>2. UNCHANGED <<prefetch, form, cut>> /\ form = None
    BY <1>0, <1>12, <2>1 DEF FrameCached, Types, TypeOK
  <2>3. OfPrefetch'
    BY <1>0, <2>2 DEF OfPrefetch
  <2>4. ASSUME ~cut PROVE Places'
    <3>1. Places /\ ~visit.posted /\ visit.renders /\ doc.of = last
      BY <1>0, <2>1, <2>4 DEF Places, Behind, OfVisit
    <3>2. last' = Addr' /\ Addr' = visit.loc
      BY <1>0, <1>12, <2>1, <3>1, ShowAddressPlaces DEF FrameCached, Places, OfVisit
    <3>3. doc' = visit.snap /\ doc'.of = visit.loc
      BY <1>12, <2>1, <3>1 DEF FrameCached, Places, OfVisit
    <3>4. \A l \in Locs : cache'[l] # None => cache'[l].of = l
      BY <1>0, <1>12, <3>1 DEF FrameCached, CacheSnapshot, Places, Types, TypeOK
    <3>5. visit' # None =>
            /\ visit'.loc = visit.loc /\ visit'.snap = visit.snap /\ visit'.reply = visit.reply
            /\ ~visit'.posted /\ visit'.renders
      BY <1>12, <2>1, <3>1 DEF FrameCached, Visits
    <3>6. OfVisit' /\ ~Behind'
      BY <2>1, <3>1, <3>2, <3>5 DEF OfVisit, Behind, Places
    <3> QED
      BY <2>2, <3>2, <3>3, <3>4, <3>6 DEF Places, OfForm
  <2> QED
    BY <2>2, <2>3, <2>4
<1>13. CASE FrameAnswer
  <2>1. visit # None /\ visit \in Visits /\ visit.reply # None /\ visit.frame = "answer"
        /\ visit.reply.kind \in {"page", "error"}
    BY <1>0, <1>13 DEF FrameAnswer, Types, TypeOK, Frames
  <2>2. UNCHANGED <<prefetch, form, cut>> /\ form = None
    BY <1>0, <1>13, <2>1 DEF FrameAnswer, Types, TypeOK
  <2>3. OfPrefetch'
    BY <1>0, <2>2 DEF OfPrefetch
  <2>4. ASSUME ~cut PROVE Places'
    <3>1. Places /\ OfVisit
      BY <1>0, <2>4 DEF Places
    <3>2. last' = Addr' /\ Addr' = visit.loc
      BY <1>0, <1>13, <2>1, <3>1, ShowAddressPlaces DEF FrameAnswer, OfVisit
    <3>3. \A l \in Locs : cache'[l] # None => cache'[l].of = l
      BY <1>0, <1>13, <3>1 DEF FrameAnswer, CacheSnapshot, Places, Behind, Types, TypeOK
    <3>4. doc'.of = IF visit.renders THEN visit.reply.of ELSE visit.loc
      BY <1>13, <2>1, <3>1 DEF FrameAnswer, OfVisit, Behind
    <3>5. CASE visit.reply.kind = "page" /\ visit.reply.of # visit.loc
      <4>1. visit' = FollowRedirect /\ ~visit.posted /\ visit.renders
        BY <1>13, <2>1, <3>1, <3>5 DEF FrameAnswer, OfVisit
      <4>2. /\ visit'.loc = visit.reply.of /\ visit'.snap = None
            /\ visit'.posted /\ ~visit'.renders /\ ~visit'.shown
            /\ visit'.frame = "answer" /\ visit'.reply = visit.reply
        BY <2>1, <4>1 DEF FollowRedirect, Visits
      <4>3. visit' \in Visits
        BY <2>1, <4>1 DEF FollowRedirect, Visits, Contents
      <4>4. visit' # None /\ Behind' /\ OfVisit'
        BY <3>4, <3>5, <4>1, <4>2, <4>3, NoneIsNoVisit DEF Behind, OfVisit
      <4> QED
        BY <2>2, <3>3, <4>4 DEF Places, OfForm
    <3>6. CASE ~(visit.reply.kind = "page" /\ visit.reply.of # visit.loc)
      <4>1. visit' = None /\ visit.reply.of = visit.loc
        BY <1>13, <2>1, <3>1, <3>6 DEF FrameAnswer, OfVisit
      <4>2. doc'.of = visit.loc
        BY <3>4, <4>1
      <4> QED
        BY <2>2, <3>2, <3>3, <4>1, <4>2 DEF Places, OfForm, OfVisit, Behind
    <3> QED
      BY <3>5, <3>6
  <2> QED
    BY <2>2, <2>3, <2>4
<1>14. CASE ReceiveVisit
  <2>1. visit # None /\ visit \in Visits /\ visit.loc \in Locs /\ ~visit.posted
    BY <1>0, <1>14 DEF ReceiveVisit, Types, TypeOK, Visits
  <2>2. CASE Load(visit.loc)
    BY <1>0, <2>1, <2>2, LoadPlaced
  <2>3. CASE /\ visit' = [visit EXCEPT !.frame = "answer"]
             /\ UNCHANGED <<now, page, prefetch, form, known, cut, left>>
    <3>1. /\ visit'.loc = visit.loc /\ visit'.snap = visit.snap
          /\ visit'.reply = visit.reply /\ ~visit'.posted
          /\ visit'.renders = visit.renders /\ visit'.shown = visit.shown
      BY <2>1, <2>3 DEF Visits
    <3>2. visit' # None
      BY <2>1, <2>3, NoneIsNoVisit DEF Visits
    <3>3. Places => OfVisit'
      BY <2>1, <2>3, <3>1 DEF Places, OfVisit, Behind, page, Addr
    <3> QED
      BY <1>0, <2>1, <2>3, <3>1, <3>2, <3>3 DEF page, OfPrefetch, Places, Behind, OfForm, Addr
  <2> QED
    BY <1>14, <2>2, <2>3 DEF ReceiveVisit
<1>15. CASE ReceiveRedirect
  <2>1. form # None /\ form.reply # None /\ form.reply.kind = "page" /\ visit = None
    BY <1>0, <1>15 DEF ReceiveRedirect, Answered, Types, TypeOK
  <2>2. /\ visit'.loc = form.reply.of /\ visit'.snap = None /\ visit'.frame = "answer"
        /\ visit'.reply = form.reply /\ visit'.posted /\ visit'.renders /\ ~visit'.shown
        /\ form' = None /\ prefetch' = None /\ \A l \in Locs : cache'[l] = None
    BY <1>15 DEF ReceiveRedirect, Answered, ClearSnapshotCache
  <2>3. UNCHANGED <<trail, at, doc, last, cut>>
    BY <1>15 DEF ReceiveRedirect, history
  <2>4. visit' # None
    <3>1. form.reply \in Contents
      BY <1>0, <2>1 DEF Types, TypeOK, Forms
    <3>2. visit' \in Visits
      BY <1>15, <3>1 DEF ReceiveRedirect, Visits, Contents
    <3> QED
      BY <3>2, NoneIsNoVisit
  <2> QED
    BY <1>0, <2>1, <2>2, <2>3, <2>4 DEF OfPrefetch, Places, Behind, OfVisit, OfForm
<1>16. CASE ReceiveRefusal
  <2>1. form # None /\ form.reply # None /\ visit = None /\ form \in Forms
        /\ (form.moved => form.reply.kind # "page")
    BY <1>0, <1>16 DEF ReceiveRefusal, Answered, Types, TypeOK
  <2>2. /\ doc' = form.reply /\ form' = None /\ visit' = None /\ last' = Addr /\ Addr' = Addr
        /\ UNCHANGED <<prefetch, cut>>
        /\ \A l \in Locs : cache'[l] = None
    BY <1>16, <2>1 DEF ReceiveRefusal, Answered, ClearSnapshotCache, Addr
  <2>3. Places => form.reply.of = Addr
    BY <2>1 DEF Places, OfForm, Behind
  <2> QED
    BY <1>0, <2>1, <2>2, <2>3 DEF OfPrefetch, Places, Behind, OfVisit, OfForm
<1>17. CASE ReceiveNothing
  <2>1. form # None /\ visit = None /\ prefetch' \in {prefetch, None} /\ form' = None
        /\ UNCHANGED <<trail, at, doc, last, cache, visit, cut>>
    BY <1>0, <1>17 DEF ReceiveNothing, Answered, page, Types, TypeOK
  <2> QED
    BY <1>0, <2>1 DEF OfPrefetch, Places, Behind, OfVisit, OfForm, Addr
<1>18. CASE UNCHANGED vars
  BY <1>0, <1>18
  DEF vars, page, working, history, OfPrefetch, Places, Behind, OfVisit, OfForm, Addr
<1> QED
  BY <1>1, <1>2, <1>3, <1>4, <1>5, <1>6, <1>7, <1>8, <1>9, <1>10, <1>11, <1>12,
     <1>13, <1>14, <1>15, <1>16, <1>17, <1>18 DEF Next

\* A snapshot is kept under the address of its page unless a visit was cut off
\* half-way, whatever pages and redirects there are.
THEOREM CacheIsItsPageAlways == Spec => []CacheIsItsPage
<1>1. Init => PlaceInv
  <2> SUFFICES ASSUME Init PROVE PlaceInv
    OBVIOUS
  <2>1. Types
    BY InitTypes
  <2>2. PICK l \in Locs : trail = <<l>> /\ last = l /\ doc = Content("page", l, 0)
    BY DEF Init
  <2>3. last = Addr /\ doc.of = last
    BY <2>2 DEF Init, Addr, Content
  <2> QED
    BY <2>1, <2>3 DEF Init, PlaceInv, OfPrefetch, Places, Behind, OfVisit, OfForm
<1>2. PlaceInv /\ [Next]_vars => PlaceInv'
  BY NextTypes, NextPlaced DEF PlaceInv
<1>3. PlaceInv => CacheIsItsPage
  BY DEF PlaceInv, Places, CacheIsItsPage
<1> QED
  BY <1>1, <1>2, <1>3, PTL DEF Spec

=============================================================================
