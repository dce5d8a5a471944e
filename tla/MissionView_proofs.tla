------------------------- MODULE MissionView_proofs -------------------------
(***************************************************************************)
(* Proof that a page never rests on less than the tab has been told of     *)
(* (ToldIsComing), for any subset of the entries and every bound.          *)
(*                                                                         *)
(* ToldIsComing speaks of the open page.  What another page will need is   *)
(* decided before it opens: an entry nobody uses is forgotten when a tag   *)
(* of it takes effect, and read again when a page mounts.  Coming follows  *)
(* every entry, used or not, and is kept by the two operators all actions  *)
(* go through, Settle and Mounted.                                         *)
(***************************************************************************)
EXTENDS MissionView, TLAPS

\* What an answer may hold of the mission.
Holdings == {"none", "active", "archived"}

\* What an end of a request may be; at rest it is NoRequest.
Requests(ends) ==
  {r \in [at : {"none", "sent", "stale"} \cup ends, version : Nat, holds : Holdings] :
     r.at = "none" => r = NoRequest}
ReadType == Requests({"read", "failed"})
ChangeType == Requests({"applied", "refused"})

\* An entry no request has answered shows nothing.
CacheType ==
  {c \in [ended : {"never", "ok", "failed"}, shows : Nat, holds : Holdings] :
     c.ended = "never" => c.shows = 0}

Sessions == {"none", "valid", "expired"}

TypeInv ==
  /\ clock \in Nat
  /\ session \in Sessions
  /\ inbox \in Seq(Nat)
  /\ cache \in [Entries -> CacheType]
  /\ wire \in [Entries -> ReadType]
  /\ own \in [Kinds -> ChangeType]
  /\ told \in [Subjects -> Nat]

\* Nobody knows of a change that has not been made.
NothingAhead ==
  /\ \A s \in Subjects : told[s] <= clock
  /\ \A k \in Kinds : own[k].version <= clock
  /\ \A i \in DOMAIN inbox : inbox[i] <= clock

\* An entry x for e shows what t says of the subjects it is about, or failed.
Fresh(e, x, t) == x.ended = "failed" \/ \A s \in Concerns(e, x) : x.shows >= t[s]

\* With page p, cache c, requests w and waiting tags: an entry at rest is fresh,
\* or waits for a tag of its own, or is not used and shows nothing; a read too
\* early for t waits for a tag of what it will provide.
Rests(e, p, c, w, tags, t) ==
  w[e] = NoRequest =>
    \/ Fresh(e, c[e], t)
    \/ Provides(e, c[e]) \cap tags # {}
    \/ e \notin Subscribed(p) /\ c[e].shows = 0

ReadsAgain(e, w, tags, t) ==
  w[e].at = "read" =>
    Fresh(e, Answer(w[e]), t) \/ Provides(e, Answer(w[e])) \cap tags # {}

\* What a page uses has been asked for.
Asked(e, p, c, w) == e \in Subscribed(p) /\ c[e].ended = "never" => w[e] # NoRequest

Coming(p, c, w, tags, t) ==
  \A e \in Entries : Rests(e, p, c, w, tags, t) /\ ReadsAgain(e, w, tags, t) /\ Asked(e, p, c, w)

ViewInv == TypeInv /\ NothingAhead /\ Coming(page, cache, wire, pendingTags, told)

-----------------------------------------------------------------------------
(* The operators of the cache. *)

\* A request asks; it has not read.
LEMMA RequestAsks ==
  ASSUME NEW s
  PROVE  /\ Request(s) \in ReadType /\ Request(s) \in ChangeType
         /\ Request(s).at \in {"sent", "stale"} /\ Request(s) # NoRequest
BY DEF Request, ReadType, ChangeType, Requests, NoRequest, Holdings

\* A request that has read leaves an entry of its version.
LEMMA AnswerTypes ==
  ASSUME NEW w \in ReadType
  PROVE  Answer(w) \in CacheType /\ Answer(w).ended = "ok" /\ Answer(w).shows = w.version
BY DEF Answer, ReadType, Requests, CacheType

\* An entry is about what the tab can be told of.
LEMMA ConcernsSubjects ==
  ASSUME NEW e \in Entries, NEW x
  PROVE  Concerns(e, x) \subseteq Subjects
BY EntriesAssumption DEF Concerns, Subjects, Lists

\* Settle keeps the types.
LEMMA SettleTypes ==
  ASSUME NEW p, NEW c \in [Entries -> CacheType], NEW w \in [Entries -> ReadType], NEW o, NEW tags
  PROVE  /\ Settle(p, c, w, o, tags).cache \in [Entries -> CacheType]
         /\ Settle(p, c, w, o, tags).wire \in [Entries -> ReadType]
<1>1. Empty \in CacheType /\ Request(session) \in ReadType
  BY RequestAsks DEF Empty, CacheType, Holdings
<1> QED
  BY <1>1 DEF Settle

\* Settle loses nothing: a tag takes effect only when every entry is at rest,
\* and then each entry it is of is read again or forgotten.
LEMMA SettleKeeps ==
  ASSUME NEW p, NEW c \in [Entries -> CacheType], NEW w \in [Entries -> ReadType], NEW o,
         NEW tags, NEW t \in [Subjects -> Nat], Coming(p, c, w, tags, t)
  PROVE  LET after == Settle(p, c, w, o, tags)
         IN  Coming(p, after.cache, after.wire, after.tags, t)
<1> DEFINE pending == \/ \E e \in Entries : w[e] # NoRequest
                      \/ \E k \in Kinds : o[k] # NoRequest
           Hit(e) == c[e].ended # "never" /\ Provides(e, c[e]) \cap tags # {}
           after == Settle(p, c, w, o, tags)
<1>1. CASE pending
  BY <1>1 DEF Settle
<1>2. CASE ~pending
  <2>1. /\ after.cache = [e \in Entries |-> IF Hit(e) /\ e \notin Subscribed(p) THEN Empty ELSE c[e]]
        /\ after.wire = [e \in Entries |->
                           IF Hit(e) /\ e \in Subscribed(p) THEN Request(session) ELSE w[e]]
        /\ after.tags = {}
    BY <1>2 DEF Settle
  <2> SUFFICES ASSUME NEW e \in Entries
               PROVE  /\ Rests(e, p, after.cache, after.wire, after.tags, t)
                      /\ ReadsAgain(e, after.wire, after.tags, t)
                      /\ Asked(e, p, after.cache, after.wire)
    BY DEF Coming
  <2>2. w[e] = NoRequest /\ w[e].at = "none" /\ c[e] \in CacheType
    BY <1>2 DEF NoRequest
  <2>3. Rests(e, p, c, w, tags, t) /\ Asked(e, p, c, w)
    BY DEF Coming
  <2>4. CASE Hit(e) /\ e \in Subscribed(p)
    <3>1. after.wire[e] = Request(session) /\ after.cache[e] = c[e]
      BY <2>1, <2>4
    <3> QED
      BY <3>1, RequestAsks DEF Rests, ReadsAgain, Asked
  <2>5. CASE Hit(e) /\ e \notin Subscribed(p)
    <3>1. after.wire[e] = w[e] /\ after.cache[e] = Empty
      BY <2>1, <2>5
    <3> QED
      BY <2>2, <2>5, <3>1 DEF Rests, ReadsAgain, Asked, Empty
  <2>6. CASE ~Hit(e)
    <3>1. after.wire[e] = w[e] /\ after.cache[e] = c[e]
      BY <2>1, <2>6
    <3>2. c[e].ended = "never" => e \notin Subscribed(p) /\ c[e].shows = 0
      BY <2>2, <2>3 DEF Asked, CacheType
    <3> QED
      BY <2>2, <2>3, <2>6, <3>1, <3>2 DEF Rests, ReadsAgain, Asked
  <2> QED
    BY <2>4, <2>5, <2>6
<1> QED
  BY <1>1, <1>2

\* Nor does a page that opens: what it uses and nothing has shown is asked for.
LEMMA MountKeeps ==
  ASSUME NEW q, NEW p, NEW s, NEW c \in [Entries -> CacheType],
         NEW w \in [Entries -> ReadType], NEW tags, NEW t \in [Subjects -> Nat],
         Coming(q, c, w, tags, t)
  PROVE  /\ Mounted(p, s, c, w) \in [Entries -> ReadType]
         /\ Coming(p, c, Mounted(p, s, c, w), tags, t)
<1> DEFINE m == Mounted(p, s, c, w)
<1>1. m = [e \in Entries |->
             IF e \in Subscribed(p) /\ w[e] = NoRequest /\ c[e].shows = 0 THEN Request(s) ELSE w[e]]
  BY DEF Mounted
<1>2. m \in [Entries -> ReadType]
  BY <1>1, RequestAsks
<1>3. ASSUME NEW e \in Entries
      PROVE  Rests(e, p, c, m, tags, t) /\ ReadsAgain(e, m, tags, t) /\ Asked(e, p, c, m)
  <2>1. c[e] \in CacheType /\ Rests(e, q, c, w, tags, t) /\ ReadsAgain(e, w, tags, t)
    BY DEF Coming
  <2>2. CASE e \in Subscribed(p) /\ w[e] = NoRequest /\ c[e].shows = 0
    <3>1. m[e] = Request(s)
      BY <1>1, <2>2
    <3> QED
      BY <3>1, RequestAsks DEF Rests, ReadsAgain, Asked
  <2>3. CASE ~(e \in Subscribed(p) /\ w[e] = NoRequest /\ c[e].shows = 0)
    <3>1. m[e] = w[e]
      BY <1>1, <2>3
    <3> QED
      BY <2>1, <2>3, <3>1 DEF Rests, ReadsAgain, Asked, CacheType
  <2> QED
    BY <2>2, <2>3
<1> QED
  BY <1>2, <1>3 DEF Coming

\* More tags may wait than do.
LEMMA MoreTagsKeep ==
  ASSUME NEW p, NEW c, NEW w, NEW tags, NEW more, NEW t, Coming(p, c, w, tags, t)
  PROVE  Coming(p, c, w, tags \cup more, t)
<1>1. \A X : X \cap tags # {} => X \cap (tags \cup more) # {}
  OBVIOUS
<1> QED
  BY <1>1 DEF Coming, Rests, ReadsAgain, Asked

\* News come with a tag of every entry that is about them.
LEMMA NewsKeep ==
  ASSUME NEW p, NEW c \in [Entries -> CacheType], NEW w \in [Entries -> ReadType], NEW tags,
         NEW more, NEW t, NEW u, Coming(p, c, w, tags, t),
         \A s \in Subjects :
           \/ u[s] = t[s]
           \/ \A e \in Entries, x \in CacheType :
                x.ended # "failed" /\ s \in Concerns(e, x) => Provides(e, x) \cap more # {}
  PROVE  Coming(p, c, w, tags \cup more, u)
<1> SUFFICES ASSUME NEW e \in Entries
             PROVE  /\ Rests(e, p, c, w, tags \cup more, u) /\ ReadsAgain(e, w, tags \cup more, u)
                    /\ Asked(e, p, c, w)
  BY DEF Coming
<1>1. Coming(p, c, w, tags \cup more, t)
  BY MoreTagsKeep
<1>2. ASSUME NEW x \in CacheType, Fresh(e, x, t)
      PROVE  Fresh(e, x, u) \/ Provides(e, x) \cap (tags \cup more) # {}
  <2>1. CASE x.ended = "failed"
    BY <2>1 DEF Fresh
  <2>2. CASE x.ended # "failed" /\ \A s \in Concerns(e, x) : u[s] = t[s]
    BY <1>2, <2>2 DEF Fresh
  <2>3. CASE x.ended # "failed" /\ \E s \in Concerns(e, x) : u[s] # t[s]
    <3>1. PICK s \in Concerns(e, x) : u[s] # t[s]
      BY <2>3
    <3>2. Provides(e, x) \cap more # {}
      BY <2>3, <3>1, ConcernsSubjects
    <3> QED
      BY <3>2
  <2> QED
    BY <2>1, <2>2, <2>3
<1>3. Rests(e, p, c, w, tags \cup more, u)
  <2>1. c[e] \in CacheType /\ Rests(e, p, c, w, tags \cup more, t)
    BY <1>1 DEF Coming
  <2> QED
    BY <1>2, <2>1 DEF Rests
<1>4. ReadsAgain(e, w, tags \cup more, u)
  <2>1. Answer(w[e]) \in CacheType /\ ReadsAgain(e, w, tags \cup more, t)
    BY <1>1, AnswerTypes DEF Coming
  <2> QED
    BY <1>2, <2>1 DEF ReadsAgain
<1> QED
  BY <1>1, <1>3, <1>4 DEF Coming

\* Nothing is used on the login page.
LEMMA LoginKeeps ==
  ASSUME NEW p, NEW c, NEW w, NEW tags, NEW t, Coming(p, c, w, tags, t)
  PROVE  Coming("login", c, w, tags, t)
<1>1. Subscribed("login") = {}
  BY DEF Subscribed, Lists
<1> QED
  BY <1>1 DEF Coming, Rests, ReadsAgain, Asked

\* The request for e has ended and left x.
LEMMA EndKeeps ==
  ASSUME NEW p, NEW c \in [Entries -> CacheType], NEW w \in [Entries -> ReadType], NEW tags,
         NEW t, NEW e \in Entries, NEW x \in CacheType, Coming(p, c, w, tags, t),
         \/ Fresh(e, x, t) \/ Provides(e, x) \cap tags # {}
         \/ e \notin Subscribed(p) /\ x.shows = 0,
         e \in Subscribed(p) => x.ended # "never"
  PROVE  /\ [c EXCEPT ![e] = x] \in [Entries -> CacheType]
         /\ [w EXCEPT ![e] = NoRequest] \in [Entries -> ReadType]
         /\ Coming(p, [c EXCEPT ![e] = x], [w EXCEPT ![e] = NoRequest], tags, t)
<1>1. NoRequest \in ReadType
  BY DEF NoRequest, ReadType, Requests, Holdings
<1> SUFFICES ASSUME NEW d \in Entries
             PROVE  /\ Rests(d, p, [c EXCEPT ![e] = x], [w EXCEPT ![e] = NoRequest], tags, t)
                    /\ ReadsAgain(d, [w EXCEPT ![e] = NoRequest], tags, t)
                    /\ Asked(d, p, [c EXCEPT ![e] = x], [w EXCEPT ![e] = NoRequest])
  BY <1>1 DEF Coming
<1>2. CASE d = e
  BY <1>2 DEF Rests, ReadsAgain, Asked, NoRequest
<1>3. CASE d # e
  BY <1>3 DEF Coming, Rests, ReadsAgain, Asked
<1> QED
  BY <1>2, <1>3

-----------------------------------------------------------------------------
(* The actions on the cache. *)

\* What Ended leaves behind, when the entry was left in order.
LEMMA EndedKeeps ==
  ASSUME TypeInv, Coming(page, cache, wire, pendingTags, told), NEW e \in Entries,
         NEW x \in CacheType,
         \/ Fresh(e, x, told) \/ Provides(e, x) \cap pendingTags # {}
         \/ e \notin Subscribed(page) /\ x.shows = 0,
         e \in Subscribed(page) => x.ended # "never",
         Ended(e, [cache EXCEPT ![e] = x])
  PROVE  /\ cache' \in [Entries -> CacheType] /\ wire' \in [Entries -> ReadType]
         /\ Coming(page, cache', wire', pendingTags', told)
<1> DEFINE c == [cache EXCEPT ![e] = x]
           w == [wire EXCEPT ![e] = NoRequest]
           after == Settle(page, c, w, own, pendingTags)
<1>1. /\ c \in [Entries -> CacheType] /\ w \in [Entries -> ReadType]
      /\ Coming(page, c, w, pendingTags, told)
  BY EndKeeps DEF TypeInv
<1>2. Coming(page, after.cache, after.wire, after.tags, told)
  BY <1>1, SettleKeeps DEF TypeInv
<1>3. after.cache \in [Entries -> CacheType] /\ after.wire \in [Entries -> ReadType]
  BY <1>1, SettleTypes
<1> QED
  BY <1>2, <1>3 DEF Ended

\* A failure shows what was there before, as failed.
LEMMA FailureKeeps ==
  ASSUME TypeInv, NEW e \in Entries
  PROVE  \E x \in CacheType : /\ Failure(e) = [cache EXCEPT ![e] = x]
                              /\ x.ended = "failed"
<1> DEFINE x == [cache[e] EXCEPT !.ended = "failed"]
<1>1. x \in CacheType /\ x.ended = "failed" /\ Failure(e) = [cache EXCEPT ![e] = x]
  BY DEF Failure, TypeInv, CacheType
<1> QED
  BY <1>1

\* The steps of one entry's request.
LEMMA RequestStep ==
  ASSUME ViewInv, NEW e \in Entries,
         Read(e) \/ Arrive(e) \/ RequestFails(e) \/ Expire(e) \/ Unauthorized(e)
  PROVE  ViewInv'
<1>0. TypeInv /\ NothingAhead /\ Coming(page, cache, wire, pendingTags, told)
  BY DEF ViewInv
<1>1. CASE Read(e)
  <2>1. PICK r \in ReadType : /\ wire' = [wire EXCEPT ![e] = r]
                              /\ r # NoRequest
                              /\ r.at = "read" => r.version = clock
    <3>1. CASE deleted /\ e \notin Lists
      <4>1. wire' = [wire EXCEPT ![e] = [wire[e] EXCEPT !.at = "failed"]]
        BY <1>1, <3>1, <1>0 DEF Read, TypeInv
      <4>2. wire[e] \in ReadType /\ [wire[e] EXCEPT !.at = "failed"].at = "failed"
        BY <1>0 DEF TypeInv, ReadType
      <4>3. [wire[e] EXCEPT !.at = "failed"] \in ReadType
        BY <4>2 DEF ReadType, Requests
      <4> QED
        BY <4>1, <4>2, <4>3 DEF NoRequest
    <3>2. CASE ~(deleted /\ e \notin Lists)
      <4>1. wire' = [wire EXCEPT ![e] = [at |-> "read", version |-> clock, holds |-> Holding(e)]]
        BY <1>1, <3>2 DEF Read
      <4>2. Holding(e) \in Holdings
        BY DEF Holding, Holdings
      <4>3. [at |-> "read", version |-> clock, holds |-> Holding(e)] \in ReadType
        BY <1>0, <4>2 DEF TypeInv, ReadType, Requests
      <4> QED
        BY <4>1, <4>3 DEF NoRequest
    <3> QED
      BY <3>1, <3>2
  <2>2. UNCHANGED <<clock, session, page, inbox, cache, own, told, pendingTags>>
    BY <1>1 DEF Read, apiVars, socketVars
  <2>3. TypeInv' /\ NothingAhead'
    BY <1>0, <2>1, <2>2 DEF TypeInv, NothingAhead
  <2>4. ASSUME NEW d \in Entries
        PROVE  /\ Rests(d, page, cache, wire', pendingTags, told)
               /\ ReadsAgain(d, wire', pendingTags, told) /\ Asked(d, page, cache, wire')
    <3>1. CASE d = e
      <4>1. wire'[d] = r
        BY <1>0, <2>1, <3>1 DEF TypeInv
      <4>2. r.at = "read" => Fresh(d, Answer(r), told)
        BY <1>0, <2>1, AnswerTypes, ConcernsSubjects DEF Fresh, TypeInv, NothingAhead
      <4> QED
        BY <2>1, <4>1, <4>2 DEF Rests, ReadsAgain, Asked
    <3>2. CASE d # e
      BY <1>0, <2>1, <3>2 DEF Coming, Rests, ReadsAgain, Asked, TypeInv
    <3> QED
      BY <3>1, <3>2
  <2>5. Coming(page, cache, wire', pendingTags, told)
    BY <2>4 DEF Coming
  <2> QED
    BY <2>2, <2>3, <2>5 DEF ViewInv
<1>2. CASE Arrive(e)
  <2>1. UNCHANGED <<clock, session, page, inbox, own, told>>
    BY <1>2 DEF Arrive, apiVars, socketVars
  <2>2. PICK x \in CacheType :
          /\ Ended(e, [cache EXCEPT ![e] = x])
          /\ \/ x.ended = "failed"
             \/ x.ended = "ok" /\ wire[e].at = "read" /\ x = Answer(wire[e])
    <3>1. CASE wire[e].at = "failed"
      BY <1>0, <1>2, <3>1, FailureKeeps DEF Arrive
    <3>2. CASE wire[e].at = "read"
      <4>1. Answer(wire[e]) \in CacheType /\ Answer(wire[e]).ended = "ok"
        BY <1>0, AnswerTypes DEF TypeInv
      <4> QED
        BY <1>2, <3>2, <4>1 DEF Arrive
    <3> QED
      BY <1>2, <3>1, <3>2 DEF Arrive
  <2>3. Fresh(e, x, told) \/ Provides(e, x) \cap pendingTags # {}
    <3>1. ReadsAgain(e, wire, pendingTags, told)
      BY <1>0 DEF Coming
    <3> QED
      BY <2>2, <3>1 DEF ReadsAgain, Fresh
  <2>4. /\ cache' \in [Entries -> CacheType] /\ wire' \in [Entries -> ReadType]
        /\ Coming(page, cache', wire', pendingTags', told)
    BY <1>0, <2>2, <2>3, EndedKeeps
  <2> QED
    BY <1>0, <2>1, <2>4 DEF ViewInv, TypeInv, NothingAhead
<1>3. CASE RequestFails(e)
  <2>1. UNCHANGED <<clock, session, page, inbox, own, told>>
    BY <1>3 DEF RequestFails, apiVars, socketVars
  <2>2. PICK x \in CacheType : Ended(e, [cache EXCEPT ![e] = x]) /\ x.ended = "failed"
    BY <1>0, <1>3, FailureKeeps DEF RequestFails
  <2>3. /\ cache' \in [Entries -> CacheType] /\ wire' \in [Entries -> ReadType]
        /\ Coming(page, cache', wire', pendingTags', told)
    BY <1>0, <2>2, EndedKeeps DEF Fresh
  <2> QED
    BY <1>0, <2>1, <2>3 DEF ViewInv, TypeInv, NothingAhead
<1>4. CASE Expire(e)
  <2>1. UNCHANGED <<clock, session, page, inbox, own, told>>
    BY <1>4 DEF Expire, apiVars, socketVars
  <2>2. /\ Empty \in CacheType /\ Empty.shows = 0 /\ e \notin Subscribed(page)
        /\ Ended(e, [cache EXCEPT ![e] = Empty])
    BY <1>4 DEF Expire, Empty, CacheType, Holdings
  <2>3. /\ cache' \in [Entries -> CacheType] /\ wire' \in [Entries -> ReadType]
        /\ Coming(page, cache', wire', pendingTags', told)
    BY <1>0, <2>2, EndedKeeps
  <2> QED
    BY <1>0, <2>1, <2>3 DEF ViewInv, TypeInv, NothingAhead
<1>5. CASE Unauthorized(e)
  <2> DEFINE c == Failure(e)
             w == [wire EXCEPT ![e] = NoRequest]
             after == Settle("login", c, w, own, pendingTags)
  <2>1. /\ UNCHANGED <<clock, own, told>> /\ inbox' = <<>> /\ session' = "none" /\ page' = "login"
        /\ cache' = after.cache /\ wire' = Mounted("login", "none", after.cache, after.wire)
        /\ pendingTags' = after.tags
    BY <1>5 DEF Unauthorized, Opened, apiVars
  <2>2. /\ c \in [Entries -> CacheType] /\ w \in [Entries -> ReadType]
        /\ Coming(page, c, w, pendingTags, told)
    <3>1. PICK x \in CacheType : c = [cache EXCEPT ![e] = x] /\ x.ended = "failed"
      BY <1>0, FailureKeeps
    <3>2. cache \in [Entries -> CacheType] /\ wire \in [Entries -> ReadType]
      BY <1>0 DEF TypeInv
    <3> HIDE DEF c
    <3> QED
      BY <1>0, <3>1, <3>2, EndKeeps DEF Fresh
  <2>3. Coming("login", c, w, pendingTags, told)
    BY <2>2, LoginKeeps
  <2> HIDE DEF c, w
  <2>4. /\ after.cache \in [Entries -> CacheType] /\ after.wire \in [Entries -> ReadType]
        /\ Coming("login", after.cache, after.wire, after.tags, told)
    BY <1>0, <2>2, <2>3, SettleTypes, SettleKeeps DEF TypeInv
  <2> HIDE DEF after
  <2>5. /\ wire' \in [Entries -> ReadType]
        /\ Coming(page', cache', wire', pendingTags', told)
    BY <1>0, <2>1, <2>4, MountKeeps DEF TypeInv
  <2> QED
    BY <1>0, <2>1, <2>4, <2>5 DEF ViewInv, TypeInv, NothingAhead, Sessions
<1> QED
  BY <1>1, <1>2, <1>3, <1>4, <1>5

-----------------------------------------------------------------------------
(* Pages and the session. *)

\* A page that opens over a cache in order.
LEMMA OpenedKeeps ==
  ASSUME ViewInv, NEW q, NEW p, NEW s \in Sessions, NEW c \in [Entries -> CacheType],
         NEW w \in [Entries -> ReadType], Coming(q, c, w, pendingTags', told'),
         Opened(p, s, c, w), clock' = clock, own' \in [Kinds -> ChangeType],
         \A k \in Kinds : own'[k].version <= clock,
         told' \in [Subjects -> Nat], \A u \in Subjects : told'[u] <= clock
  PROVE  ViewInv'
<1>1. /\ cache' = c /\ wire' = Mounted(p, s, c, w) /\ page' = p /\ session' = s
      /\ inbox' = <<>> /\ clock' \in Nat
  BY DEF Opened, ViewInv, TypeInv
<1>2. wire' \in [Entries -> ReadType] /\ Coming(p, c, wire', pendingTags', told')
  BY <1>1, MountKeeps
<1>3. TypeInv'
  BY <1>1, <1>2 DEF TypeInv
<1> QED
  BY <1>1, <1>2, <1>3 DEF ViewInv, NothingAhead

\* The tab moves to another page.
LEMMA MoveStep ==
  ASSUME ViewInv, NEW p, Open(p) \/ SetShowArchived \/ Login(p) \/ Logout
  PROVE  ViewInv'
<1>1. \E q : \E s \in Sessions : Opened(q, s, cache, wire)
  <2>1. CASE Open(p)
    BY <2>1 DEF Open, ViewInv, TypeInv
  <2>2. CASE Login(p)
    BY <2>2 DEF Login, Sessions
  <2>3. CASE Logout
    BY <2>3 DEF Logout, Sessions
  <2>4. CASE SetShowArchived
    BY <2>4 DEF SetShowArchived, ViewInv, TypeInv
  <2> QED
    BY <2>1, <2>2, <2>3, <2>4
<1>2. UNCHANGED <<clock, own, told, pendingTags>>
  BY DEF Open, SetShowArchived, Login, Logout, apiVars
<1> QED
  BY <1>1, <1>2, OpenedKeeps DEF ViewInv, TypeInv, NothingAhead

\* Requests that have not been read are refused from now on.
LEMMA StaleKeeps ==
  ASSUME NEW D, NEW ends, NEW r \in [D -> Requests(ends)]
  PROVE  /\ Stale(r) \in [D -> Requests(ends)]
         /\ \A d \in D : /\ r[d] = NoRequest <=> Stale(r)[d] = NoRequest
                         /\ \/ Stale(r)[d] = r[d]
                            \/ Stale(r)[d].at = "stale" /\ Stale(r)[d].version = 0
<1>1. /\ Request("expired") \in Requests(ends) /\ Request("expired").at = "stale"
      /\ Request("expired").version = 0
  BY DEF Request, Requests, NoRequest, Holdings
<1>2. Stale(r) = [d \in D |-> IF r[d].at = "sent" THEN Request("expired") ELSE r[d]]
  BY DEF Stale
<1>3. Stale(r) \in [D -> Requests(ends)]
  BY <1>1, <1>2
<1>4. ASSUME NEW d \in D
      PROVE  /\ r[d] = NoRequest <=> Stale(r)[d] = NoRequest
             /\ \/ Stale(r)[d] = r[d]
                \/ Stale(r)[d].at = "stale" /\ Stale(r)[d].version = 0
  <2>1. CASE r[d].at = "sent"
    BY <1>1, <1>2, <2>1 DEF NoRequest
  <2>2. CASE r[d].at # "sent"
    BY <1>2, <2>2
  <2> QED
    BY <2>1, <2>2
<1> QED
  BY <1>3, <1>4

LEMMA ExpiryStep ==
  ASSUME ViewInv, TokenExpires
  PROVE  ViewInv'
<1>0. TypeInv /\ NothingAhead /\ Coming(page, cache, wire, pendingTags, told)
  BY DEF ViewInv
<1>1. /\ UNCHANGED <<clock, page, inbox, cache, pendingTags, told>>
      /\ session' = "expired" /\ wire' = Stale(wire) /\ own' = Stale(own)
  BY DEF TokenExpires, apiVars, socketVars
<1>2. wire \in [Entries -> ReadType] /\ own \in [Kinds -> ChangeType] /\ clock \in Nat
  BY <1>0 DEF TypeInv
<1>6. /\ wire' \in [Entries -> ReadType] /\ own' \in [Kinds -> ChangeType]
      /\ \A e \in Entries : /\ wire[e] = NoRequest <=> wire'[e] = NoRequest
                            /\ wire'[e] = wire[e] \/ wire'[e].at = "stale"
      /\ \A k \in Kinds : own'[k] = own[k] \/ own'[k].version = 0
  BY <1>1, <1>2, StaleKeeps DEF ReadType, ChangeType
<1>3. TypeInv'
  BY <1>0, <1>1, <1>6 DEF TypeInv, Sessions
<1>4. NothingAhead'
  <2>1. \A k \in Kinds : own'[k].version <= clock
    BY <1>0, <1>2, <1>6 DEF NothingAhead
  <2> QED
    BY <1>0, <1>1, <2>1 DEF NothingAhead
<1>5. Coming(page, cache, wire', pendingTags, told)
  BY <1>0, <1>6 DEF Coming, Rests, ReadsAgain, Asked
<1> QED
  BY <1>1, <1>3, <1>4, <1>5 DEF ViewInv

-----------------------------------------------------------------------------
(* Changes. *)

\* What the page shows is left alone while the clock moves on.
LEMMA Undisturbed ==
  ASSUME ViewInv, UNCHANGED <<page, cache, wire, pendingTags, told>>,
         clock' \in Nat, clock <= clock', session' \in Sessions, inbox' \in Seq(Nat),
         \A i \in DOMAIN inbox' : inbox'[i] <= clock',
         own' \in [Kinds -> ChangeType], \A k \in Kinds : own'[k].version <= clock'
  PROVE  ViewInv'
<1>1. TypeInv'
  BY DEF ViewInv, TypeInv
<1>2. NothingAhead'
  BY DEF ViewInv, TypeInv, NothingAhead
<1> QED
  BY <1>1, <1>2 DEF ViewInv

\* One mutation moves to r, which is of time t at the latest.
LEMMA OwnMoves ==
  ASSUME NEW o \in [Kinds -> ChangeType], NEW kind \in Kinds, NEW r \in ChangeType, NEW t,
         \A k \in Kinds : o[k].version <= t, r.version <= t
  PROVE  /\ [o EXCEPT ![kind] = r] \in [Kinds -> ChangeType]
         /\ \A k \in Kinds : [o EXCEPT ![kind] = r][k].version <= t
OBVIOUS

\* The changes the operator makes and the API's answer to them.
LEMMA ChangeStep ==
  ASSUME ViewInv, NEW k \in Kinds,
         Send(k) \/ Apply(k) \/ Refuse(k) \/ OtherOperator(k) \/ WorkerEvent
  PROVE  ViewInv'
<1>0. TypeInv /\ NothingAhead /\ clock \in Nat /\ own[k] \in ChangeType /\ session \in Sessions
      /\ inbox \in Seq(Nat)
  BY DEF ViewInv, TypeInv
<1>1. UNCHANGED <<page, session, inbox, cache, wire, pendingTags, told>>
  BY DEF Send, Apply, Refuse, OtherOperator, WorkerEvent, socketVars, cacheVars
<1>2. clock' \in {clock, clock + 1}
  BY DEF Send, Apply, Refuse, OtherOperator, WorkerEvent, Written, apiVars
<1>5. clock' \in Nat /\ clock <= clock'
  BY <1>0, <1>2
<1>3. \A i \in DOMAIN inbox : inbox[i] <= clock'
  <2>1. \A i \in DOMAIN inbox : inbox[i] \in Nat /\ inbox[i] <= clock
    BY <1>0 DEF NothingAhead
  <2> QED
    BY <1>0, <1>2, <2>1
<1>4. own' \in [Kinds -> ChangeType] /\ \A j \in Kinds : own'[j].version <= clock'
  <2>1. own \in [Kinds -> ChangeType] /\ \A j \in Kinds : own[j].version <= clock'
    <3>1. \A j \in Kinds : own[j].version \in Nat /\ own[j].version <= clock
      BY <1>0 DEF TypeInv, ChangeType, Requests, NothingAhead
    <3> QED
      BY <1>0, <1>5, <3>1 DEF TypeInv
  <2>2. \/ own' = own
        \/ \E r \in ChangeType : r.version <= clock' /\ own' = [own EXCEPT ![k] = r]
    <3>1. CASE Send(k)
      <4>1. Request(session) \in ChangeType /\ Request(session).version = 0
        BY RequestAsks DEF Request
      <4>2. Request(session).version <= clock' /\ own' = [own EXCEPT ![k] = Request(session)]
        BY <1>5, <3>1, <4>1 DEF Send
      <4> QED
        BY <4>1, <4>2
    <3>2. CASE Apply(k)
      <4>1. [own[k] EXCEPT !.at = "applied", !.version = clock'] \in ChangeType
        BY <1>0, <1>5 DEF ChangeType, Requests
      <4>2. own' = [own EXCEPT ![k] = [own[k] EXCEPT !.at = "applied", !.version = clock']]
        BY <1>0, <3>2 DEF Apply, TypeInv
      <4>3. [own[k] EXCEPT !.at = "applied", !.version = clock'].version <= clock'
        BY <1>0, <1>5 DEF ChangeType, Requests
      <4> QED
        BY <4>1, <4>2, <4>3
    <3>3. CASE Refuse(k)
      <4>1. own' = [own EXCEPT ![k] = [own[k] EXCEPT !.at = "refused"]]
        BY <1>0, <3>3 DEF Refuse, TypeInv
      <4>2. [own[k] EXCEPT !.at = "refused"] \in ChangeType
        BY <1>0 DEF ChangeType, Requests
      <4>3. [own[k] EXCEPT !.at = "refused"].version <= clock'
        BY <1>0, <2>1 DEF ChangeType, Requests
      <4> QED
        BY <4>1, <4>2, <4>3
    <3> QED
      BY <3>1, <3>2, <3>3 DEF OtherOperator, WorkerEvent
  <2> QED
    BY <2>1, <2>2, OwnMoves
<1> QED
  BY <1>0, <1>1, <1>5, <1>3, <1>4, Undisturbed

\* An entry that is about what a change reflects carries a tag of the change.
LEMMA MutationTagsReflect ==
  ASSUME NEW kind \in Kinds, NEW e \in Entries, NEW x, x.ended # "failed",
         NEW s \in Concerns(e, x), s \in Reflects(kind)
  PROVE  Provides(e, x) \cap MutationTags(kind) # {}
<1>1. CASE e \in {"mission", "detections", "audit"}
  <2>1. s = e
    BY <1>1 DEF Concerns, Lists
  <2> QED
    BY <1>1, <2>1 DEF Kinds, Reflects, MutationTags, Provides, Lists
<1>2. CASE e \in Lists
  <2>1. s \in {"lists", "mission"} /\ (s = "mission" => x.holds # "none")
    BY <1>2 DEF Concerns, Lists
  <2>2. /\ "LIST" \in Provides(e, x)
        /\ s = "mission" => "Mission" \in Provides(e, x)
    BY <1>2, <2>1 DEF Provides, Lists
  <2>3. IF s = "lists" THEN "LIST" \in MutationTags(kind) ELSE "Mission" \in MutationTags(kind)
    BY <2>1 DEF Kinds, Reflects, MutationTags
  <2> QED
    BY <2>1, <2>2, <2>3
<1> QED
  BY <1>1, <1>2, EntriesAssumption DEF Lists

\* One that is about what an event says carries a tag of the event.
LEMMA EventTagsReflect ==
  ASSUME NEW e \in Entries, NEW x, x.ended # "failed", NEW s \in Concerns(e, x),
         s \in EventReflects
  PROVE  Provides(e, x) \cap EventTags # {}
BY EntriesAssumption DEF Concerns, Lists, EventReflects, EventTags, Provides

\* The answer to the operator's own change: its tags wait with what it tells.
LEMMA AnswerStep ==
  ASSUME ViewInv, NEW kind \in Kinds, Answered(kind)
  PROVE  ViewInv'
<1> DEFINE p == IF own[kind].at = "stale" THEN "login" ELSE page
           tags == pendingTags \cup MutationTags(kind)
           rest == [own EXCEPT ![kind] = NoRequest]
           after == Settle(p, cache, wire, rest, tags)
<1>0. TypeInv /\ NothingAhead /\ Coming(page, cache, wire, pendingTags, told)
  BY DEF ViewInv
<1>1. /\ own' = rest /\ pendingTags' = after.tags /\ clock' = clock
      /\ told' = [s \in Subjects |->
                    IF own[kind].at = "applied" /\ s \in Reflects(kind)
                    THEN Later(told[s], own[kind].version) ELSE told[s]]
  BY DEF Answered, apiVars
<1>2. told' \in [Subjects -> Nat] /\ \A s \in Subjects : told'[s] <= clock
  <2>1. own[kind].version \in Nat /\ own[kind].version <= clock
    BY <1>0 DEF TypeInv, ChangeType, Requests, NothingAhead
  <2> QED
    BY <1>0, <1>1, <2>1 DEF TypeInv, NothingAhead, Later
<1>3. rest \in [Kinds -> ChangeType] /\ \A k \in Kinds : rest[k].version <= clock
  <2>1. NoRequest \in ChangeType /\ NoRequest.version <= clock
    BY <1>0 DEF NoRequest, ChangeType, Requests, TypeInv, Holdings
  <2> QED
    BY <1>0, <2>1, OwnMoves DEF TypeInv, NothingAhead
<1>4. cache \in [Entries -> CacheType] /\ wire \in [Entries -> ReadType]
  BY <1>0 DEF TypeInv
<1>5. Coming(page, cache, wire, tags, told')
  <2>1. \A s \in Subjects :
          \/ told'[s] = told[s]
          \/ \A e \in Entries, x \in CacheType :
               x.ended # "failed" /\ s \in Concerns(e, x) =>
                 Provides(e, x) \cap MutationTags(kind) # {}
    BY <1>1, MutationTagsReflect
  <2> QED
    BY <1>0, <1>4, <2>1, NewsKeep
<1>6. Coming(p, cache, wire, tags, told')
  BY <1>5, LoginKeeps
<1> HIDE DEF p, tags, rest
<1>7. /\ after.cache \in [Entries -> CacheType] /\ after.wire \in [Entries -> ReadType]
      /\ Coming(p, after.cache, after.wire, after.tags, told')
  BY <1>2, <1>4, <1>6, SettleTypes, SettleKeeps
<1>8. \/ \E q : \E s \in Sessions : Opened(q, s, after.cache, after.wire)
      \/ /\ cache' = after.cache /\ wire' = after.wire
         /\ UNCHANGED <<session, page, socketVars>> /\ p = page
  <2>1. session \in Sessions /\ "none" \in Sessions
    BY <1>0 DEF TypeInv, Sessions
  <2> QED
    BY <2>1 DEF Answered, p, tags, rest
<1> HIDE DEF after
<1>9. CASE \E q : \E s \in Sessions : Opened(q, s, after.cache, after.wire)
  BY <1>1, <1>2, <1>3, <1>7, <1>9, OpenedKeeps
<1>10. CASE /\ cache' = after.cache /\ wire' = after.wire
            /\ UNCHANGED <<session, page, socketVars>> /\ p = page
  <2>1. TypeInv'
    BY <1>0, <1>1, <1>2, <1>3, <1>7, <1>10 DEF TypeInv, socketVars
  <2>2. NothingAhead'
    BY <1>0, <1>1, <1>2, <1>3, <1>10 DEF NothingAhead, socketVars
  <2> QED
    BY <1>1, <1>7, <1>10, <2>1, <2>2 DEF ViewInv
<1> QED
  BY <1>8, <1>9, <1>10

-----------------------------------------------------------------------------
(* The mission's channel. *)

\* An event arrives: its tags wait with what it tells.
LEMMA EventStep ==
  ASSUME ViewInv, ReceiveEvent
  PROVE  ViewInv'
<1> DEFINE tags == pendingTags \cup EventTags
           after == Settle(page, cache, wire, own, tags)
<1>0. TypeInv /\ NothingAhead /\ Coming(page, cache, wire, pendingTags, told)
  BY DEF ViewInv
<1>1. /\ UNCHANGED <<clock, session, page, own>>
      /\ cache' = after.cache /\ wire' = after.wire /\ pendingTags' = after.tags
      /\ inbox # <<>> /\ inbox' = Tail(inbox)
      /\ told' = [s \in Subjects |->
                    IF s \in EventReflects THEN Later(told[s], Head(inbox)) ELSE told[s]]
  BY DEF ReceiveEvent, apiVars
<1>2. inbox \in Seq(Nat) /\ Head(inbox) \in Nat /\ Head(inbox) <= clock
  <2>1. inbox \in Seq(Nat) /\ inbox # <<>>
    BY <1>0, <1>1 DEF TypeInv
  <2>2. 1 \in DOMAIN inbox /\ Head(inbox) = inbox[1] /\ inbox[1] \in Nat
    BY <2>1
  <2> QED
    BY <1>0, <2>1, <2>2 DEF NothingAhead
<1>3. told' \in [Subjects -> Nat] /\ \A s \in Subjects : told'[s] <= clock
  BY <1>0, <1>1, <1>2 DEF TypeInv, NothingAhead, Later
<1>4. inbox' \in Seq(Nat) /\ \A i \in DOMAIN inbox' : inbox'[i] <= clock
  <2>1. inbox' \in Seq(Nat) /\ \A i \in DOMAIN inbox' : i + 1 \in DOMAIN inbox /\ inbox'[i] = inbox[i + 1]
    BY <1>1, <1>2
  <2> QED
    BY <1>0, <2>1 DEF NothingAhead
<1>5. cache \in [Entries -> CacheType] /\ wire \in [Entries -> ReadType]
  BY <1>0 DEF TypeInv
<1>6. Coming(page, cache, wire, tags, told')
  <2>1. \A s \in Subjects :
          \/ told'[s] = told[s]
          \/ \A e \in Entries, x \in CacheType :
               x.ended # "failed" /\ s \in Concerns(e, x) => Provides(e, x) \cap EventTags # {}
    BY <1>1, EventTagsReflect
  <2> QED
    BY <1>0, <1>5, <2>1, NewsKeep
<1> HIDE DEF tags
<1>7. /\ after.cache \in [Entries -> CacheType] /\ after.wire \in [Entries -> ReadType]
      /\ Coming(page, after.cache, after.wire, after.tags, told')
  BY <1>3, <1>5, <1>6, SettleTypes, SettleKeeps
<1> HIDE DEF after
<1>8. TypeInv' /\ NothingAhead'
  BY <1>0, <1>1, <1>3, <1>4, <1>7 DEF TypeInv, NothingAhead
<1> QED
  BY <1>1, <1>7, <1>8 DEF ViewInv

\* An event is relayed or lost; the connection comes and goes.
LEMMA ChannelStep ==
  ASSUME ViewInv, Relay \/ RelayLost \/ Connect \/ Join \/ Drop
  PROVE  ViewInv'
<1>0. TypeInv /\ NothingAhead
  BY DEF ViewInv
<1>1. UNCHANGED <<clock, session, page, cache, wire, pendingTags, own, told>>
  BY DEF Relay, RelayLost, Connect, Join, Drop, apiVars, socketVars, cacheVars
<1>2. inbox' = inbox \/ inbox' = <<>> \/ inbox' = Append(inbox, clock)
  BY DEF Relay, RelayLost, Connect, Join, Drop, socketVars
<1>3. inbox \in Seq(Nat) /\ clock \in Nat /\ \A i \in DOMAIN inbox : inbox[i] <= clock
  BY <1>0 DEF TypeInv, NothingAhead
<1>4. inbox' \in Seq(Nat)
  <2>1. Append(inbox, clock) \in Seq(Nat) /\ <<>> \in Seq(Nat)
    BY <1>3
  <2> QED
    BY <1>2, <1>3, <2>1
<1>5. \A i \in DOMAIN inbox' : inbox'[i] <= clock
  <2>1. CASE inbox' = Append(inbox, clock)
    <3>1. \A i \in DOMAIN inbox' : inbox'[i] = IF i = Len(inbox) + 1 THEN clock ELSE inbox[i]
      BY <1>3, <2>1
    <3>2. \A i \in DOMAIN inbox' : i \in DOMAIN inbox \/ i = Len(inbox) + 1
      BY <1>3, <2>1
    <3> QED
      BY <1>3, <3>1, <3>2
  <2>2. CASE inbox' = <<>>
    BY <2>2
  <2> QED
    BY <1>2, <1>3, <2>1, <2>2
<1>6. TypeInv'
  BY <1>0, <1>1, <1>4 DEF TypeInv
<1>7. NothingAhead'
  BY <1>0, <1>1, <1>5 DEF NothingAhead
<1> QED
  BY <1>1, <1>6, <1>7 DEF ViewInv

-----------------------------------------------------------------------------
\* A tab that opens has been told of nothing, and asks for what its page uses.
LEMMA ViewStarts ==
  ASSUME Init
  PROVE  ViewInv
<1> DEFINE idle == [e \in Entries |-> NoRequest]
<1>1. NoRequest \in ReadType /\ NoRequest \in ChangeType /\ Empty \in CacheType
  BY DEF NoRequest, Empty, ReadType, ChangeType, Requests, CacheType, Holdings
<1>2. /\ cache = [e \in Entries |-> Empty] /\ told = [s \in Subjects |-> 0]
      /\ own = [k \in Kinds |-> NoRequest] /\ inbox = <<>> /\ clock = 1
      /\ wire = Mounted(page, session, cache, idle) /\ session \in Sessions
  BY DEF Init, Sessions
<1>3. cache \in [Entries -> CacheType] /\ idle \in [Entries -> ReadType]
      /\ told \in [Subjects -> Nat]
  BY <1>1, <1>2
<1>4. Coming("login", cache, idle, pendingTags, told)
  <2>1. Subscribed("login") = {}
    BY DEF Subscribed, Lists
  <2> QED
    BY <1>2, <2>1 DEF Coming, Rests, ReadsAgain, Asked, NoRequest, Empty
<1>5. /\ Mounted(page, session, cache, idle) \in [Entries -> ReadType]
      /\ Coming(page, cache, Mounted(page, session, cache, idle), pendingTags, told)
  BY <1>3, <1>4, MountKeeps
<1>6. TypeInv
  BY <1>1, <1>2, <1>3, <1>5 DEF TypeInv
<1>7. NothingAhead
  BY <1>2 DEF NothingAhead, NoRequest
<1> QED
  BY <1>2, <1>5, <1>6, <1>7 DEF ViewInv

LEMMA ViewStep ==
  ASSUME ViewInv, [Next]_vars
  PROVE  ViewInv'
<1>1. CASE UNCHANGED vars
  <2>1. UNCHANGED <<clock, session, page, inbox, cache, wire, pendingTags, own, told>>
    BY <1>1 DEF vars, apiVars, socketVars, cacheVars
  <2> QED
    BY <2>1 DEF ViewInv, TypeInv, NothingAhead
<1>2. CASE \E e \in Entries : \/ Read(e) \/ Arrive(e) \/ RequestFails(e)
                            \/ Expire(e) \/ Unauthorized(e)
  BY <1>2, RequestStep
<1>3. CASE (\E p \in Routes : Open(p) \/ Login(p)) \/ SetShowArchived \/ Logout
  BY <1>3, MoveStep
<1>4. CASE TokenExpires
  BY <1>4, ExpiryStep
<1>5. CASE SaveMetadata \/ Submit \/ ToggleArchive \/ ConfirmDelete \/ CreateMission \/ WorkerEvent
  <2>1. \E k \in Kinds : Send(k) \/ WorkerEvent
    BY <1>5 DEF SaveMetadata, Submit, ToggleArchive, ConfirmDelete, CreateMission, Kinds
  <2> QED
    BY <2>1, ChangeStep
<1>6. CASE \E k \in Kinds : Apply(k) \/ Refuse(k) \/ OtherOperator(k)
  BY <1>6, ChangeStep
<1>7. CASE \E k \in Kinds : Answered(k)
  BY <1>7, AnswerStep
<1>8. CASE Relay \/ RelayLost \/ Connect \/ Join \/ Drop
  BY <1>8, ChannelStep
<1>9. CASE ReceiveEvent
  BY <1>9, EventStep
<1> QED
  BY <1>1, <1>2, <1>3, <1>4, <1>5, <1>6, <1>7, <1>8, <1>9 DEF Next

\* The invariant: every entry, used or not, is as late as the tab has been told
\* of what it shows, says that it failed, will be read, or is forgotten.
THEOREM ViewInvariant == Spec => []ViewInv
<1>1. Init => ViewInv
  BY ViewStarts
<1>2. ViewInv /\ [Next]_vars => ViewInv'
  BY ViewStep
<1> QED
  BY <1>1, <1>2, PTL DEF Spec

\* For every set of entries and every bound: a page that shows less than the
\* tab has been told of is about to read (apiSlice.ts, useMissionSocket.ts).  A
\* list that left the mission out is held to what the lists hold, not to its state.
THEOREM NewsIsComing == Spec => []ToldIsComing
<1>1. ASSUME ViewInv
      PROVE  ToldIsComing
  <2> SUFFICES ASSUME NEW e \in Subscribed(page)
               PROVE  \/ wire[e].at \in {"sent", "stale", "failed"}
                      \/ UpToDate(e, Awaited(e))
                      \/ Provides(e, Awaited(e)) \cap pendingTags # {}
    BY DEF ToldIsComing
  <2>1. /\ e \in Entries /\ wire[e] \in ReadType /\ cache[e] \in CacheType
        /\ Rests(e, page, cache, wire, pendingTags, told)
        /\ ReadsAgain(e, wire, pendingTags, told)
        /\ Asked(e, page, cache, wire)
    BY <1>1 DEF ViewInv, TypeInv, Coming, Subscribed
  <2>2. CASE wire[e] = NoRequest
    <3>1. Awaited(e) = cache[e]
      BY <2>2 DEF Awaited, NoRequest
    <3> QED
      BY <2>1, <2>2, <3>1 DEF Rests, Fresh, UpToDate
  <2>3. CASE wire[e].at = "read"
    BY <2>1, <2>3 DEF ReadsAgain, Fresh, UpToDate, Awaited
  <2> QED
    BY <2>1, <2>2, <2>3 DEF ReadType, Requests
<1> QED
  BY <1>1, ViewInvariant, PTL
=============================================================================
