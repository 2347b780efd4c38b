---------------------------- MODULE ContentDelivery ---------------------------
(***************************************************************************)
(* How a published lesson reaches the students: a save in Payload with its *)
(* hooks (cms/src/collections/content.ts, cms/src/hooks), the revalidation *)
(* they call (frontend/src/app/api/revalidate/route.ts) and the cached,    *)
(* anonymous reads behind /api/cms (frontend/src/lib/cms.ts).              *)
(*                                                                         *)
(* Abstractions.  A lesson is the number of its published version; blocks, *)
(* titles and the levels above it are left out.  Every request carries the *)
(* tag of the curriculum, so a revalidation drops every entry.  Payload    *)
(* runs the hooks of a save inside its transaction and passes the newest   *)
(* version, which may be a draft, as previousDoc; Next.js stores what a    *)
(* request brought when it ends, and serves an entry whose time is up once *)
(* more while it fetches anew.  Whoever saves may publish.  Lessons that   *)
(* are deleted, or read by the id of their document, are left out.         *)
(***************************************************************************)
EXTENDS Naturals, FiniteSets

CONSTANTS Docs,         \* the lessons
          MaxVersions,  \* bound: versions of a lesson that are published
          MaxFetches    \* bound: requests for one key at a time

Tree == "tree"
Keys == {Tree} \cup Docs

VARIABLES live,      \* the version anonymous reads find, 0: none
          versions,  \* versions so far
          drafted,   \* the newest version is a draft
          ref,       \* contentRefId is set
          save,      \* the save of a lesson that is going on
          entries,   \* Next's data cache
          fetches,   \* requests to the CMS that have been answered, not stored
          untold     \* history: a change students should see that was not told

cmsVars == <<live, versions, drafted, ref>>
deliveryVars == <<cmsVars, save, entries, fetches, untold>>

NoSave == [stage |-> "none", to |-> 0, draft |-> FALSE, ref |-> FALSE, told |-> TRUE]
NoEntry == [value |-> {}, cached |-> FALSE, old |-> FALSE]

DeliveryInit ==
  /\ live = [d \in Docs |-> 0] /\ versions = [d \in Docs |-> 0]
  /\ drafted = [d \in Docs |-> TRUE] /\ ref = [d \in Docs |-> FALSE]
  /\ save = [d \in Docs |-> NoSave]
  /\ entries = [k \in Keys |-> NoEntry]
  /\ fetches = {} /\ untold = FALSE

-----------------------------------------------------------------------------
(* Saving                                                                  *)

\* revalidateStudentApp: what was or becomes published is told.
Tells(d, published) == published \/ ~drafted[d]

BeginSave(d, to, published) ==
  /\ save[d] = NoSave
  /\ save' = [save EXCEPT ![d] =
       [stage |-> IF published THEN "register" ELSE IF Tells(d, published) THEN "notify" ELSE "commit",
        to |-> to, draft |-> ~published, ref |-> ref[d], told |-> FALSE]]
  /\ UNCHANGED <<cmsVars, entries, fetches, untold>>

Publish(d) == versions[d] < MaxVersions /\ BeginSave(d, versions[d] + 1, TRUE)
Unpublish(d) == live[d] # 0 /\ BeginSave(d, 0, FALSE)
SaveDraft(d) == BeginSave(d, live[d], FALSE)

At(d, stage) == save[d].stage = stage

\* registerContentRef: the call fails, or the id is known, or a nested update
\* writes it, whose own hook tells the app for the first time.
Register(d) ==
  /\ At(d, "register")
  /\ \/ save' = [save EXCEPT ![d].stage = "notify"]
     \/ ~save[d].ref /\ save' = [save EXCEPT ![d].stage = "nested", ![d].ref = TRUE]
  /\ UNCHANGED <<cmsVars, entries, fetches, untold>>

\* notify: a failure is logged.  The route drops what carries the tag.
Notify(d) ==
  /\ At(d, "nested") \/ At(d, "notify")
  /\ \E arrives \in BOOLEAN :
       /\ save' = [save EXCEPT ![d].stage = IF @ = "nested" THEN "notify" ELSE "commit", ![d].told = @ \/ arrives]
       /\ entries' = IF arrives THEN [k \in Keys |-> NoEntry] ELSE entries
  /\ UNCHANGED <<cmsVars, fetches, untold>>

CommitSave(d) ==
  /\ At(d, "commit")
  /\ live' = [live EXCEPT ![d] = save[d].to]
  /\ versions' = [versions EXCEPT ![d] = IF @ < save[d].to THEN save[d].to ELSE @]
  /\ drafted' = [drafted EXCEPT ![d] = save[d].draft]
  /\ ref' = [ref EXCEPT ![d] = save[d].ref]
  /\ untold' = (untold \/ (save[d].to # live[d] /\ ~save[d].told))
  /\ save' = [save EXCEPT ![d] = NoSave]
  /\ UNCHANGED <<entries, fetches>>

\* The transaction fails after the hooks.
Rollback(d) ==
  /\ At(d, "commit")
  /\ save' = [save EXCEPT ![d] = NoSave]
  /\ UNCHANGED <<cmsVars, entries, fetches, untold>>

-----------------------------------------------------------------------------
(* Reading                                                                 *)

\* lessonId: the contentRefId (1), or the id of the document (0).
IdOf(d) == <<d, IF ref[d] THEN 1 ELSE 0>>
\* fetchCourseDetail: the tree of the published lessons.
Listed == {IdOf(d) : d \in {e \in Docs : live[e] # 0}}
\* fetchLessonDetail asks for the published one with a contentRefId: one or none.
PublishedAs(d) == IF ref[d] /\ live[d] # 0 THEN {<<d, live[d]>>} ELSE {}
Current(k) == IF k = Tree THEN Listed ELSE PublishedAs(k)

Fetch(k) ==
  /\ ~entries[k].cached \/ entries[k].old
  /\ Cardinality({f \in fetches : f.key = k}) < MaxFetches
  /\ fetches' = fetches \cup {[key |-> k, value |-> Current(k)]}
  /\ UNCHANGED <<cmsVars, save, entries, untold>>

Store(k) ==
  /\ \E f \in fetches :
       /\ f.key = k /\ fetches' = fetches \ {f}
       /\ entries' = [entries EXCEPT ![k] = [value |-> f.value, cached |-> TRUE, old |-> FALSE]]
  /\ UNCHANGED <<cmsVars, save, untold>>

\* REVALIDATE_SECONDS after it was stored.
MExpire(k) ==
  /\ untold /\ entries[k].cached /\ ~entries[k].old
  /\ entries' = [entries EXCEPT ![k].old = TRUE]
  /\ UNCHANGED <<cmsVars, save, fetches, untold>>
Expire(k) ==
  /\ entries[k].cached /\ ~entries[k].old
  /\ entries' = [entries EXCEPT ![k].old = TRUE]
  /\ UNCHANGED <<cmsVars, save, fetches, untold>>

DeliveryNext ==
  \/ \E d \in Docs : Publish(d) \/ Unpublish(d) \/ SaveDraft(d) \/ Register(d) \/ Notify(d) \/ CommitSave(d) \/ Rollback(d)
  \/ \E k \in Keys : Fetch(k) \/ Store(k) \/ Expire(k)

\* Requests end, time passes, and students go on reading.
DeliveryFairness ==
  \A k \in Keys : WF_deliveryVars(Fetch(k)) /\ WF_deliveryVars(Store(k)) /\ WF_deliveryVars(Expire(k))

DeliverySpec == DeliveryInit /\ [][DeliveryNext]_deliveryVars /\ DeliveryFairness

-----------------------------------------------------------------------------
(* Properties                                                              *)

Quiet == \A d \in Docs : save[d] = NoSave
Outdated(k) == entries[k].cached /\ entries[k].value # Current(k)

\* lib/cms.ts:30, "Upper bound between CMS revalidation calls, in case one is
\* missed": whatever was missed or stored too late, once nobody saves an
\* outdated entry goes.
OutdatedEntriesGo == \A k \in Keys : (Quiet /\ Outdated(k)) ~> (~Quiet \/ ~Outdated(k))

-----------------------------------------------------------------------------
(* What a comment claims and the code does not keep                        *)

\* route.ts:7, "so cached /api/cms/* reads refresh on publish rather than on a
\* timer": when every change was told and nothing is under way, the cache holds
\* what is published.
ReadsRefreshOnPublish ==
  Quiet /\ ~untold /\ fetches = {} => \A k \in Keys : ~Outdated(k)
===============================================================================
