----------------------------- MODULE PlatformPosts -----------------------------
(***************************************************************************)
(* The adapters of the social platforms (backend/internal/platform) as the *)
(* publisher drives them: the upload of a post's media, the wait for the   *)
(* platform to process it, and the requests that make the post, one        *)
(* request at a time.  One account of one platform receives a thread; post *)
(* p > 1 is the reply to p - 1.  A delivery is one publishToDestination;   *)
(* deliveries of a destination follow one another (module Publisher has    *)
(* the overlapping ones).                                                  *)
(*                                                                         *)
(* `remote` is the platform's side: uploaded media, containers, posts.  It *)
(* processes media at its own pace and may fail to.  A request is carried  *)
(* out or refused, and the answer to one carried out may be lost: the      *)
(* server then sees an error (the 30 s timeout of httpClient).             *)
(***************************************************************************)
EXTENDS Integers, Sequences, SequencesExt, FiniteSets

CONSTANTS
  ThreadLen,      \* number of posts of the thread
  FileSize,       \* length of a media file, in the unit of ChunkSize
  ChunkSize,      \* 5 MiB in the code: the length of an APPEND
  Polls,          \* how often an upload or a container is polled
  PublishTries,   \* maxPublishAttempts of Threads
  MaxDeliveries,  \* bound on the deliveries of the thread's posts
  MaxFaults       \* bound on lost answers, refusals, failed saves and crashes

ASSUME PlatformPostsAssumption ==
  /\ {ThreadLen, FileSize, ChunkSize, Polls, PublishTries} \subseteq Nat \ {0}
  /\ {MaxDeliveries, MaxFaults} \subseteq Nat

VARIABLES
  kind,        \* the platform
  https,       \* OPENPOST_MEDIA_URL is an https URL
  attached,    \* the media of each post, a sequence of members of Files
  row,         \* post_destinations of the account
  kept,        \* provider_media_states that are ready: the upload of an item
  delivery,    \* the delivery under way
  deliveries,  \* how many have begun
  remote,      \* what the platform was given
  spent        \* faults so far

adapterVars == <<kind, https, attached, row, kept, delivery, deliveries, remote, spent>>
givenVars == <<kind, https, attached>>

ThreadPosts == 1 .. ThreadLen

\* A "large" file is a GIF, or an image of more than 5 MiB.
Files == {"image", "large", "video"}
Platforms == {"x", "mastodon", "bluesky", "linkedin", "youtube", "threads", "instagram", "facebook", "tiktok"}
NoId == [id |-> 0, root |-> 0]

\* An external id: Bluesky's is a JSON text that also names the root of the thread.
NewRow == [status |-> "pending", ext |-> NoId, why |-> "none"]

\* `ids`: platformMediaIDs; `obj`: the upload, container or publish id in hand.
NoDelivery == [at |-> "idle", post |-> 1, ids |-> <<>>, obj |-> 0, sent |-> 0, polls |-> 0,
               tries |-> 0, again |-> FALSE, ext |-> NoId]

At(step) == delivery.at = step
Items == attached[delivery.post]
Item == Items[Len(delivery.ids) + 1]
InHand == remote[delivery.obj]

Go(step) == delivery' = [delivery EXCEPT !.at = step]
Spend == spent < MaxFaults /\ spent' = spent + 1

\* The destination fails and the job will deliver the post again.
Abandon(why) ==
  /\ row' = [row EXCEPT ![delivery.post].status = "failed", ![delivery.post].why = why]
  /\ delivery' = NoDelivery

\* A request that is not carried out, or that may be repeated without harm.
Refused == Spend /\ Abandon("platform") /\ UNCHANGED <<givenVars, kept, deliveries, remote>>

\* A request is carried out; its answer arrives, and then `next`, or it is lost.
Carried(objects, next) ==
  /\ remote' = objects
  /\ \/ next /\ UNCHANGED <<row, spent>>
     \/ Spend /\ Abandon("platform")
  /\ UNCHANGED <<givenVars, kept, deliveries>>

-----------------------------------------------------------------------------
(* Which platform does what.                                               *)

UsesPublicMediaURL == kind \in {"threads", "tiktok", "facebook", "instagram"}

Videos(items) == {i \in DOMAIN items : items[i] = "video"}

\* validate*Media: whether ValidateMedia reports errors when a post is written.
XMediaErrors(items) == IF Videos(items) = {} THEN Len(items) > 4 ELSE Len(items) > 1
BlueskyMediaErrors(items) ==
  \/ Cardinality(Videos(items)) > 1 \/ Len(items) > 4
  \/ Videos(items) # {} /\ Len(items) > 1
MastodonMediaErrors(items) == Len(items) > 4
LinkedInMediaErrors(items) == FALSE
ThreadsMediaErrors(items) == FALSE
FacebookMediaErrors(items) == Len(items) > 1
InstagramMediaErrors(items) == Len(items) # 1
TikTokMediaErrors(items) == Len(items) # 1 \/ items[1] # "video"

\* Mutant: YouTube's validator counts the attachments only.
YouTubeMediaErrorsByNumber(items) == Len(items) # 1

YouTubeMediaErrors(items) == Len(items) # 1 \/ items[1] # "video"

MediaErrors(items) ==
  [x |-> XMediaErrors(items), bluesky |-> BlueskyMediaErrors(items), mastodon |-> MastodonMediaErrors(items),
   linkedin |-> LinkedInMediaErrors(items), threads |-> ThreadsMediaErrors(items),
   facebook |-> FacebookMediaErrors(items), instagram |-> InstagramMediaErrors(items),
   tiktok |-> TikTokMediaErrors(items), youtube |-> YouTubeMediaErrors(items)][kind]

\* X takes small images in one request and all else in chunks.  LinkedIn
\* registers every upload, and finalizes those of videos.
XUploads(item) == item # "image"
LinkedInUploads(item) == TRUE
Registers(item) == (kind = "x" /\ XUploads(item)) \/ (kind = "linkedin" /\ LinkedInUploads(item))
Finalizes(item) == (kind = "x" /\ XUploads(item)) \/ (kind = "linkedin" /\ item = "video")

\* Whether the platform may answer an upload before it has processed it:
\* Mastodon without a URL, Bluesky with a job.
MastodonWaits(item) == kind = "mastodon"
BlueskyWaits(item) == kind = "bluesky" /\ item = "video"

\* The part of the file that is sent after the first `sent` units: an APPEND,
\* or the byte range of an upload instruction.
NextPart(sent) == sent .. (IF sent + ChunkSize > FileSize THEN FileSize ELSE sent + ChunkSize) - 1

-----------------------------------------------------------------------------
NewObject(what, item, parts, state) ==
  [what |-> what, post |-> delivery.post, item |-> item, parts |-> parts, state |-> state,
   uses |-> <<>>, parent |-> 0, root |-> 0, delivery |-> deliveries, again |-> delivery.again]

NewUpload(parts, state) == Append(remote, NewObject("media", Len(delivery.ids) + 1, parts, state))

AdaptersInit ==
  /\ kind \in Platforms /\ https \in BOOLEAN
  /\ attached \in [ThreadPosts -> {<<>>, <<"image">>, <<"video">>, <<"image", "large">>, <<"image", "video">>}]
  /\ row = [p \in ThreadPosts |-> NewRow]
  /\ kept = [p \in ThreadPosts |-> [i \in DOMAIN attached[p] |-> 0]]
  /\ delivery = NoDelivery /\ deliveries = 0 /\ remote = <<>> /\ spent = 0

\* publishToDestination begins: the thread goes on where it stopped.
Deliver(p) ==
  /\ At("idle") /\ deliveries < MaxDeliveries
  /\ row[p].status # "success" /\ (p > 1 => row[p - 1].status = "success")
  /\ delivery' = [NoDelivery EXCEPT !.at = "media", !.post = p]
  /\ deliveries' = deliveries + 1
  /\ UNCHANGED <<givenVars, row, kept, remote, spent>>

NextItem(id) == [delivery EXCEPT !.at = "media", !.ids = Append(@, id), !.obj = 0, !.sent = 0, !.polls = 0]

\* Mutant: what an earlier delivery uploaded is not looked for.
KnownMediaNot == IF UsesPublicMediaURL THEN {0} ELSE {}

\* The media an earlier delivery uploaded, or the URL the platform will fetch.
KnownMedia ==
  IF UsesPublicMediaURL THEN {0}
  ELSE {kept[delivery.post][Len(delivery.ids) + 1]} \ {0}

\* platformMediaIDForDestination, for one item after the other.
NextMedia ==
  /\ At("media") /\ UNCHANGED <<givenVars, kept, deliveries>>
  /\ \/ Len(delivery.ids) = Len(Items) /\ Go("check") /\ UNCHANGED <<row, remote, spent>>
     \/ /\ Len(delivery.ids) < Len(Items)
        /\ \/ \E id \in KnownMedia : delivery' = NextItem(id) /\ UNCHANGED <<row, remote, spent>>
           \/ /\ KnownMedia = {}
              /\ IF kind = "youtube" /\ Item # "video"
                   THEN Abandon("media") /\ UNCHANGED <<remote, spent>>
                   ELSE Go(IF Registers(Item) THEN "open" ELSE "send") /\ UNCHANGED <<row, remote, spent>>

\* The file in one request (uploadMediaSimple, Mastodon, Bluesky, YouTube); the
\* platform may go on processing it.  YouTube takes videos only.
SendFile ==
  /\ At("send")
  /\ \/ Refused
     \/ \E state \in {"ready"} \cup (IF MastodonWaits(Item) \/ BlueskyWaits(Item) THEN {"processing"} ELSE {}) :
          Carried(NewUpload(<<0 .. FileSize - 1>>, state),
                  delivery' = [delivery EXCEPT !.at = IF state = "ready" THEN "keep" ELSE "wait",
                                               !.obj = Len(remote) + 1])

\* X's INIT, LinkedIn's initializeUpload.
OpenUpload ==
  /\ At("open")
  /\ \/ Refused
     \/ Carried(NewUpload(<<>>, "open"),
                delivery' = [delivery EXCEPT !.at = "part", !.obj = Len(remote) + 1])

\* Mutant: the last chunk is left out when it is short.
SentAllWhenShort(sent) == sent + ChunkSize > FileSize

\* The loop over the chunks ends.
SentAll(sent) == sent >= FileSize

SendPart ==
  /\ At("part")
  /\ LET part == IF Finalizes(Item) THEN NextPart(delivery.sent) ELSE 0 .. FileSize - 1
         sent == delivery.sent + Cardinality(part)
     IN  \/ Refused
         \/ Carried([remote EXCEPT ![delivery.obj].parts = Append(@, part),
                                   ![delivery.obj].state = IF Finalizes(Item) THEN @ ELSE "ready"],
                    delivery' = [delivery EXCEPT !.sent = sent,
                                   !.at = IF ~Finalizes(Item) THEN "keep"
                                          ELSE IF SentAll(sent) THEN "close" ELSE "part"])

\* Mutant: FINALIZE is taken for the end of the processing.
AfterCloseAtOnce(state) == "keep"

\* X may answer FINALIZE without processing_info; LinkedIn's status is always asked.
AfterClose(state) == IF state = "ready" /\ kind = "x" THEN "keep" ELSE "wait"

\* FINALIZE, finalizeUpload.
CloseUpload ==
  /\ At("close")
  /\ \/ Refused
     \/ \E state \in {"ready", "processing"} :
          Carried([remote EXCEPT ![delivery.obj].state = state], Go(AfterClose(state)))

\* The platform is done with an upload, a container or a TikTok video.
Processed(n, state) ==
  /\ remote[n].state = "processing"
  /\ remote' = [remote EXCEPT ![n].state = state]
  /\ UNCHANGED <<givenVars, row, kept, delivery, deliveries, spent>>

-----------------------------------------------------------------------------
(* Polling.                                                                *)

\* Mutant: the attempts of the loop are not counted.
PolledUncounted == delivery

Polled == [delivery EXCEPT !.polls = @ + 1]

\* Mutant: one attempt more than maxAttempts.
LastPollLate == delivery.polls >= Polls

LastPoll == delivery.polls + 1 >= Polls

Asks(platform) == kind = platform /\ At("wait") /\ UNCHANGED <<givenVars, kept, deliveries, remote, spent>>

\* The answer to a poll: ready, failed, or `again`.
Answered(again) ==
  CASE InHand.state = "ready" -> Go("keep") /\ UNCHANGED row
    [] InHand.state = "failed" -> Abandon("platform")
    [] OTHER -> again

\* The loop goes on for as long as the platform says so.
XPollsMedia == Asks("x") /\ Answered(UNCHANGED <<delivery, row>>)

PollOrGiveUp == IF LastPoll THEN Abandon("platform") ELSE delivery' = Polled /\ UNCHANGED row

\* Mastodon knows no failure: a medium that cannot be processed never has a URL.
MastodonPollsMedia ==
  /\ Asks("mastodon")
  /\ IF InHand.state = "ready" THEN Go("keep") /\ UNCHANGED row ELSE PollOrGiveUp

BlueskyPollsJob == Asks("bluesky") /\ Answered(PollOrGiveUp)
LinkedInPollsVideo == Asks("linkedin") /\ Answered(PollOrGiveUp)

\* The status request fails.
PollFails == At("wait") /\ Refused

\* saveProviderMediaState: a failure is logged, and the delivery goes on.
KeepMedia ==
  /\ At("keep")
  /\ \/ kept' = [kept EXCEPT ![delivery.post][Len(delivery.ids) + 1] = delivery.obj] /\ UNCHANGED spent
     \/ Spend /\ UNCHANGED kept
  /\ delivery' = NextItem(delivery.obj)
  /\ UNCHANGED <<givenVars, row, deliveries, remote>>

-----------------------------------------------------------------------------
(* Publish.                                                                *)

\* getPreviousPostExternalID.
ReplyTo == IF delivery.post = 1 THEN NoId ELSE row[delivery.post - 1].ext

\* Where Publish begins, once the request is found fit.
FirstRequest ==
  CASE kind \in {"threads", "instagram", "tiktok"} -> "create"
    [] kind = "youtube" -> "save"
    [] kind \in {"x", "mastodon"} /\ Items # <<>> -> "alt"
    [] OTHER -> "publish"

\* What each adapter's Publish refuses before its first request.
OnlyHttps == IF https THEN "none" ELSE "url"
ThreadsRefuses == IF Items = <<>> THEN "none" ELSE OnlyHttps
FacebookRefuses ==
  IF ReplyTo # NoId THEN "reply"
  ELSE IF Len(Items) > 1 THEN "media"
  ELSE IF Items = <<>> THEN "none" ELSE OnlyHttps
InstagramRefuses ==
  IF ReplyTo # NoId THEN "reply"
  ELSE IF Len(Items) # 1 THEN "media" ELSE OnlyHttps
TikTokRefuses == IF Len(Items) # 1 \/ Items[1] # "video" THEN "media" ELSE OnlyHttps
YouTubeRefuses ==
  IF ReplyTo # NoId THEN "reply"
  ELSE IF Len(Items) # 1 \/ Items[1] # "video" THEN "media" ELSE "none"

Refusal ==
  CASE kind = "threads" -> ThreadsRefuses
    [] kind = "facebook" -> FacebookRefuses
    [] kind = "instagram" -> InstagramRefuses
    [] kind = "tiktok" -> TikTokRefuses
    [] kind = "youtube" -> YouTubeRefuses
    [] OTHER -> "none"

\* YouTube's video was made by the upload.
CheckRequest ==
  /\ At("check")
  /\ IF Refusal # "none" THEN Abandon(Refusal)
     ELSE /\ delivery' = [delivery EXCEPT !.at = FirstRequest, !.polls = 0, !.tries = 0, !.obj = 0,
                              !.ext = IF kind = "youtube" THEN [id |-> delivery.ids[1], root |-> 0] ELSE NoId]
          /\ UNCHANGED row
  /\ UNCHANGED <<givenVars, kept, deliveries, remote, spent>>

\* An error of Publish that says the token has expired: it is renewed, and
\* Publish is called again, once.
TokenExpires ==
  /\ delivery.at \in {"alt", "create", "poll", "publish"} /\ ~delivery.again
  /\ At("poll") /\ kind = "threads" => LastPoll
  /\ Spend
  /\ \/ delivery' = [delivery EXCEPT !.at = "check", !.again = TRUE] /\ UNCHANGED row
     \/ Abandon("platform")
  /\ UNCHANGED <<givenVars, kept, deliveries, remote>>

SetAltTexts ==
  /\ At("alt")
  /\ \/ Refused
     \/ Go("publish") /\ UNCHANGED <<givenVars, row, kept, deliveries, remote, spent>>

\* A request that starts something the platform finishes in its own time.
Starts(platform, what) ==
  /\ kind = platform /\ At("create")
  /\ \E state \in {"processing", "ready"} :
       Carried(Append(remote, NewObject(what, 0, <<>>, state)),
               delivery' = [delivery EXCEPT !.at = "poll", !.obj = Len(remote) + 1])

CreateFails == At("create") /\ Refused
ThreadsCreates == Starts("threads", "container")
InstagramCreates == Starts("instagram", "container")

\* After the privacy levels: the video is being published from here on.  A reply
\* is sent like any other video.
TikTokInits == Starts("tiktok", "post")

Checks(platform) == kind = platform /\ At("poll") /\ UNCHANGED <<givenVars, kept, deliveries, remote>>

\* waitForContainerReady: a status request that fails counts as an attempt.
ThreadsPolls ==
  /\ Checks("threads")
  /\ \/ UNCHANGED spent /\ CASE InHand.state = "ready" -> Go("publish") /\ UNCHANGED row
                              [] InHand.state = "failed" -> Abandon("platform")
                              [] OTHER -> PollOrGiveUp
     \/ Spend /\ PollOrGiveUp

\* waitForContainer takes an answer without a status code for FINISHED.
InstagramPolls ==
  /\ Checks("instagram")
  /\ \/ UNCHANGED spent /\ CASE InHand.state = "ready" -> Go("publish") /\ UNCHANGED row
                              [] InHand.state = "failed" -> Abandon("platform")
                              [] OTHER -> PollOrGiveUp
     \/ Spend /\ (Abandon("platform") \/ (Go("publish") /\ UNCHANGED row))

\* waitForPublishID: when the time is up the publish id stands for the video.
TikTokPolls ==
  /\ Checks("tiktok")
  /\ \/ UNCHANGED spent /\ CASE InHand.state = "ready" \/ (InHand.state = "processing" /\ LastPoll) ->
                                    delivery' = [delivery EXCEPT !.at = "save", !.ext = [id |-> delivery.obj, root |-> 0]] /\ UNCHANGED row
                              [] InHand.state = "failed" -> Abandon("platform")
                              [] OTHER -> delivery' = Polled /\ UNCHANGED row
     \/ Spend /\ Abandon("platform")

\* Mutant: the root of a reply is always the post it answers.
RootOfParent(parent) == parent.id

\* The `root` of a reply, and what the next reply will find in `_root`.
RootOf(parent) == IF parent.root # 0 THEN parent.root ELSE parent.id

APost(media, parent, root) ==
  [NewObject("post", 0, <<>>, "ready") EXCEPT !.uses = media, !.parent = parent, !.root = root]

\* A video is embedded alone.
BlueskyEmbed == IF Items # <<>> /\ Items[1] = "video" THEN <<delivery.ids[1]>> ELSE delivery.ids
BlueskyRecord ==
  APost(BlueskyEmbed, ReplyTo.id, IF ReplyTo = NoId THEN 0 ELSE RootOf(ReplyTo))

\* A comment has no media, a post the first one.
LinkedInComment == APost(<<>>, ReplyTo.id, 0)
LinkedInPost == APost(IF delivery.ids = <<>> THEN <<>> ELSE <<delivery.ids[1]>>, 0, 0)
XTweet == APost(delivery.ids, ReplyTo.id, 0)
MastodonStatus == APost(delivery.ids, ReplyTo.id, 0)
FacebookPost == APost(<<>>, 0, 0)
InstagramPost == APost(<<delivery.obj>>, 0, 0)
ThreadsPost == APost(<<delivery.obj>>, ReplyTo.id, 0)

ThePost ==
  CASE kind = "bluesky" -> BlueskyRecord
    [] kind = "linkedin" -> IF ReplyTo # NoId THEN LinkedInComment ELSE LinkedInPost
    [] kind = "x" -> XTweet
    [] kind = "mastodon" -> MastodonStatus
    [] kind = "facebook" -> FacebookPost
    [] kind = "instagram" -> InstagramPost
    [] kind = "threads" -> ThreadsPost

\* The request that makes the post.  Some answers without an id are errors,
\* the others leave the id empty.
MakePost ==
  /\ At("publish")
  /\ LET id == [id |-> Len(remote) + 1, root |-> ThePost.root]
     IN  \/ Refused
         \/ Carried(Append(remote, ThePost), delivery' = [delivery EXCEPT !.at = "save", !.ext = id])
         \/ /\ kind \in {"x", "mastodon", "linkedin", "threads"} /\ Spend
            /\ remote' = Append(remote, ThePost) /\ Go("save")
            /\ UNCHANGED <<givenVars, row, kept, deliveries>>

\* Mutant: every error of threads_publish is tried again.
MayTryAgainAlways(lost) == TRUE

\* Threads tries again when the container is not known yet (code 24), and only then.
MayTryAgain(lost) == ~lost

\* Mutant: the last error of the loop is forgotten.
AfterLastTryForgotten == Go("save") /\ UNCHANGED row

AfterLastTry == Abandon("platform")

RetryPublish ==
  /\ At("publish") /\ kind = "threads" /\ Spend
  /\ \E lost \in BOOLEAN :
       /\ remote' = IF lost THEN Append(remote, ThePost) ELSE remote
       /\ MayTryAgain(lost)
       /\ IF delivery.tries + 1 < PublishTries
            THEN delivery' = [delivery EXCEPT !.tries = @ + 1] /\ UNCHANGED row
            ELSE AfterLastTry
  /\ UNCHANGED <<givenVars, kept, deliveries>>

\* The external id and the status of the destination are stored.
SaveDelivery ==
  /\ At("save")
  /\ \/ row' = [row EXCEPT ![delivery.post] = [status |-> "success", ext |-> delivery.ext, why |-> "none"]] /\ UNCHANGED spent
     \/ Spend /\ row' = [row EXCEPT ![delivery.post].status = "success"]
  /\ delivery' = NoDelivery
  /\ UNCHANGED <<givenVars, kept, deliveries, remote>>

\* The process dies; the job is executed again.
Crash ==
  /\ ~At("idle") /\ Spend /\ delivery' = NoDelivery
  /\ UNCHANGED <<givenVars, row, kept, deliveries, remote>>

AdapterStep ==
  \/ NextMedia \/ SendFile \/ OpenUpload \/ SendPart \/ CloseUpload \/ KeepMedia
  \/ XPollsMedia \/ MastodonPollsMedia \/ BlueskyPollsJob \/ LinkedInPollsVideo \/ PollFails
  \/ CheckRequest \/ SetAltTexts \/ CreateFails \/ ThreadsCreates \/ InstagramCreates \/ TikTokInits
  \/ ThreadsPolls \/ InstagramPolls \/ TikTokPolls \/ MakePost \/ RetryPublish \/ SaveDelivery

AdaptersNext ==
  \/ \E p \in ThreadPosts : Deliver(p)
  \/ AdapterStep
  \/ \E n \in DOMAIN remote, state \in {"ready", "failed"} : Processed(n, state)
  \/ TokenExpires
  \/ Crash

\* A request ends, with an answer or the client's timeout, and the next step follows.
AdaptersSpec == AdaptersInit /\ [][AdaptersNext]_adapterVars /\ WF_adapterVars(AdapterStep)

-----------------------------------------------------------------------------
(* Properties.                                                             *)

Made(p) == {n \in DOMAIN remote : remote[n].post = p /\ remote[n].what = (IF kind = "youtube" THEN "media" ELSE "post")}

\* Every variable has its type; no wait asks more often, no publish request is
\* repeated more often than its limit (maxAttempts, maxPublishAttempts).
PlatformTypeOK ==
  /\ kind \in Platforms /\ https \in BOOLEAN
  /\ \A p \in ThreadPosts :
       /\ row[p].status \in {"pending", "failed", "success"}
       /\ row[p].why \in {"none", "platform", "media", "url", "reply"}
       /\ {row[p].ext.id, row[p].ext.root} \subseteq {0} \cup DOMAIN remote
       /\ kept[p] \in [DOMAIN attached[p] -> {0} \cup DOMAIN remote]
  /\ delivery.at \in {"idle", "media", "send", "open", "part", "close", "wait", "keep", "check",
                       "alt", "create", "poll", "publish", "save"}
  /\ delivery.polls \in 0 .. Polls - 1 /\ delivery.tries \in 0 .. PublishTries - 1
  /\ deliveries \in 0 .. MaxDeliveries /\ spent \in 0 .. MaxFaults

\* All replies of a thread on Bluesky name the same root as the post they
\* answer, however many deliveries the thread took (attachReplyToRecord).
ThreadHasOneRoot ==
  \A n \in DOMAIN remote :
    kind = "bluesky" /\ remote[n].parent # 0 =>
      LET parent == remote[remote[n].parent]
      IN  /\ parent.post = remote[n].post - 1
          /\ remote[n].root = IF parent.parent = 0 THEN remote[n].parent ELSE parent.root

\* A destination is "success" only when the platform made the post, or, for
\* TikTok, accepted to (publishToDestination and the adapters' error paths).
SuccessIsPublished == \A p \in ThreadPosts : row[p].status = "success" => Made(p) # {}

\* One delivery makes at most one post, whatever is tried again within it:
\* the publish request of Threads, or all of Publish when the token expired.
\* TikTok's Publish may be repeated while it waits for the video.
OnePostPerDelivery ==
  kind # "youtube" =>
    \A m, n \in DOMAIN remote :
      /\ remote[m].what = "post" /\ remote[n].what = "post"
      /\ remote[m].delivery = remote[n].delivery
      /\ kind = "tiktok" => remote[m].again = remote[n].again
      => m = n

\* An item is not uploaded again once an upload of it is on record: retries
\* use that one (platformMediaIDForDestination).
KeptUploadIsTheLast ==
  \A p \in ThreadPosts : \A i \in DOMAIN attached[p] : kept[p][i] # 0 =>
    \A n \in DOMAIN remote :
      remote[n].what = "media" /\ remote[n].post = p /\ remote[n].item = i => n <= kept[p][i]

Whole(parts) ==
  /\ UNION {parts[k] : k \in DOMAIN parts} = 0 .. FileSize - 1
  /\ \A k, l \in DOMAIN parts : k < l => \A a \in parts[k], b \in parts[l] : a < b

\* What a post shows is complete and processed: its own media, in order, each
\* sent as a whole and ready, or a finished container (uploadMediaChunked,
\* completeVideoUpload, the waits).  Only a container of Instagram may be
\* unfinished, since an answer without a status code passes for FINISHED; it is
\* the post's own all the same.
PostsUseProcessedMedia ==
  \A n \in DOMAIN remote : \A i \in DOMAIN remote[n].uses :
    LET used == remote[remote[n].uses[i]]
    IN  /\ used.state = "ready" \/ (kind = "instagram" /\ used.what = "container")
        /\ used.post = remote[n].post
        /\ used.what = "media" => used.item = i /\ Whole(used.parts)

\* Media that pass the validation of the API are not refused later by the
\* adapter (validate*Media against Publish and the uploads).
ValidMediaAreAccepted ==
  \A p \in ThreadPosts : row[p].why = "media" => MediaErrors(attached[p])

\* A delivery ends, whatever the platform answers; only X may keep one for
\* as long as its processing lasts (the bounds of the polling loops).
DeliveryEnds == (~At("idle") /\ kind # "x") ~> At("idle")

\* The safety of what is published: types and bounds, one root for a thread,
\* no success without a post, and no second post in one delivery.
PublicationSafety ==
  PlatformTypeOK /\ ThreadHasOneRoot /\ SuccessIsPublished /\ OnePostPerDelivery

\* The safety of media: uploads are kept, complete, processed and accepted.
MediaSafety == KeptUploadIsTheLast /\ PostsUseProcessedMedia /\ ValidMediaAreAccepted
=============================================================================
