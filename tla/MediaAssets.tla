---------------------------- MODULE MediaAssets ----------------------------
(***************************************************************************)
(* The life of uploaded media: Node's uploadMediaAsset pins the content in *)
(* IPFS and then writes a media_assets document; the browser posts a       *)
(* message with the media's gateway URL; the Go worker expires direct      *)
(* messages and unpins the assets no message shows.  The worker's look at  *)
(* the two message tables, its unpin and its deletion are steps of their   *)
(* own, and nothing keeps the uploads and the posts out from between them. *)
(***************************************************************************)
EXTENDS Naturals

CONSTANTS Uploads,   \* bound: the uploads of a behaviour, each made once
          Contents,  \* what is uploaded
          Names      \* the files' names

VARIABLES
    rebased,  \* the browser builds gateway URLs on another base than Node does
    upload,   \* the uploads: where each is, and of what
    pins,     \* the CIDs that are pinned
    assets,   \* media_assets documents: the uploads that wrote them
    aged,     \* the documents older than the grace period
    dms,      \* conversations documents: the uploads whose media they show
    posts,    \* channel_message rows: likewise
    sweep,    \* the worker's job
    \* history
    overtaken,\* uploads posted after the worker had looked for their URL
    swept     \* uploads whose documents the worker has deleted

messageVars == <<dms, posts, overtaken>>
vars == <<rebased, upload, pins, assets, aged, swept, messageVars, sweep>>

UploadPoints == {"idle", "refused", "thumbnail", "pin", "create", "answered", "failed", "done"}
SweepPoints == {"idle", "failed", "next", "channels", "unpin", "delete"}

\* The content's own CID, and that of the thumbnail made of it.
File(c) == <<c, "file">>
Thumbnail(c) == <<c, "thumbnail">>
Cids == Contents \X {"file", "thumbnail"}

UploadTypes == [pc: UploadPoints, content: Contents, name: Names, kind: {"dm", "channel"}]
\* todo: the assets still to look at; at: the one in hand ({} between two).
SweepTypes == [pc: SweepPoints, todo: SUBSET Uploads, at: SUBSET Uploads]

TypeOK ==
    /\ rebased \in BOOLEAN
    /\ upload \in [Uploads -> UploadTypes]
    /\ pins \in SUBSET Cids
    /\ assets \in SUBSET Uploads /\ aged \in SUBSET assets
    /\ dms \in SUBSET Uploads /\ posts \in SUBSET Uploads
    /\ sweep \in SweepTypes
    /\ overtaken \in SUBSET Uploads /\ swept \in SUBSET Uploads

Idle == [pc |-> "idle", todo |-> {}, at |-> {}]

Init ==
    /\ rebased \in BOOLEAN
    /\ upload \in [Uploads -> {t \in UploadTypes : t.pc = "idle"}]
    /\ pins = {} /\ assets = {} /\ aged = {}
    /\ dms = {} /\ posts = {}
    /\ sweep = Idle
    /\ overtaken = {} /\ swept = {}

Cid(u) == File(upload[u].content)
\* The gateway URL of an asset: its CID, with the file's name as a query.
Url(u) == <<upload[u].content, upload[u].name>>
Goto(u, point) == upload' = [upload EXCEPT ![u].pc = point]

\* A message of the table shows the asset under the very URL its document has.
ShownIn(table, u) == ~rebased /\ \E w \in table : Url(w) = Url(u)

-----------------------------------------------------------------------------
(* Uploading and posting                                                   *)

\* uploadMediaAsset begins; of an image it makes a thumbnail first.
StartUpload(u) ==
    /\ upload[u].pc = "idle"
    /\ Goto(u, "thumbnail") \/ Goto(u, "pin")
    /\ UNCHANGED <<rebased, swept, pins, assets, aged, messageVars, sweep>>

\* UploadMediaHandler turns away who is not a member of the channel, or writes to
\* an archived one.  (A direct upload goes to Node without such a check.)
RefuseUpload(u) ==
    /\ upload[u].pc = "idle" /\ upload[u].kind = "channel"
    /\ Goto(u, "refused")
    /\ UNCHANGED <<rebased, swept, pins, assets, aged, messageVars, sweep>>

\* The thumbnail is pinned; an error is logged and swallowed.
PinThumbnail(u) ==
    /\ upload[u].pc = "thumbnail"
    /\ pins' \in {pins, pins \cup {Thumbnail(upload[u].content)}}
    /\ Goto(u, "pin")
    /\ UNCHANGED <<rebased, swept, assets, aged, messageVars, sweep>>

\* uploadToIpfs: pinned, or an error, after which the file may be pinned or not.
PinFile(u) ==
    /\ upload[u].pc = "pin"
    /\ \/ pins' = pins \cup {Cid(u)} /\ Goto(u, "create")
       \/ pins' \in {pins, pins \cup {Cid(u)}} /\ Goto(u, "failed")
    /\ UNCHANGED <<rebased, swept, assets, aged, messageVars, sweep>>

\* Mutant: an upload whose document cannot be written counts as done.
CreateAssetUnchecked(u) ==
    /\ upload[u].pc = "create"
    /\ assets' \in {assets, assets \cup {u}}
    /\ Goto(u, "answered")
    /\ UNCHANGED <<rebased, swept, pins, aged, messageVars, sweep>>

\* The document is written, or not; the uploader has the answer, or an error.
CreateAsset(u) ==
    /\ upload[u].pc = "create"
    /\ \/ assets' = assets \cup {u} /\ Goto(u, "answered")
       \/ assets' \in {assets, assets \cup {u}} /\ Goto(u, "failed")
    /\ UNCHANGED <<rebased, swept, pins, aged, messageVars, sweep>>

\* The worker's job has the URL in hand and has looked at the table already.
LookedPast(u) ==
    /\ \E w \in sweep.at : Url(w) = Url(u)
    /\ sweep.pc = "channels" => upload[u].kind = "dm"

\* handleFileUpload posts the message: through Socket.IO, which holds it back
\* while it is disconnected, or over the channel's WebSocket.  Any time may
\* have passed since the answer.
PostMessage(u) ==
    /\ upload[u].pc = "answered"
    /\ Goto(u, "done")
    /\ IF upload[u].kind = "dm"
       THEN dms' = dms \cup {u} /\ UNCHANGED posts
       ELSE posts' = posts \cup {u} /\ UNCHANGED dms
    /\ overtaken' = overtaken \cup {v \in {u} : LookedPast(v) \/ Cid(v) \notin pins}
    /\ UNCHANGED <<rebased, swept, pins, assets, aged, sweep>>

\* The post does not happen: the answer is lost (for a channel it passes through
\* the Go service's Upload), the socket is not connected, the message refused.
GiveUpPost(u) ==
    /\ upload[u].pc = "answered"
    /\ Goto(u, "done")
    /\ UNCHANGED <<rebased, swept, pins, assets, aged, messageVars, sweep>>

-----------------------------------------------------------------------------
(* The worker                                                              *)

\* The grace period of a document passes.
Age(u) ==
    /\ u \in assets \ aged
    /\ aged' = aged \cup {u}
    /\ UNCHANGED <<rebased, swept, upload, pins, assets, messageVars, sweep>>

\* cleanupExpiredMessages deletes the direct messages that are old enough, and
\* Node's deleteMessage any one of them.
ExpireMessages ==
    /\ \E old \in SUBSET dms : old # {} /\ dms' = dms \ old
    /\ UNCHANGED <<rebased, swept, upload, pins, assets, aged, posts, sweep, overtaken>>

\* cleanupOrphanedMedia queries the documents past the grace period.
SweepFind ==
    /\ sweep.pc \in {"idle", "failed"} /\ aged # {}
    /\ sweep' = [pc |-> "next", todo |-> aged, at |-> {}]
    /\ UNCHANGED <<rebased, swept, upload, pins, assets, aged, messageVars>>

\* The asset in hand is dealt with.
SweepNext(u) ==
    sweep' = IF sweep.todo \subseteq {u} THEN Idle
             ELSE [pc |-> "next", todo |-> sweep.todo \ {u}, at |-> {}]

SweepOn(u, point) == sweep' = [sweep EXCEPT !.pc = point, !.at = {u}]

\* Mutant: an asset in use ends the job.
CheckConversationsReturns(u) ==
    /\ sweep.pc = "next" /\ u \in sweep.todo
    /\ IF ShownIn(dms, u) THEN sweep' = Idle ELSE SweepOn(u, "channels")
    /\ UNCHANGED <<rebased, swept, upload, pins, assets, aged, messageVars>>

\* mediaAssetInUse counts the conversations with the asset's URL ...
CheckConversations(u) ==
    /\ sweep.pc = "next" /\ u \in sweep.todo
    /\ IF ShownIn(dms, u) THEN SweepNext(u) ELSE SweepOn(u, "channels")
    /\ UNCHANGED <<rebased, swept, upload, pins, assets, aged, messageVars>>

\* Mutant: the channels' messages are forgotten.
CheckChannelMessagesSkipped(u) ==
    /\ sweep.pc = "channels" /\ sweep.at = {u}
    /\ SweepOn(u, "unpin")
    /\ UNCHANGED <<rebased, swept, upload, pins, assets, aged, messageVars>>

\* ... then asks for a channel message with it.
CheckChannelMessages(u) ==
    /\ sweep.pc = "channels" /\ sweep.at = {u}
    /\ IF ShownIn(posts, u) THEN SweepNext(u) ELSE SweepOn(u, "unpin")
    /\ UNCHANGED <<rebased, swept, upload, pins, assets, aged, messageVars>>

\* Mutant: the error of an unpin is ignored.
UnpinIgnoringErrors(u) ==
    /\ sweep.pc = "unpin" /\ sweep.at = {u}
    /\ pins' \in {pins, pins \ {Cid(u)}}
    /\ SweepOn(u, "delete")
    /\ UNCHANGED <<rebased, swept, upload, assets, aged, messageVars>>

\* Unpin: IPFS refuses a CID that is not pinned, and the job ends with an error.
Unpin(u) ==
    /\ sweep.pc = "unpin" /\ sweep.at = {u}
    /\ pins' = pins \ {Cid(u)}
    /\ IF Cid(u) \in pins THEN SweepOn(u, "delete") ELSE sweep' = Idle
    /\ UNCHANGED <<rebased, swept, upload, assets, aged, messageVars>>

\* Mutant: the document is left in the set the next query finds.
DeleteAssetKeepsAge(u) ==
    /\ sweep.pc = "delete" /\ sweep.at = {u}
    /\ assets' = assets \ {u} /\ swept' = swept \cup {u}
    /\ SweepNext(u)
    /\ UNCHANGED <<rebased, upload, pins, aged, messageVars>>

DeleteAsset(u) ==
    /\ sweep.pc = "delete" /\ sweep.at = {u}
    /\ assets' = assets \ {u} /\ aged' = aged \ {u} /\ swept' = swept \cup {u}
    /\ SweepNext(u)
    /\ UNCHANGED <<rebased, upload, pins, messageVars>>

\* A query, the unpin or the deletion fails (its effect may have happened), the
\* job's two minutes are over, or the process stops: the next tick starts again.
JobFails ==
    /\ sweep.pc \notin {"idle", "failed"}
    /\ sweep' = [Idle EXCEPT !.pc = "failed"]
    /\ \/ UNCHANGED <<pins, assets, aged, swept>>
       \/ /\ sweep.pc = "unpin"
          /\ pins' = pins \ {Cid(u) : u \in sweep.at}
          /\ UNCHANGED <<assets, aged, swept>>
       \/ /\ sweep.pc = "delete"
          /\ assets' = assets \ sweep.at /\ aged' = aged \ sweep.at
          /\ swept' = swept \cup sweep.at
          /\ UNCHANGED pins
    /\ UNCHANGED <<rebased, upload, messageVars>>

-----------------------------------------------------------------------------

Uploading(u) ==
    \/ StartUpload(u) \/ RefuseUpload(u) \/ PinThumbnail(u) \/ PinFile(u) \/ CreateAsset(u)
    \/ PostMessage(u) \/ GiveUpPost(u)
Sweeping(u) ==
    CheckConversations(u) \/ CheckChannelMessages(u) \/ Unpin(u) \/ DeleteAsset(u)

Next ==
    \/ \E u \in Uploads : Uploading(u) \/ Age(u) \/ Sweeping(u)
    \/ ExpireMessages \/ SweepFind \/ JobFails

Spec == Init /\ [][Next]_vars

\* The ticker starts the job again and again, and a job that has begun goes on.
Fairness ==
    /\ WF_vars(SweepFind)
    /\ WF_vars(\E u \in Uploads : Sweeping(u))

FairSpec == Spec /\ Fairness

-----------------------------------------------------------------------------

Shown == dms \cup posts

\* Another upload had the same content pinned under another URL.
SharesContent(u) ==
    \E v \in Uploads : /\ upload[v].content = upload[u].content /\ Url(v) # Url(u)
                       /\ upload[v].pc \in {"answered", "failed", "done"}

\* The media of a message loses its pin in three cases only: browser and Node
\* disagree about the gateway, so that the worker knows no message's URL; the
\* message came after the worker had looked; or another upload of the same
\* content, under another name, was cleaned up (mediaAssetInUse, Unpin).
ShownMediaPinned ==
    \A u \in Shown : Cid(u) \in pins \/ rebased \/ u \in overtaken \/ SharesContent(u)

\* A file that is pinned has a document, or an upload that failed or has yet to
\* write one.
FilesAccounted ==
    \A c \in Contents : File(c) \in pins =>
        \E u \in Uploads : /\ upload[u].content = c
                           /\ u \in assets \/ upload[u].pc \in {"create", "failed"}

\* A pinned thumbnail has, besides, an upload whose document the worker deleted.
ThumbnailsAccounted ==
    \A c \in Contents : Thumbnail(c) \in pins =>
        \E u \in Uploads : /\ upload[u].content = c
                           /\ \/ u \in assets \cup swept
                              \/ upload[u].pc \in {"pin", "create", "failed"}

\* A pin that no document accounts for, and that therefore nothing ever removes, was
\* left by an upload that failed or has yet to write its document; or it is a
\* thumbnail whose document the worker has deleted, since Unpin is asked for the
\* file's CID only.  The worker leaves no file pinned: it unpins before it deletes.
PinsAccounted == FilesAccounted /\ ThumbnailsAccounted

\* Its content is not pinned (any more), so that Unpin can only fail.
Stuck(u) == u \in aged /\ Cid(u) \notin pins

Orphan(u) == u \in aged /\ ~ShownIn(Shown, u)

\* Once the services answer and jobs run through, an orphan goes in the end,
\* unless the job keeps meeting an asset it cannot unpin: that one ends the job,
\* whatever comes after it in the list (cleanupOrphanedMedia).
OrphansGo ==
    <>[][~JobFails]_vars =>
        \A u \in Uploads : <>[]Orphan(u) => []<>(\E v \in Uploads : Stuck(v))

=============================================================================
