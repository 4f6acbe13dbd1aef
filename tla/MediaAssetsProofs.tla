-------------------------- MODULE MediaAssetsProofs --------------------------
(***************************************************************************)
(* The safety properties of MediaAssets, for any number of uploads.        *)
(***************************************************************************)
EXTENDS MediaAssets, TLAPS

-----------------------------------------------------------------------------
(* Type correctness                                                        *)

\* The job's own state stays well formed when it takes up an asset or leaves it.
LEMMA SweepTyped ==
  ASSUME sweep \in SweepTypes, NEW u \in Uploads, NEW point \in SweepPoints,
         SweepNext(u) \/ SweepOn(u, point)
  PROVE  sweep' \in SweepTypes
<1>1. Idle \in SweepTypes
  BY DEF Idle, SweepTypes, SweepPoints
<1>2. [pc |-> "next", todo |-> sweep.todo \ {u}, at |-> {}] \in SweepTypes
  BY DEF SweepTypes, SweepPoints
<1>3. [sweep EXCEPT !.pc = point, !.at = {u}] \in SweepTypes
  BY DEF SweepTypes
<1> QED
  BY <1>1, <1>2, <1>3 DEF SweepNext, SweepOn

\* Every state that uploads, posts and sweeps reach is well formed; in
\* particular only existing documents are past the grace period.
THEOREM TypeCorrect == Spec => []TypeOK
<1>1. Init => TypeOK
  BY DEF Init, TypeOK, Idle, SweepTypes, SweepPoints
<1>2. TypeOK /\ [Next]_vars => TypeOK'
  <2> SUFFICES ASSUME TypeOK, [Next]_vars PROVE TypeOK'
    OBVIOUS
  <2> USE DEF TypeOK, UploadTypes, UploadPoints, Goto, messageVars
  <2>1. ASSUME NEW u \in Uploads, StartUpload(u) \/ RefuseUpload(u) PROVE TypeOK'
    BY <2>1 DEF StartUpload, RefuseUpload
  <2>2. ASSUME NEW u \in Uploads, PinThumbnail(u) PROVE TypeOK'
    BY <2>2 DEF PinThumbnail, Thumbnail, Cids
  <2>3. ASSUME NEW u \in Uploads, PinFile(u) PROVE TypeOK'
    BY <2>3 DEF PinFile, Cid, File, Cids
  <2>4. ASSUME NEW u \in Uploads, CreateAsset(u) PROVE TypeOK'
    BY <2>4 DEF CreateAsset
  <2>5. ASSUME NEW u \in Uploads, PostMessage(u) PROVE TypeOK'
    BY <2>5 DEF PostMessage
  <2>6. ASSUME NEW u \in Uploads, GiveUpPost(u) PROVE TypeOK'
    BY <2>6 DEF GiveUpPost
  <2>7. ASSUME NEW u \in Uploads, Age(u) PROVE TypeOK'
    BY <2>7 DEF Age
  <2>8. CASE ExpireMessages
    BY <2>8 DEF ExpireMessages
  <2> USE DEF SweepPoints
  <2>9. CASE SweepFind
    BY <2>9 DEF SweepFind, SweepTypes
  <2>10. ASSUME NEW u \in Uploads, CheckConversations(u) PROVE TypeOK'
    BY <2>10, SweepTyped DEF CheckConversations
  <2>11. ASSUME NEW u \in Uploads, CheckChannelMessages(u) PROVE TypeOK'
    BY <2>11, SweepTyped DEF CheckChannelMessages
  <2>12. ASSUME NEW u \in Uploads, Unpin(u) PROVE TypeOK'
    <3>1. Idle \in SweepTypes
      BY DEF Idle, SweepTypes
    <3> QED
      BY <2>12, <3>1, SweepTyped DEF Unpin
  <2>13. ASSUME NEW u \in Uploads, DeleteAsset(u) PROVE TypeOK'
    BY <2>13, SweepTyped DEF DeleteAsset
  <2>14. CASE JobFails
    <3>1. sweep' \in SweepTypes
      BY <2>14 DEF JobFails, Idle, SweepTypes
    <3>2. sweep.at \subseteq Uploads
      BY DEF SweepTypes
    <3> QED
      BY <2>14, <3>1, <3>2 DEF JobFails
  <2>15. CASE UNCHANGED vars
    BY <2>15 DEF vars
  <2> QED
    BY <2>1, <2>2, <2>3, <2>4, <2>5, <2>6, <2>7, <2>8, <2>9, <2>10, <2>11, <2>12, <2>13, <2>14,
       <2>15 DEF Next, Uploading, Sweeping
<1> QED
  BY <1>1, <1>2, PTL DEF Spec

-----------------------------------------------------------------------------
(* The job in hand                                                         *)

Uploaded == {"answered", "failed", "done"}

\* What the worker works on has been uploaded, and so have the documents and
\* the messages, each message in the table of its kind.
WorkInv ==
    /\ sweep.at # {} => sweep.pc \in {"channels", "unpin", "delete"}
    /\ \A u \in assets \cup sweep.todo \cup sweep.at \cup dms \cup posts :
            upload[u].pc \in Uploaded
    /\ \A u \in dms : upload[u].kind = "dm"
    /\ \A u \in posts : upload[u].kind = "channel"

\* Content whose document the worker is about to delete has been unpinned; if it
\* is pinned again, another upload accounts for that.
DeletedAccounted ==
    sweep.pc = "delete" => \A u \in sweep.at : Cid(u) \in pins =>
        \E v \in Uploads : /\ upload[v].content = upload[u].content
                           /\ \/ upload[v].pc \in {"create", "failed"}
                              \/ v \in assets \ sweep.at

\* A message that shows the URL in hand, and is in a table the worker has been
\* through, overtook it.
LookedInv ==
    \A w \in sweep.at : \A u \in dms \cup posts :
        Url(w) = Url(u) /\ ~rebased /\ (u \in posts => sweep.pc # "channels") => u \in overtaken

IInv ==
    /\ TypeOK /\ WorkInv /\ DeletedAccounted /\ LookedInv
    /\ FilesAccounted /\ ThumbnailsAccounted /\ ShownMediaPinned

-----------------------------------------------------------------------------

\* What is left of the asset the job lets go, and of the one it takes up.
LEMMA SweepEffect ==
  ASSUME sweep \in SweepTypes, NEW u \in Uploads, NEW point \in SweepPoints
  PROVE  /\ SweepNext(u) \/ sweep' = Idle =>
              sweep'.at = {} /\ sweep'.pc \in {"idle", "next"} /\ sweep'.todo \subseteq sweep.todo
         /\ SweepOn(u, point) =>
              sweep'.at = {u} /\ sweep'.pc = point /\ sweep'.todo = sweep.todo
<1>1. Idle.at = {} /\ Idle.pc = "idle" /\ Idle.todo = {}
  BY DEF Idle
<1>2. ASSUME SweepNext(u) \/ sweep' = Idle
      PROVE  /\ sweep'.at = {} /\ sweep'.pc \in {"idle", "next"}
             /\ sweep'.todo \subseteq sweep.todo
  <2>1. CASE sweep' = Idle
    BY <1>1, <2>1
  <2>2. CASE sweep' = [pc |-> "next", todo |-> sweep.todo \ {u}, at |-> {}]
    BY <2>2
  <2> QED
    BY <1>2, <2>1, <2>2 DEF SweepNext
<1>3. ASSUME SweepOn(u, point)
      PROVE  sweep'.at = {u} /\ sweep'.pc = point /\ sweep'.todo = sweep.todo
  BY <1>3 DEF SweepTypes, SweepOn
<1> QED
  BY <1>2, <1>3

\* What the worker works on stays uploaded, and the messages in their tables.
LEMMA WorkStep ==
  ASSUME TypeOK, WorkInv, [Next]_vars PROVE WorkInv'
<1> USE DEF TypeOK, WorkInv, UploadTypes, SweepTypes, Uploaded, Goto, messageVars
<1>1. WorkInv'
  <2>1. ASSUME NEW u \in Uploads, StartUpload(u) \/ RefuseUpload(u) PROVE WorkInv'
    BY <2>1 DEF StartUpload, RefuseUpload
  <2>2. ASSUME NEW u \in Uploads, PinThumbnail(u) PROVE WorkInv'
    BY <2>2 DEF PinThumbnail
  <2>3. ASSUME NEW u \in Uploads, PinFile(u) PROVE WorkInv'
    BY <2>3 DEF PinFile
  <2>4. ASSUME NEW u \in Uploads, CreateAsset(u) PROVE WorkInv'
    BY <2>4 DEF CreateAsset
  <2>5. ASSUME NEW u \in Uploads, PostMessage(u) PROVE WorkInv'
    BY <2>5 DEF PostMessage
  <2>6. ASSUME NEW u \in Uploads, GiveUpPost(u) PROVE WorkInv'
    BY <2>6 DEF GiveUpPost
  <2>7. ASSUME NEW u \in Uploads, Age(u) PROVE WorkInv'
    BY <2>7 DEF Age
  <2>8. CASE ExpireMessages
    BY <2>8 DEF ExpireMessages
  <2>9. CASE SweepFind
    BY <2>9 DEF SweepFind
  <2>10. ASSUME NEW u \in Uploads, CheckConversations(u) PROVE WorkInv'
    BY <2>10, SweepEffect DEF CheckConversations, SweepPoints
  <2>11. ASSUME NEW u \in Uploads, CheckChannelMessages(u) PROVE WorkInv'
    BY <2>11, SweepEffect DEF CheckChannelMessages, SweepPoints
  <2>12. ASSUME NEW u \in Uploads, Unpin(u) PROVE WorkInv'
    BY <2>12, SweepEffect DEF Unpin, SweepPoints
  <2>13. ASSUME NEW u \in Uploads, DeleteAsset(u) PROVE WorkInv'
    BY <2>13, SweepEffect DEF DeleteAsset, SweepPoints
  <2>14. CASE JobFails
    BY <2>14 DEF JobFails, Idle
  <2>15. CASE UNCHANGED vars
    BY <2>15 DEF vars
  <2> QED
    BY <2>1, <2>2, <2>3, <2>4, <2>5, <2>6, <2>7, <2>8, <2>9, <2>10, <2>11, <2>12, <2>13, <2>14,
       <2>15 DEF Next, Uploading, Sweeping
<1> QED
  BY <1>1

\* An uploader accounts for what it pins, before its document does.
LEMMA AccountedByUploader ==
  ASSUME TypeOK, WorkInv, DeletedAccounted, FilesAccounted,
         NEW u \in Uploads, PinFile(u) \/ CreateAsset(u)
  PROVE  DeletedAccounted' /\ FilesAccounted'
<1> DEFINE Owns(v) == upload[v].pc \in {"create", "failed"}
<1>1. /\ sweep' = sweep /\ sweep.at \subseteq Uploads /\ u \notin sweep.at
      /\ assets \subseteq assets'
      /\ Owns(u)' \/ u \in assets'
      /\ \A v \in Uploads : /\ upload'[v].content = upload[v].content
                            /\ v # u => upload'[v] = upload[v]
  BY DEF TypeOK, WorkInv, UploadTypes, SweepTypes, Uploaded, PinFile, CreateAsset, Goto
<1>2. \A v \in Uploads \ {u} : Cid(v)' \in pins' => Cid(v) \in pins \/ Cid(v) = Cid(u)
  BY <1>1 DEF PinFile, CreateAsset, Cid
<1>3. \A c \in Contents : File(c) \in pins' => File(c) \in pins \/ c = upload[u].content
  BY <1>1 DEF PinFile, CreateAsset, Cid, File
<1>4. DeletedAccounted'
  <2> SUFFICES ASSUME sweep.pc = "delete", NEW w \in sweep.at, Cid(w)' \in pins'
               PROVE  \E v \in Uploads : /\ upload'[v].content = upload'[w].content
                                         /\ Owns(v)' \/ v \in assets' \ sweep.at
    BY <1>1 DEF DeletedAccounted
  <2>1. CASE upload[w].content = upload[u].content
    BY <1>1, <2>1
  <2>2. CASE upload[w].content # upload[u].content
    <3>1. Cid(w) \in pins
      BY <1>1, <1>2, <2>2 DEF Cid, File
    <3>2. PICK v \in Uploads : /\ upload[v].content = upload[w].content
                               /\ Owns(v) \/ v \in assets \ sweep.at
      BY <3>1 DEF DeletedAccounted
    <3> QED
      BY <1>1, <2>2, <3>2
  <2> QED
    BY <2>1, <2>2
<1>5. FilesAccounted'
  <2> SUFFICES ASSUME NEW c \in Contents, File(c) \in pins'
               PROVE  \E v \in Uploads : upload'[v].content = c /\ (v \in assets' \/ Owns(v)')
    BY DEF FilesAccounted, File
  <2>1. CASE c = upload[u].content
    BY <1>1, <2>1
  <2>2. CASE c # upload[u].content
    <3>1. PICK v \in Uploads : upload[v].content = c /\ (v \in assets \/ Owns(v))
      BY <1>3, <2>2 DEF FilesAccounted
    <3> QED
      BY <1>1, <2>2, <3>1
  <2> QED
    BY <2>1, <2>2
<1> QED
  BY <1>4, <1>5

\* To pin a thumbnail changes nothing but that pin and where the uploader is.
LEMMA ThumbnailEffect ==
  ASSUME TypeOK, NEW u \in Uploads, PinThumbnail(u)
  PROVE  /\ UNCHANGED <<rebased, assets, dms, posts, overtaken, sweep>>
         /\ \A v \in Uploads : /\ upload'[v].content = upload[v].content
                               /\ upload'[v].name = upload[v].name
                               /\ upload[v].pc # "thumbnail" => upload'[v].pc = upload[v].pc
         /\ \A c \in Contents : File(c) \in pins' <=> File(c) \in pins
<1> USE DEF TypeOK, UploadTypes
<1>1. UNCHANGED <<rebased, assets, dms, posts, overtaken, sweep>>
  BY DEF PinThumbnail, messageVars
<1>2. ASSUME NEW v \in Uploads
      PROVE  /\ upload'[v].content = upload[v].content /\ upload'[v].name = upload[v].name
             /\ upload[v].pc # "thumbnail" => upload'[v].pc = upload[v].pc
  BY <1>2 DEF PinThumbnail, Goto
<1>3. ASSUME NEW c \in Contents PROVE File(c) \in pins' <=> File(c) \in pins
  BY <1>3 DEF PinThumbnail, File, Thumbnail
<1> QED
  BY <1>1, <1>2, <1>3

\* ... so that the files stay accounted for.
LEMMA ThumbnailKeepsFiles ==
  ASSUME TypeOK, WorkInv, DeletedAccounted, FilesAccounted, NEW u \in Uploads, PinThumbnail(u)
  PROVE  DeletedAccounted' /\ FilesAccounted'
<1>1. /\ UNCHANGED <<assets, sweep>> /\ sweep.at \subseteq Uploads
      /\ \A v \in Uploads : /\ upload'[v].content = upload[v].content
                            /\ upload[v].content \in Contents
                            /\ upload[v].pc # "thumbnail" => upload'[v].pc = upload[v].pc
      /\ \A c \in Contents : File(c) \in pins' <=> File(c) \in pins
  BY ThumbnailEffect DEF TypeOK, UploadTypes, SweepTypes
<1>2. \A v \in Uploads : Cid(v)' = Cid(v) /\ (Cid(v) \in pins' <=> Cid(v) \in pins)
  BY <1>1 DEF Cid, File
<1>3. DeletedAccounted'
  BY <1>1, <1>2 DEF DeletedAccounted
<1>4. FilesAccounted'
  BY <1>1 DEF FilesAccounted, File
<1> QED
  BY <1>3, <1>4

\* Pins stay accounted for: the worker's deletion finds the content unpinned, or
\* pinned by somebody else.
LEMMA AccountedStep ==
  ASSUME TypeOK, WorkInv, DeletedAccounted, FilesAccounted, [Next]_vars
  PROVE  DeletedAccounted' /\ FilesAccounted'
<1> USE DEF TypeOK, WorkInv, UploadTypes, SweepTypes, Uploaded, Goto, messageVars,
            DeletedAccounted, FilesAccounted, Cid, File
<1>1. DeletedAccounted' /\ FilesAccounted'
  <2>1. ASSUME NEW u \in Uploads, StartUpload(u) \/ RefuseUpload(u)
        PROVE  DeletedAccounted' /\ FilesAccounted'
    <3>1. /\ UNCHANGED <<pins, assets, sweep>>
          /\ \A v \in Uploads : /\ upload'[v].content = upload[v].content
                                /\ upload[v].pc # "idle" => upload'[v].pc = upload[v].pc
      BY <2>1 DEF StartUpload, RefuseUpload
    <3>2. DeletedAccounted'
      BY <3>1
    <3>3. FilesAccounted'
      BY <3>1
    <3> QED
      BY <3>2, <3>3
  <2>2. ASSUME NEW u \in Uploads, PinThumbnail(u) PROVE DeletedAccounted' /\ FilesAccounted'
    BY <2>2, ThumbnailKeepsFiles
  <2>3. ASSUME NEW u \in Uploads, PinFile(u) PROVE DeletedAccounted' /\ FilesAccounted'
    BY <2>3, AccountedByUploader
  <2>4. ASSUME NEW u \in Uploads, CreateAsset(u) PROVE DeletedAccounted' /\ FilesAccounted'
    BY <2>4, AccountedByUploader
  <2>5. ASSUME NEW u \in Uploads, PostMessage(u) PROVE DeletedAccounted' /\ FilesAccounted'
    BY <2>5 DEF PostMessage
  <2>6. ASSUME NEW u \in Uploads, GiveUpPost(u) PROVE DeletedAccounted' /\ FilesAccounted'
    BY <2>6 DEF GiveUpPost
  <2>7. ASSUME NEW u \in Uploads, Age(u) PROVE DeletedAccounted' /\ FilesAccounted'
    BY <2>7 DEF Age
  <2>8. CASE ExpireMessages
    BY <2>8 DEF ExpireMessages
  <2>9. CASE SweepFind
    BY <2>9 DEF SweepFind
  <2>10. ASSUME NEW u \in Uploads, CheckConversations(u) PROVE DeletedAccounted' /\ FilesAccounted'
    BY <2>10, SweepEffect DEF CheckConversations, SweepPoints
  <2>11. ASSUME NEW u \in Uploads, CheckChannelMessages(u) PROVE DeletedAccounted' /\ FilesAccounted'
    BY <2>11, SweepEffect DEF CheckChannelMessages, SweepPoints
  <2>12. ASSUME NEW u \in Uploads, Unpin(u) PROVE DeletedAccounted' /\ FilesAccounted'
    BY <2>12, SweepEffect DEF Unpin, SweepPoints
  <2>13. ASSUME NEW u \in Uploads, DeleteAsset(u) PROVE DeletedAccounted' /\ FilesAccounted'
    BY <2>13, SweepEffect DEF DeleteAsset, SweepPoints
  <2>14. CASE JobFails
    BY <2>14 DEF JobFails, Idle
  <2>15. CASE UNCHANGED vars
    BY <2>15 DEF vars
  <2> QED
    BY <2>1, <2>2, <2>3, <2>4, <2>5, <2>6, <2>7, <2>8, <2>9, <2>10, <2>11, <2>12, <2>13, <2>14,
       <2>15 DEF Next, Uploading, Sweeping
<1> QED
  BY <1>1

\* A thumbnail is pinned by an upload that has not failed yet, and whose document,
\* once it is there, goes by the worker's hand only.
LEMMA ThumbnailsStep ==
  ASSUME TypeOK, WorkInv, ThumbnailsAccounted, [Next]_vars PROVE ThumbnailsAccounted'
<1> USE DEF TypeOK, UploadTypes, Goto
<1> DEFINE Answers(u, c) == /\ upload[u].content = c
                            /\ \/ u \in assets \cup swept
                               \/ upload[u].pc \in {"pin", "create", "failed"}
<1>1. SUFFICES ASSUME NEW c \in Contents, Thumbnail(c) \in pins'
               PROVE  \E u \in Uploads : Answers(u, c)'
  BY DEF ThumbnailsAccounted
<1>2. CASE Thumbnail(c) \notin pins
  <2>1. PICK u \in Uploads : PinThumbnail(u) /\ pins' = pins \cup {Thumbnail(upload[u].content)}
    <3>1. \A u \in Uploads : Cid(u) # Thumbnail(c)
      BY DEF Cid, File, Thumbnail
    <3>2. \A u \in sweep.at : u \in Uploads
      BY DEF SweepTypes
    <3> QED
      BY <1>1, <1>2, <3>1, <3>2
         DEF Next, Uploading, Sweeping, StartUpload, RefuseUpload, PinThumbnail, PinFile,
             CreateAsset, PostMessage, GiveUpPost, Age, ExpireMessages, SweepFind,
             CheckConversations, CheckChannelMessages, Unpin, DeleteAsset, JobFails, vars
  <2>2. upload[u].content = c
    BY <1>1, <1>2, <2>1 DEF Thumbnail
  <2>3. upload'[u].content = c /\ upload'[u].pc = "pin"
    BY <2>1, <2>2 DEF PinThumbnail
  <2> QED
    BY <2>3
<1>3. CASE Thumbnail(c) \in pins
  <2>1. PICK u \in Uploads : Answers(u, c)
    BY <1>3 DEF ThumbnailsAccounted
  <2>2. Answers(u, c)'
    <3> USE DEF SweepTypes
    <3>1. ASSUME NEW v \in Uploads, Uploading(v) PROVE Answers(u, c)'
      <4>1. assets \subseteq assets' /\ swept' = swept
        BY <3>1 DEF Uploading, StartUpload, RefuseUpload, PinThumbnail, PinFile, CreateAsset,
                    PostMessage, GiveUpPost
      <4>2. upload'[u].content = upload[u].content
        BY <3>1 DEF Uploading, StartUpload, RefuseUpload, PinThumbnail, PinFile, CreateAsset,
                    PostMessage, GiveUpPost
      <4>3. \/ upload'[u] = upload[u] \/ u \in assets'
            \/ upload'[u].pc \in {"pin", "create", "failed"} \/ u \in assets \cup swept
        <5>1. CASE u # v
          BY <3>1, <5>1 DEF Uploading, StartUpload, RefuseUpload, PinThumbnail, PinFile,
                            CreateAsset, PostMessage, GiveUpPost
        <5>2. CASE u = v
          BY <2>1, <3>1, <5>2 DEF Uploading, StartUpload, RefuseUpload, PinThumbnail, PinFile,
                                  CreateAsset, PostMessage, GiveUpPost
        <5> QED
          BY <5>1, <5>2
      <4> QED
        BY <2>1, <4>1, <4>2, <4>3
    <3>2. ASSUME upload' = upload, assets \cup swept \subseteq assets' \cup swept'
          PROVE  Answers(u, c)'
      BY <2>1, <3>2
    <3> QED
      BY <3>1, <3>2
         DEF Next, Sweeping, Age, ExpireMessages, SweepFind, CheckConversations,
             CheckChannelMessages, Unpin, DeleteAsset, JobFails, vars
  <2> QED
    BY <2>2
<1> QED
  BY <1>2, <1>3

\* An unpin hits a message's media only if the message overtook the worker, or has
\* another URL for the content.
LEMMA LookedStep ==
  ASSUME TypeOK, WorkInv, LookedInv, ShownMediaPinned, [Next]_vars
  PROVE  LookedInv' /\ ShownMediaPinned'
<1> USE DEF TypeOK, WorkInv, UploadTypes, SweepTypes, Uploaded, Goto, messageVars,
            LookedInv, ShownMediaPinned, Cid, File, Shown, Url, SharesContent
<1>1. LookedInv' /\ ShownMediaPinned'
  <2>1. ASSUME NEW u \in Uploads, StartUpload(u) \/ RefuseUpload(u)
        PROVE  LookedInv' /\ ShownMediaPinned'
    <3>1. CASE StartUpload(u)
      BY <3>1 DEF StartUpload
    <3>2. CASE RefuseUpload(u)
      BY <3>2 DEF RefuseUpload
    <3> QED
      BY <2>1, <3>1, <3>2
  <2>2. ASSUME NEW u \in Uploads, PinThumbnail(u) PROVE LookedInv' /\ ShownMediaPinned'
    <3>1. LookedInv'
      BY <2>2, ThumbnailEffect
    <3>2. ShownMediaPinned'
      BY <2>2, ThumbnailEffect
    <3> QED
      BY <3>1, <3>2
  <2>3. ASSUME NEW u \in Uploads, PinFile(u) PROVE LookedInv' /\ ShownMediaPinned'
    <3>1. /\ UNCHANGED <<rebased, assets, dms, posts, overtaken, sweep>> /\ pins \subseteq pins'
          /\ \A v \in Uploads : /\ upload'[v].content = upload[v].content
                                /\ upload'[v].name = upload[v].name
                                /\ upload[v].pc # "pin" => upload'[v].pc = upload[v].pc
      BY <2>3 DEF PinFile
    <3>2. LookedInv'
      BY <3>1
    <3>3. ShownMediaPinned'
      BY <3>1
    <3> QED
      BY <3>2, <3>3
  <2>4. ASSUME NEW u \in Uploads, CreateAsset(u) PROVE LookedInv' /\ ShownMediaPinned'
    BY <2>4 DEF CreateAsset
  <2>5. ASSUME NEW u \in Uploads, PostMessage(u) PROVE LookedInv' /\ ShownMediaPinned'
    BY <2>5 DEF PostMessage, LookedPast
  <2>6. ASSUME NEW u \in Uploads, GiveUpPost(u) PROVE LookedInv' /\ ShownMediaPinned'
    BY <2>6 DEF GiveUpPost
  <2>7. ASSUME NEW u \in Uploads, Age(u) PROVE LookedInv' /\ ShownMediaPinned'
    BY <2>7 DEF Age
  <2>8. CASE ExpireMessages
    BY <2>8 DEF ExpireMessages
  <2>9. CASE SweepFind
    BY <2>9 DEF SweepFind
  <2>10. ASSUME NEW u \in Uploads, CheckConversations(u) PROVE LookedInv' /\ ShownMediaPinned'
    BY <2>10, SweepEffect DEF CheckConversations, SweepPoints, ShownIn
  <2>11. ASSUME NEW u \in Uploads, CheckChannelMessages(u) PROVE LookedInv' /\ ShownMediaPinned'
    BY <2>11, SweepEffect DEF CheckChannelMessages, SweepPoints, ShownIn
  <2>12. ASSUME NEW u \in Uploads, Unpin(u) PROVE LookedInv' /\ ShownMediaPinned'
    BY <2>12, SweepEffect DEF Unpin, SweepPoints, ShownIn
  <2>13. ASSUME NEW u \in Uploads, DeleteAsset(u) PROVE LookedInv' /\ ShownMediaPinned'
    BY <2>13, SweepEffect DEF DeleteAsset, SweepPoints, ShownIn
  <2>14. CASE JobFails
    BY <2>14 DEF JobFails, Idle, ShownIn
  <2>15. CASE UNCHANGED vars
    BY <2>15 DEF vars
  <2> QED
    BY <2>1, <2>2, <2>3, <2>4, <2>5, <2>6, <2>7, <2>8, <2>9, <2>10, <2>11, <2>12, <2>13, <2>14,
       <2>15 DEF Next, Uploading, Sweeping
<1> QED
  BY <1>1

\* The strengthening is inductive.
LEMMA Invariance == Spec => []IInv
<1>1. Init => IInv
  BY DEF Init, IInv, TypeOK, WorkInv, DeletedAccounted, FilesAccounted,
         ThumbnailsAccounted, LookedInv, ShownMediaPinned, Shown, Idle, SweepTypes, SweepPoints
<1>2. IInv /\ TypeOK' /\ [Next]_vars => IInv'
  BY WorkStep, AccountedStep, ThumbnailsStep, LookedStep DEF IInv
<1> QED
  BY <1>1, <1>2, TypeCorrect, PTL DEF Spec

\* Media that a message shows loses its pin only for one of the three reasons
\* that ShownMediaPinned names, however many uploads and sweeps there are.
THEOREM ShownStaysPinned == Spec => []ShownMediaPinned
BY Invariance, PTL DEF IInv

\* The worker leaves no file pinned without a document to find it by; what is left
\* besides are the thumbnails of the documents it deleted.
THEOREM WorkerLeaksNoFile == Spec => []PinsAccounted
<1>1. IInv => PinsAccounted
  BY DEF IInv, PinsAccounted
<1> QED
  BY <1>1, Invariance, PTL

=============================================================================
