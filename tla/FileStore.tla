------------------------------ MODULE FileStore -----------------------------
(****************************************************************************)
(* Files: the objects in S3 and the rows that speak of them.                *)
(* s3.service.ts, files.service.ts, the uploads of dochub.controller.ts and *)
(* chatbot.controller.ts with processDocument and loadAndProcessDocuments.  *)
(*                                                                          *)
(* A request looks the folder up and then starts one part for each of its   *)
(* files (Promise.all of an upload of several), which runs by itself:       *)
(*                                                                          *)
(*   plain     put -> row                                   POST /files     *)
(*   document  put -> row -> document -> vectors            POST /dochub    *)
(*   chat      put -> row -> thread -> link -> document -> vectors -> attach*)
(*                                                                          *)
(* One company, one user of it and one thread.  A file is the upload that   *)
(* made it, and its content is the file itself.  What else may replace the  *)
(* company's root folder (step 3 of the registration) or delete it matters  *)
(* to no rule here: a row whose folder is gone is a call that rejects.      *)
(****************************************************************************)
EXTENDS Naturals, FiniteSets

CONSTANTS
    Files,    \* uploads that are made in all, and the ids of their rows
    Names,    \* original names of files
    Folders,  \* ids of folders that are made in all
    Requests, \* request slots: how many requests are in flight at once
    MaxTime,  \* bound: milliseconds that Date.now tells apart
    None      \* null

ASSUME TimeType == MaxTime \in Nat
ASSUME NoneIsNoId == None \notin Files \cup Folders \cup Names \cup (Nat \X Names)

Key == Nat \X Names

Kinds == {"plain", "document", "chat"}

\* Where the upload of a file is: "new" before, "stored" or "failed" after.
PartLabels == {"new", "asked", "put", "row", "thread", "link", "document", "vectors",
               "attach", "stored", "failed"}

\* bot: the thread was the chatbot's when validateThread read it.
Part == [at : PartLabels, kind : Kinds, time : Nat, name : Names \cup {None},
         root : Folders \cup {None}, bot : BOOLEAN]

Labels == {"idle", "company", "ensure", "create_root", "parts",
           "find", "delete_object", "delete_row", "find_document", "mark"}

Request == [at : Labels, files : SUBSET Files, key : Key \cup {None}]

NoRequest == [at |-> "idle", files |-> {}, key |-> None]

VARIABLES
    now,           \* Date.now
    object,        \* object[k]: the content under key k in S3, or None
    fileReference, \* fileReference[f]: the key in the FileReference row, or None
    folderOf,      \* folderOf[f]: the folder of its FolderFileReference, or None
    userDocument,  \* userDocument[f]: "none", "active" or "inactive"
    threadFiles,   \* the files with a ChatThreadFile row
    chatFileId,    \* chatFileId of the thread
    vectorstore,   \* vectorstore[f]: how many of its chunks are there
    folder,        \* the root folders that were made for the company
    rootFolderId,  \* of the company
    part,          \* part[f]: the upload of f
    req,           \* req[r]: the request in slot r
    purged         \* history: files whose object deleteFile removed

tables == <<fileReference, folderOf, userDocument, threadFiles, chatFileId, vectorstore>>
folders == <<folder, rootFolderId>>
vars == <<now, object, tables, folders, part, req, purged>>

\* A company from before folders has no root; later ones are created with one.
Init ==
    /\ now = 0
    /\ object = [k \in (0 .. MaxTime) \X Names |-> None]
    /\ fileReference = [f \in Files |-> None]
    /\ folderOf = [f \in Files |-> None]
    /\ userDocument = [f \in Files |-> "none"]
    /\ threadFiles = {}
    /\ chatFileId = None
    /\ vectorstore = [f \in Files |-> "none"]
    /\ \E d \in Folders :
         \/ rootFolderId = d /\ folder = {d}
         \/ rootFolderId = None /\ folder = {}
    /\ part = [f \in Files |-> [at |-> "new", kind |-> "plain", time |-> 0,
                                name |-> None, root |-> None, bot |-> FALSE]]
    /\ req = [r \in Requests |-> NoRequest]
    /\ purged = {}

-----------------------------------------------------------------------------
(* The files of a request                                                   *)

At(r, label) == req[r].at = label

Await(r, label) == req' = [req EXCEPT ![r].at = label]

Reply(r) == req' = [req EXCEPT ![r] = NoRequest]

\* (Mutant of KeyOf: the key is the name.)
KeyOfName(time, name) == <<0, name>>

\* (Mutant of KeyOf: no time at all.)
KeyOfBare(time, name) == name

\* The S3 key of a file: `${Date.now()}-${originalname}`.
KeyOf(time, name) == <<time, name>>

\* The parts F of an upload begin; each computes its key and puts its object.
Start(F, root) ==
    \E names \in [F -> Names] :
      part' = [f \in Files |->
                 IF f \in F
                 THEN [part[f] EXCEPT !.at = "put", !.time = now,
                                      !.name = names[f], !.root = root]
                 ELSE part[f]]

\* The upload of f goes on to label.
Goes(f, label) == part' = [part EXCEPT ![f].at = label]

PartKey(f) == KeyOf(part[f].time, part[f].name)

-----------------------------------------------------------------------------
(* Uploads up to their parts                                                *)

\* POST /files/upload: nothing is looked up.
UploadPlain(r, f) ==
    /\ At(r, "idle") /\ part[f].at = "new"
    /\ req' = [req EXCEPT ![r].at = "parts", ![r].files = {f}]
    /\ Start({f}, None)
    /\ UNCHANGED <<now, object, tables, folders, purged>>

\* POST /dochub/upload and /dochub/upload/multiple, or the chatbot's upload
\* of one file to a thread.  What the first reply is read for (the user's
\* company, the thread's owner) never changes; the second is the company.
Upload(r, F, kind) ==
    /\ At(r, "idle")
    /\ F # {} /\ \A f \in F : part[f].at = "new"
    /\ kind = "chat" => Cardinality(F) = 1
    /\ req' = [req EXCEPT ![r].at = "company", ![r].files = F]
    /\ part' = [f \in Files |->
                  IF f \in F THEN [part[f] EXCEPT !.at = "asked", !.kind = kind]
                  ELSE part[f]]
    /\ UNCHANGED <<now, object, tables, folders, purged>>

Kind(r) == part[CHOOSE f \in req[r].files : TRUE].kind

\* The chatbot uploads without a folder when the company has no root.
ReadCompany(r) ==
    /\ At(r, "company")
    /\ IF Kind(r) = "document" /\ rootFolderId = None
       THEN Await(r, "ensure") /\ UNCHANGED part
       ELSE Await(r, "parts") /\ Start(req[r].files, rootFolderId)
    /\ UNCHANGED <<now, object, tables, folders, purged>>

\* ensureCompanyRootFolder looks again ...
EnsureRoot(r) ==
    /\ At(r, "ensure")
    /\ IF rootFolderId = None
       THEN Await(r, "create_root") /\ UNCHANGED part
       ELSE Await(r, "parts") /\ Start(req[r].files, rootFolderId)
    /\ UNCHANGED <<now, object, tables, folders, purged>>

\* ... and creates one in a transaction, whatever the company has by then.
CreateRoot(r) ==
    /\ At(r, "create_root")
    /\ \E d \in Folders \ folder :
         /\ folder' = folder \cup {d}
         /\ rootFolderId' = d
         /\ Start(req[r].files, d)
    /\ Await(r, "parts")
    /\ UNCHANGED <<now, object, tables, purged>>

\* The answer, when every part has come to its end.
Answer(r) ==
    /\ At(r, "parts")
    /\ \A f \in req[r].files : part[f].at \in {"stored", "failed"}
    /\ Reply(r)
    /\ UNCHANGED <<now, object, tables, folders, part, purged>>

-----------------------------------------------------------------------------
(* The parts of an upload                                                   *)

PartAt(f, label) == part[f].at = label

\* The object is in S3.
Put(f) ==
    /\ PartAt(f, "put")
    /\ object' = [object EXCEPT ![PartKey(f)] = f]
    /\ Goes(f, "row")
    /\ UNCHANGED <<now, tables, folders, req, purged>>

AfterRow(kind) ==
    CASE kind = "plain"    -> "stored"
      [] kind = "document" -> "document"
      [] kind = "chat"     -> "thread"

\* The row is created, in its folder if there is one.  Keys are unique:
\* otherwise this call rejects (FailPart), as it does if the folder is gone.
CreateRow(f) ==
    /\ PartAt(f, "row")
    /\ \A g \in Files : fileReference[g] # PartKey(f)
    /\ fileReference' = [fileReference EXCEPT ![f] = PartKey(f)]
    /\ folderOf' = [folderOf EXCEPT ![f] = part[f].root]
    /\ part' = [part EXCEPT ![f].root = None, ![f].at = AfterRow(part[f].kind)]
    /\ UNCHANGED <<now, object, userDocument, threadFiles, chatFileId, vectorstore,
                   folders, req, purged>>

\* validateThread: the thread is the chatbot's or a lawyer's by now.
ValidateThread(f) ==
    /\ PartAt(f, "thread")
    /\ \E bot \in BOOLEAN : part' = [part EXCEPT ![f].bot = bot, ![f].at = "link"]
    /\ UNCHANGED <<now, object, tables, folders, req, purged>>

\* The file becomes one of the thread's; the row may be gone, if it is in no
\* folder, and then the call rejects.
LinkToThread(f) ==
    /\ PartAt(f, "link")
    /\ fileReference[f] # None
    /\ threadFiles' = threadFiles \cup {f}
    /\ Goes(f, IF part[f].bot THEN "document" ELSE "stored")
    /\ UNCHANGED <<now, object, fileReference, folderOf, userDocument, chatFileId,
                   vectorstore, folders, req, purged>>

\* (Mutant of AttachedBy: the thread gets the file with the document.)
AttachedEarly(f) == IF part[f].kind = "chat" THEN f ELSE chatFileId

\* The thread's file after the document of f was created: as before.
AttachedBy(f) == chatFileId

\* processDocument lists the document before it has read it.
CreateDocument(f) ==
    /\ PartAt(f, "document")
    /\ fileReference[f] # None
    /\ userDocument' = [userDocument EXCEPT ![f] = "active"]
    /\ chatFileId' = AttachedBy(f)
    /\ Goes(f, "vectors")
    /\ UNCHANGED <<now, object, fileReference, folderOf, threadFiles, vectorstore,
                   folders, req, purged>>

\* The text is extracted, split, embedded and stored.
AddVectors(f) ==
    /\ PartAt(f, "vectors")
    /\ vectorstore' = [vectorstore EXCEPT ![f] = "all"]
    /\ Goes(f, IF part[f].kind = "chat" THEN "attach" ELSE "stored")
    /\ UNCHANGED <<now, object, fileReference, folderOf, userDocument, threadFiles,
                   chatFileId, folders, req, purged>>

\* The thread's newest file, about which the chatbot is to be asked.
AttachToThread(f) ==
    /\ PartAt(f, "attach")
    /\ chatFileId' = f
    /\ Goes(f, "stored")
    /\ UNCHANGED <<now, object, fileReference, folderOf, userDocument, threadFiles,
                   vectorstore, folders, req, purged>>

\* (Mutant of Outcome: a failure to add vectors is logged and no more.)
OutcomeLogged(f) == IF PartAt(f, "vectors") THEN "stored" ELSE "failed"

\* How an upload ends whose call rejects.
Outcome(f) == "failed"

\* A call of an upload rejects; what was written before stays.  Of the chunks
\* some may have been inserted.
FailPart(f) ==
    /\ part[f].at \in PartLabels \ {"new", "asked", "stored", "failed"}
    /\ part' = [part EXCEPT ![f].root = None, ![f].at = Outcome(f)]
    /\ \/ UNCHANGED vectorstore
       \/ PartAt(f, "vectors") /\ vectorstore' = [vectorstore EXCEPT ![f] = "some"]
    /\ UNCHANGED <<now, object, fileReference, folderOf, userDocument, threadFiles,
                   chatFileId, folders, req, purged>>

-----------------------------------------------------------------------------
(* Deletion                                                                 *)

\* DELETE /files/:id, of an id that was listed: it has had a row.
Delete(r, f) ==
    /\ At(r, "idle") /\ fileReference[f] # None
    /\ req' = [req EXCEPT ![r].at = "find", ![r].files = {f}]
    /\ UNCHANGED <<now, object, tables, folders, part, purged>>

FindFile(r, f) ==
    /\ At(r, "find") /\ req[r].files = {f}
    /\ IF fileReference[f] = None THEN Reply(r)
       ELSE req' = [req EXCEPT ![r].at = "delete_object", ![r].key = fileReference[f]]
    /\ UNCHANGED <<now, object, tables, folders, part, purged>>

\* S3 accepts the deletion of a key that is not there.
DeleteObject(r, f) ==
    /\ At(r, "delete_object") /\ req[r].files = {f}
    /\ object' = [object EXCEPT ![req[r].key] = None]
    /\ purged' = purged \cup {f}
    /\ Await(r, "delete_row")
    /\ UNCHANGED <<now, tables, folders, part>>

\* Nothing may refer to the row (ON DELETE RESTRICT), except the thread whose
\* newest file it is (ON DELETE SET NULL).
DeleteRow(r, f) ==
    /\ At(r, "delete_row") /\ req[r].files = {f}
    /\ fileReference[f] # None
    /\ folderOf[f] = None /\ userDocument[f] = "none" /\ f \notin threadFiles
    /\ fileReference' = [fileReference EXCEPT ![f] = None]
    /\ chatFileId' = IF chatFileId = f THEN None ELSE chatFileId
    /\ Reply(r)
    /\ UNCHANGED <<now, object, folderOf, userDocument, threadFiles, vectorstore,
                   folders, part, purged>>

\* DELETE /dochub/documents/:id, of a document of the user.
DeleteUserDocument(r, f) ==
    /\ At(r, "idle") /\ userDocument[f] # "none"
    /\ req' = [req EXCEPT ![r].at = "mark", ![r].files = {f}]
    /\ UNCHANGED <<now, object, tables, folders, part, purged>>

\* The document is hidden; its chunks stay.
MarkInactive(r, f) ==
    /\ At(r, "mark") /\ req[r].files = {f}
    /\ userDocument' = [userDocument EXCEPT ![f] = "inactive"]
    /\ Reply(r)
    /\ UNCHANGED <<now, object, fileReference, folderOf, threadFiles, chatFileId,
                   vectorstore, folders, part, purged>>

\* A call of a request rejects before its parts begin, or of a deletion.
Fail(r) ==
    /\ req[r].at \in Labels \ {"idle", "parts"}
    /\ Reply(r)
    /\ part' = [f \in Files |-> IF f \in req[r].files /\ PartAt(f, "asked")
                                THEN [part[f] EXCEPT !.at = "failed"] ELSE part[f]]
    /\ UNCHANGED <<now, object, tables, folders, purged>>

-----------------------------------------------------------------------------
(* Around the files                                                         *)

Tick ==
    /\ now < MaxTime /\ now' = now + 1
    /\ UNCHANGED <<object, tables, folders, part, req, purged>>

Next ==
    \/ \E r \in Requests :
         \/ \E F \in SUBSET Files, kind \in {"document", "chat"} : Upload(r, F, kind)
         \/ ReadCompany(r) \/ EnsureRoot(r) \/ CreateRoot(r) \/ Answer(r) \/ Fail(r)
         \/ \E f \in Files :
              \/ UploadPlain(r, f)
              \/ Delete(r, f) \/ FindFile(r, f) \/ DeleteObject(r, f) \/ DeleteRow(r, f)
              \/ DeleteUserDocument(r, f) \/ MarkInactive(r, f)
    \/ \E f \in Files :
         \/ Put(f) \/ CreateRow(f) \/ ValidateThread(f) \/ LinkToThread(f)
         \/ CreateDocument(f) \/ AddVectors(f) \/ AttachToThread(f) \/ FailPart(f)
    \/ Tick

Spec == Init /\ [][Next]_vars

-----------------------------------------------------------------------------
(* Properties                                                               *)

TypeOK ==
    /\ now \in 0 .. MaxTime
    /\ object \in [(0 .. MaxTime) \X Names -> Files \cup {None}]
    /\ fileReference \in [Files -> Key \cup {None}]
    /\ folderOf \in [Files -> Folders \cup {None}]
    /\ userDocument \in [Files -> {"none", "active", "inactive"}]
    /\ threadFiles \subseteq Files
    /\ chatFileId \in Files \cup {None}
    /\ vectorstore \in [Files -> {"none", "some", "all"}]
    /\ folder \subseteq Folders
    /\ rootFolderId \in Folders \cup {None}
    /\ part \in [Files -> Part]
    /\ req \in [Requests -> Request]
    /\ purged \subseteq Files

\* Another file was uploaded with the name of f in the millisecond of f.
Twin(f) ==
    \E g \in Files \ {f} :
      /\ part[g].name # None
      /\ part[g].time = part[f].time /\ part[g].name = part[f].name

\* The object a FileReference row names is there and is what was uploaded for
\* that row, whatever is uploaded, fails or is deleted beside it -- except for
\* a row whose own deletion got as far as S3 (it removes the object first and
\* often cannot remove the row), and for two files of one name uploaded in the
\* same millisecond, which share a key.
RowHasObject ==
    \A f \in Files :
      fileReference[f] # None =>
        \/ object[fileReference[f]] = f
        \/ f \in purged
        \/ Twin(f)

\* A file whose upload was answered with success has all that the upload was
\* for: the row (until its deletion), for a document of the hub its folder, its
\* entry in the user's list and its chunks, for a thread's its link, and for a
\* thread of the chatbot also the entry and the chunks.
SuccessMeansStored ==
    \A f \in Files : part[f].at = "stored" =>
      /\ fileReference[f] = None => f \in purged
      /\ part[f].kind = "document" => folderOf[f] # None
      /\ part[f].kind = "chat" => f \in threadFiles
      /\ part[f].kind = "document" \/ part[f].bot =>
           userDocument[f] # "none" /\ vectorstore[f] = "all"

\* The newest file of a thread, which the chatbot is asked about, is one of the
\* thread's files and has its chunks, whichever of several uploads finished last
\* and whatever failed or was deleted meanwhile.
ChatFileIsReady ==
    chatFileId # None =>
      /\ chatFileId \in threadFiles
      /\ fileReference[chatFileId] # None
      /\ vectorstore[chatFileId] = "all"
=============================================================================
