----------------------------- MODULE FileProofs -----------------------------
(****************************************************************************)
(* Files, for any number of uploads, requests and names: a row has its      *)
(* object, what an upload reports as done is there, and the newest file of  *)
(* a thread is one the chatbot can be asked about.                          *)
(****************************************************************************)
EXTENDS MCFileStore, FiniteSetTheorems, TLAPS

(****************************************************************************)
(* An upload writes an object and then one row after the other, while other *)
(* requests upload and delete.  The invariant says for each label what the  *)
(* upload of a file relies on there, and has left behind.                   *)
(****************************************************************************)

Keyed == PartLabels \ {"new", "asked", "failed"}  \* it has its key,

Stored == Keyed \ {"put"}                         \* its object,

Rowed == Stored \ {"row"}                         \* its row.

\* What is so of the rows of f.
PartKnows(f) ==
    /\ part[f].time \in 0 .. MaxTime
    /\ part[f].at = "new" => part[f].kind = "plain"
    /\ part[f].at \in {"new", "asked"} =>
         part[f].name = None /\ fileReference[f] = None /\ userDocument[f] = "none"
    /\ part[f].at \in Keyed \/ fileReference[f] # None => part[f].name # None
    /\ fileReference[f] # None => fileReference[f] = PartKey(f)
    /\ part[f].at \in {"put", "row"} /\ part[f].kind = "document" => part[f].root # None
    /\ part[f].at \in Rowed =>
         /\ fileReference[f] # None \/ f \in purged
         /\ part[f].kind = "document" => folderOf[f] # None
    /\ part[f].at \in {"thread", "link", "attach"} => part[f].kind = "chat"
    /\ part[f].at \in {"document", "vectors"} => part[f].kind # "plain"
    /\ part[f].at \in {"document", "vectors", "attach", "stored"} /\ part[f].kind = "chat" =>
         f \in threadFiles
    /\ part[f].bot =>
         /\ part[f].kind = "chat"
         /\ part[f].at \in {"link", "document", "vectors", "attach", "stored", "failed"}
    /\ part[f].at \in {"vectors", "attach"} => userDocument[f] # "none"
    /\ part[f].at = "attach" => vectorstore[f] = "all"
    /\ part[f].at = "stored" /\ (part[f].kind = "document" \/ part[f].bot) =>
         userDocument[f] # "none" /\ vectorstore[f] = "all"

\* The object of f is there, unless it was deleted or shares its key.
Kept(f) ==
    part[f].at \in Stored \/ fileReference[f] # None =>
        object[PartKey(f)] = f \/ f \in purged \/ Twin(f)

\* A request that has not started its uploads yet.
Preparing == {"company", "ensure", "create_root"}

\* A request that deletes.
Deleting == {"find", "delete_object", "delete_row", "find_document", "mark"}

ReqKnows(r) ==
    /\ req[r].at \in Preparing =>
         /\ req[r].files # {}
         /\ \A f \in req[r].files : part[f].at = "asked"
         /\ \A f, g \in req[r].files : part[f].kind = part[g].kind
    /\ req[r].at \in {"delete_object", "delete_row"} =>
         \E f \in Files :
           /\ req[r].files = {f} /\ req[r].key = PartKey(f) /\ part[f].name # None
           /\ req[r].at = "delete_row" => f \in purged
    /\ req[r].at \in Deleting =>
         \A f \in req[r].files : part[f].at \notin {"new", "asked"}

\* No file is uploaded by two requests.
Disjoint ==
    \A r, s \in Requests :
      r # s /\ req[r].at \in Preparing /\ req[s].at \in Preparing =>
        req[r].files \cap req[s].files = {}

\* The foreign key of the thread's files keeps their rows.
LinkedHasRow == \A f \in threadFiles : fileReference[f] # None

ChatFileKnows ==
    chatFileId # None =>
      /\ chatFileId \in threadFiles
      /\ vectorstore[chatFileId] = "all"
      /\ part[chatFileId].at = "stored"

IInv ==
    /\ TypeOK
    /\ \A f \in Files : PartKnows(f) /\ Kept(f)
    /\ \A r \in Requests : ReqKnows(r)
    /\ Disjoint /\ LinkedHasRow /\ ChatFileKnows

-----------------------------------------------------------------------------
(* Keys, and the objects under them.                                        *)

\* NULL is no id, no name and no key.
LEMMA NoneApart ==
    /\ None \notin Files /\ None \notin Folders /\ None \notin Names
    /\ None \notin Nat \X Names
BY NoneIsNoId

\* What has its key keeps it.
NamesStay ==
    \A f \in Files :
      part[f].name # None => part'[f].name = part[f].name /\ part'[f].time = part[f].time

LEMMA KeyInRange ==
    ASSUME IInv, NEW f \in Files, part[f].name # None
    PROVE  PartKey(f) \in (0 .. MaxTime) \X Names
<1>1. part[f].time \in 0 .. MaxTime /\ part[f].name \in Names
    BY DEF IInv, TypeOK, PartKnows, Part
<1> QED BY <1>1 DEF PartKey, KeyOf

\* Two files of one key were uploaded under one name in one millisecond.
LEMMA SharedKey ==
    ASSUME NEW f \in Files, NEW g \in Files, f # g, part[g].name # None,
           PartKey(f) = PartKey(g)
    PROVE  Twin(f)
BY DEF PartKey, KeyOf, Twin

LEMMA TwinStays ==
    ASSUME NamesStay, NEW f \in Files, part[f].name # None, Twin(f)
    PROVE  Twin(f)'
BY DEF NamesStay, Twin

\* Without a change in S3 a file that has its object keeps it.
LEMMA KeptStays ==
    ASSUME NamesStay, NEW f \in Files, PartKnows(f), Kept(f),
           UNCHANGED object, purged \subseteq purged',
           part'[f].at \in Stored \/ fileReference'[f] # None =>
             part[f].at \in Stored \/ fileReference[f] # None
    PROVE  Kept(f)'
<1> SUFFICES ASSUME part'[f].at \in Stored \/ fileReference'[f] # None
             PROVE  (object[PartKey(f)] = f \/ f \in purged \/ Twin(f))'
    BY DEF Kept
<1>1. part[f].name # None
    BY DEF PartKnows, Stored
<1>2. PartKey(f)' = PartKey(f)
    BY <1>1 DEF NamesStay, PartKey, KeyOf
<1> QED BY <1>1, <1>2, TwinStays DEF Kept

\* What a step that leaves the rows of f alone leaves to f.
LEMMA PartKnowsStays ==
    ASSUME NEW f \in Files, PartKnows(f), part'[f] = part[f],
           fileReference'[f] = fileReference[f], folderOf'[f] = folderOf[f],
           userDocument'[f] = userDocument[f], vectorstore'[f] = vectorstore[f],
           f \in threadFiles => f \in threadFiles', purged \subseteq purged'
    PROVE  PartKnows(f)'
BY DEF PartKnows, PartKey

\* What a step that leaves the files of request r alone leaves to r.
LEMMA ReqKnowsStays ==
    ASSUME NEW r \in Requests, ReqKnows(r), req'[r] = req[r], purged \subseteq purged',
           req[r].at \in Preparing \cup Deleting =>
             \A f \in req[r].files : part'[f] = part[f]
    PROVE  ReqKnows(r)'
<1>1. CASE req[r].at \in {"delete_object", "delete_row"}
    <2>1. PICK f \in Files :
            /\ req[r].files = {f} /\ req[r].key = PartKey(f) /\ part[f].name # None
            /\ req[r].at = "delete_row" => f \in purged
        BY <1>1 DEF ReqKnows
    <2>2. part'[f] = part[f]
        BY <1>1, <2>1 DEF Deleting
    <2>3. PartKey(f)' = PartKey(f)
        BY <2>2 DEF PartKey
    <2> QED BY <1>1, <2>1, <2>2, <2>3 DEF ReqKnows, Preparing
<1>2. CASE req[r].at \notin {"delete_object", "delete_row"}
    BY <1>2 DEF ReqKnows
<1> QED BY <1>1, <1>2

-----------------------------------------------------------------------------
(* Steps.                                                                   *)

\* A step of the upload of f.
LEMMA PartStep ==
    ASSUME IInv, TypeOK', NEW f \in Files,
           UNCHANGED <<req, purged>>,
           part[f].at \notin {"new", "asked"}, part'[f].at \notin {"new", "asked"},
           part'[f].name = part[f].name, part'[f].time = part[f].time,
           \A g \in Files \ {f} :
             /\ part'[g] = part[g] /\ fileReference'[g] = fileReference[g]
             /\ folderOf'[g] = folderOf[g] /\ userDocument'[g] = userDocument[g]
             /\ vectorstore'[g] = vectorstore[g],
           threadFiles \subseteq threadFiles',
           UNCHANGED object \/ \A g \in Files : Kept(g)',
           part'[f].at \in Stored \/ fileReference'[f] # None =>
             part[f].at \in Stored \/ fileReference[f] # None \/ Kept(f)',
           PartKnows(f)', LinkedHasRow', ChatFileKnows'
    PROVE  IInv'
<1>1. NamesStay
    BY DEF NamesStay
<1>2. ASSUME NEW g \in Files PROVE PartKnows(g)'
    BY PartKnowsStays DEF IInv
<1>3. ASSUME NEW g \in Files PROVE Kept(g)'
    <2>1. CASE g # f /\ UNCHANGED object
        BY <1>1, <2>1, KeptStays DEF IInv
    <2>2. CASE g = f /\ UNCHANGED object
        <3>1. CASE part'[f].at \in Stored \/ fileReference'[f] # None
            BY <1>1, <2>2, <3>1, KeptStays DEF IInv
        <3>2. CASE ~ (part'[f].at \in Stored \/ fileReference'[f] # None)
            BY <2>2, <3>2 DEF Kept
        <3> QED BY <3>1, <3>2
    <2> QED BY <2>1, <2>2
<1>4. ASSUME NEW r \in Requests PROVE ReqKnows(r)'
    <2>1. req[r].files \subseteq Files
        BY DEF IInv, TypeOK, Request
    <2>2. req[r].at \in Preparing => \A g \in req[r].files : g # f
        BY DEF IInv, ReqKnows
    <2>3. req[r].at \in Preparing => \A g \in req[r].files : part'[g] = part[g]
        BY <2>1, <2>2
    <2>4. ReqKnows(r)
        BY DEF IInv
    <2>5. req[r].at \in Preparing =>
            /\ req'[r].files # {}
            /\ \A g \in req'[r].files : part'[g].at = "asked"
            /\ \A g, h \in req'[r].files : part'[g].kind = part'[h].kind
        BY <2>3, <2>4 DEF ReqKnows
    <2>6. ASSUME req[r].at \in {"delete_object", "delete_row"}
          PROVE  \E g \in Files :
                   /\ req'[r].files = {g} /\ req'[r].key = PartKey(g)' /\ part'[g].name # None
                   /\ req'[r].at = "delete_row" => g \in purged'
        <3>1. PICK g \in Files :
                /\ req[r].files = {g} /\ req[r].key = PartKey(g) /\ part[g].name # None
                /\ req[r].at = "delete_row" => g \in purged
            BY <2>4, <2>6 DEF ReqKnows
        <3>2. PartKey(g)' = PartKey(g) /\ part'[g].name # None
            BY <1>1, <3>1 DEF NamesStay, PartKey, KeyOf
        <3> QED BY <3>1, <3>2
    <2>7. req[r].at \in Deleting =>
            \A g \in req'[r].files : part'[g].at \notin {"new", "asked"}
        BY <2>1, <2>4 DEF ReqKnows
    <2> QED BY <2>5, <2>6, <2>7 DEF ReqKnows
<1>5. Disjoint'
    BY DEF IInv, Disjoint
<1> QED BY <1>2, <1>3, <1>4, <1>5 DEF IInv

\* A step of request r that starts no upload.
LEMMA ReqStep ==
    ASSUME IInv, TypeOK', NEW r \in Requests, UNCHANGED part, purged \subseteq purged',
           \A s \in Requests \ {r} : req'[s] = req[s],
           req'[r].at \notin Preparing, ReqKnows(r)',
           \A f \in Files : PartKnows(f)' /\ Kept(f)',
           LinkedHasRow', ChatFileKnows'
    PROVE  IInv'
<1>1. ASSUME NEW s \in Requests PROVE ReqKnows(s)'
    <2>1. CASE s # r
        BY <2>1 DEF IInv, ReqKnows, PartKey
    <2> QED BY <2>1
<1>2. Disjoint'
    BY DEF IInv, Disjoint
<1> QED BY <1>1, <1>2 DEF IInv

\* A step of request r that changes its slot and nothing else.
LEMMA SlotStep ==
    ASSUME IInv, TypeOK', NEW r \in Requests, UNCHANGED <<object, tables, part, purged>>,
           \A s \in Requests \ {r} : req'[s] = req[s],
           req'[r].at \notin Preparing, ReqKnows(r)'
    PROVE  IInv'
<1>1. ASSUME NEW f \in Files PROVE PartKnows(f)' /\ Kept(f)'
    BY DEF IInv, PartKnows, Kept, PartKey, Twin, tables
<1>2. LinkedHasRow' /\ ChatFileKnows'
    BY DEF IInv, LinkedHasRow, ChatFileKnows, tables
<1> QED BY <1>1, <1>2, ReqStep DEF tables

\* Request r starts the uploads of F, which only it has asked for.
LEMMA StartStep ==
    ASSUME IInv, TypeOK', NEW r \in Requests, NEW F \in SUBSET Files,
           NEW root \in Folders \cup {None}, Start(F, root),
           UNCHANGED <<object, tables, purged>>,
           \A f \in F : /\ part[f].at \in {"new", "asked"}
                        /\ part[f].kind = "document" => root # None,
           \A s \in Requests \ {r} :
             req'[s] = req[s] /\ (req[s].at \in Preparing => req[s].files \cap F = {}),
           req'[r].at = "parts"
    PROVE  IInv'
<1>1. PICK names \in [F -> Names] :
        part' = [f \in Files |->
                   IF f \in F
                   THEN [part[f] EXCEPT !.at = "put", !.time = now,
                                        !.name = names[f], !.root = root]
                   ELSE part[f]]
    BY DEF Start
<1>2. NamesStay
    BY <1>1 DEF IInv, PartKnows, NamesStay
<1>3. ASSUME NEW f \in F PROVE PartKnows(f)' /\ Kept(f)'
    <2>1. /\ part'[f].at = "put" /\ part'[f].time = now /\ part'[f].name = names[f]
          /\ part'[f].root = root /\ part'[f].kind = part[f].kind /\ part'[f].bot = part[f].bot
        <3>1. part[f] \in Part
            BY DEF IInv, TypeOK
        <3>2. part'[f] = [part[f] EXCEPT !.at = "put", !.time = now,
                                         !.name = names[f], !.root = root]
            BY <1>1
        <3> QED BY <3>1, <3>2 DEF Part
    <2>2. names[f] # None /\ now \in 0 .. MaxTime
        BY NoneApart DEF IInv, TypeOK
    <2>3. /\ fileReference[f] = None /\ part[f].at \in {"new", "asked"} /\ ~ part[f].bot
          /\ part[f].kind = "document" => root # None
        BY DEF IInv, PartKnows
    <2> QED BY <2>1, <2>2, <2>3 DEF PartKnows, Kept, Keyed, Stored, Rowed, tables
<1>4. ASSUME NEW f \in Files \ F PROVE PartKnows(f)' /\ Kept(f)'
    <2>1. part'[f] = part[f]
        BY <1>1
    <2> QED BY <1>2, <2>1, PartKnowsStays, KeptStays DEF IInv, tables
<1>5. ASSUME NEW s \in Requests PROVE ReqKnows(s)'
    <2>1. CASE s = r
        BY <2>1 DEF ReqKnows, Preparing, Deleting
    <2>2. CASE s # r
        <3>1. ASSUME req[s].at \in Preparing
              PROVE  \A f \in req[s].files : part'[f] = part[f]
            BY <1>1, <2>2, <3>1 DEF IInv, TypeOK, Request
        <3>2. ASSUME req[s].at \in Deleting, NEW f \in req[s].files
              PROVE  part'[f] = part[f]
            <4>1. f \in Files /\ part[f].at \notin {"new", "asked"}
                BY <3>2 DEF IInv, TypeOK, Request, ReqKnows
            <4> QED BY <1>1, <4>1
        <3>3. ReqKnows(s) /\ req'[s] = req[s] /\ purged' = purged
            BY <2>2 DEF IInv
        <3> QED BY <3>1, <3>2, <3>3, ReqKnowsStays
    <2> QED BY <2>1, <2>2
<1>6. Disjoint' /\ LinkedHasRow' /\ ChatFileKnows'
    <2>1. Disjoint'
        BY DEF IInv, Disjoint, Preparing
    <2>2. LinkedHasRow'
        BY DEF IInv, LinkedHasRow, tables
    <2>3. chatFileId # None => chatFileId \in Files \ F
        BY DEF IInv, TypeOK, ChatFileKnows
    <2>4. chatFileId # None => part'[chatFileId] = part[chatFileId]
        BY <1>1, <2>3
    <2> QED BY <2>1, <2>2, <2>4 DEF IInv, ChatFileKnows, tables
<1> QED BY <1>3, <1>4, <1>5, <1>6 DEF IInv

-----------------------------------------------------------------------------
(* Types.                                                                   *)

\* The record of an upload that goes on, or that ends.
LEMMA GoesTyped ==
    ASSUME TypeOK, NEW f \in Files, NEW label \in PartLabels,
           \/ Goes(f, label)
           \/ part' = [part EXCEPT ![f].root = None, ![f].at = label]
           \/ \E bot \in BOOLEAN : part' = [part EXCEPT ![f].bot = bot, ![f].at = label]
    PROVE  part' \in [Files -> Part]
<1>1. part[f] \in Part /\ part \in [Files -> Part]
    BY DEF TypeOK
<1>2. CASE Goes(f, label)
    <2>1. [part[f] EXCEPT !.at = label] \in Part
        BY <1>1 DEF Part
    <2> QED BY <1>1, <1>2, <2>1 DEF Goes
<1>3. CASE part' = [part EXCEPT ![f].root = None, ![f].at = label]
    <2>1. [part[f] EXCEPT !.root = None, !.at = label] \in Part
        BY <1>1 DEF Part
    <2>2. part' = [part EXCEPT ![f] = [part[f] EXCEPT !.root = None, !.at = label]]
        BY <1>1, <1>3
    <2> QED BY <1>1, <2>1, <2>2
<1>4. ASSUME NEW bot \in BOOLEAN,
             part' = [part EXCEPT ![f].bot = bot, ![f].at = label]
      PROVE  part' \in [Files -> Part]
    <2>1. [part[f] EXCEPT !.bot = bot, !.at = label] \in Part
        BY <1>1 DEF Part
    <2>2. part' = [part EXCEPT ![f] = [part[f] EXCEPT !.bot = bot, !.at = label]]
        BY <1>1, <1>4
    <2> QED BY <1>1, <2>1, <2>2
<1> QED BY <1>2, <1>3, <1>4

\* The records of the uploads F that start.
LEMMA StartTyped ==
    ASSUME TypeOK, NEW F \in SUBSET Files, NEW root \in Folders \cup {None},
           Start(F, root)
    PROVE  part' \in [Files -> Part]
<1>1. PICK names \in [F -> Names] :
        part' = [f \in Files |->
                   IF f \in F
                   THEN [part[f] EXCEPT !.at = "put", !.time = now,
                                        !.name = names[f], !.root = root]
                   ELSE part[f]]
    BY DEF Start
<1>2. ASSUME NEW f \in F
      PROVE  [part[f] EXCEPT !.at = "put", !.time = now,
                             !.name = names[f], !.root = root] \in Part
    <2>1. part[f] \in Part /\ now \in Nat /\ names[f] \in Names
        BY TimeType DEF TypeOK
    <2> QED BY <2>1 DEF Part, PartLabels
<1> QED BY <1>1, <1>2 DEF TypeOK

\* What an upload of f that has its key writes.
LEMMA PartTyped ==
    ASSUME TypeOK, NEW f \in Files, PartKnows(f),
           \/ Put(f) \/ CreateRow(f) \/ ValidateThread(f) \/ LinkToThread(f)
           \/ CreateDocument(f) \/ AddVectors(f) \/ AttachToThread(f) \/ FailPart(f)
    PROVE  TypeOK'
<1> USE DEF tables, folders
<1>1. CASE Put(f)
    <2>1. part' \in [Files -> Part]
        BY <1>1, GoesTyped DEF Put, PartLabels
    <2> QED BY <1>1, <2>1 DEF Put, TypeOK
<1>2. CASE CreateRow(f)
    <2>1. part[f] \in Part /\ part[f].name # None
        BY <1>2 DEF TypeOK, CreateRow, PartKnows, PartAt, Keyed, PartLabels
    <2>2. PartKey(f) \in Key /\ AfterRow(part[f].kind) \in PartLabels
            /\ part[f].root \in Folders \cup {None}
        BY <2>1 DEF PartKey, KeyOf, Key, Part, AfterRow, Kinds, PartLabels
    <2>3. part' \in [Files -> Part]
        BY <1>2, <2>2, GoesTyped DEF CreateRow
    <2> QED BY <1>2, <2>2, <2>3 DEF CreateRow, TypeOK
<1>3. CASE ValidateThread(f)
    <2>1. part' \in [Files -> Part]
        BY <1>3, GoesTyped DEF ValidateThread, PartLabels
    <2> QED BY <1>3, <2>1 DEF ValidateThread, TypeOK
<1>4. CASE LinkToThread(f)
    <2>1. part' \in [Files -> Part]
        BY <1>4, GoesTyped DEF LinkToThread, PartLabels
    <2> QED BY <1>4, <2>1 DEF LinkToThread, TypeOK
<1>5. CASE CreateDocument(f)
    <2>1. part' \in [Files -> Part]
        BY <1>5, GoesTyped DEF CreateDocument, PartLabels
    <2> QED BY <1>5, <2>1 DEF CreateDocument, TypeOK, AttachedBy
<1>6. CASE AddVectors(f)
    <2>1. part' \in [Files -> Part]
        BY <1>6, GoesTyped DEF AddVectors, PartLabels
    <2> QED BY <1>6, <2>1 DEF AddVectors, TypeOK
<1>7. CASE AttachToThread(f)
    <2>1. part' \in [Files -> Part]
        BY <1>7, GoesTyped DEF AttachToThread, PartLabels
    <2> QED BY <1>7, <2>1 DEF AttachToThread, TypeOK
<1>8. CASE FailPart(f)
    <2>1. part' \in [Files -> Part]
        BY <1>8, GoesTyped DEF FailPart, Outcome, PartLabels
    <2> QED BY <1>8, <2>1 DEF FailPart, TypeOK
<1> QED BY <1>1, <1>2, <1>3, <1>4, <1>5, <1>6, <1>7, <1>8

\* The record of a request that goes on.
LEMMA ReqTyped ==
    ASSUME TypeOK, NEW r \in Requests, NEW label \in Labels,
           \/ Await(r, label)
           \/ Reply(r)
           \/ \E F \in SUBSET Files :
                req' = [req EXCEPT ![r].at = label, ![r].files = F]
           \/ \E key \in Key \cup {None} :
                req' = [req EXCEPT ![r].at = label, ![r].key = key]
    PROVE  req' \in [Requests -> Request]
<1>1. req[r] \in Request /\ req \in [Requests -> Request]
    BY DEF TypeOK
<1>2. CASE Await(r, label)
    <2>1. [req[r] EXCEPT !.at = label] \in Request
        BY <1>1 DEF Request
    <2> QED BY <1>1, <1>2, <2>1 DEF Await
<1>3. CASE Reply(r)
    <2>1. NoRequest \in Request
        BY DEF NoRequest, Request, Labels
    <2> QED BY <1>1, <1>3, <2>1 DEF Reply
<1>4. ASSUME NEW F \in SUBSET Files,
             req' = [req EXCEPT ![r].at = label, ![r].files = F]
      PROVE  req' \in [Requests -> Request]
    <2>1. [req[r] EXCEPT !.at = label, !.files = F] \in Request
        BY <1>1 DEF Request
    <2>2. req' = [req EXCEPT ![r] = [req[r] EXCEPT !.at = label, !.files = F]]
        BY <1>1, <1>4
    <2> QED BY <1>1, <2>1, <2>2
<1>5. ASSUME NEW key \in Key \cup {None},
             req' = [req EXCEPT ![r].at = label, ![r].key = key]
      PROVE  req' \in [Requests -> Request]
    <2>1. [req[r] EXCEPT !.at = label, !.key = key] \in Request
        BY <1>1 DEF Request
    <2>2. req' = [req EXCEPT ![r] = [req[r] EXCEPT !.at = label, !.key = key]]
        BY <1>1, <1>5
    <2> QED BY <1>1, <2>1, <2>2
<1> QED BY <1>2, <1>3, <1>4, <1>5

\* What an upload writes before it has a key.
LEMMA UploadTyped ==
    ASSUME TypeOK, NEW r \in Requests,
           \/ \E F \in SUBSET Files, kind \in {"document", "chat"} : Upload(r, F, kind)
           \/ \E f \in Files : UploadPlain(r, f)
           \/ ReadCompany(r) \/ EnsureRoot(r) \/ CreateRoot(r) \/ Answer(r) \/ Fail(r)
    PROVE  TypeOK'
<1> USE DEF tables, folders
<1>1. ASSUME NEW F \in SUBSET Files, NEW kind \in {"document", "chat"}, Upload(r, F, kind)
      PROVE  TypeOK'
    <2>1. req' \in [Requests -> Request]
        BY <1>1, ReqTyped DEF Upload, Labels
    <2>2. ASSUME NEW f \in F
          PROVE  [part[f] EXCEPT !.at = "asked", !.kind = kind] \in Part
        <3>1. part[f] \in Part
            BY DEF TypeOK
        <3> QED BY <3>1 DEF Part, PartLabels, Kinds
    <2>3. part' \in [Files -> Part]
        BY <1>1, <2>2 DEF Upload, TypeOK
    <2> QED BY <1>1, <2>1, <2>3 DEF Upload, TypeOK
<1>2. ASSUME NEW f \in Files, UploadPlain(r, f)
      PROVE  TypeOK'
    <2>1. req' \in [Requests -> Request]
        BY <1>2, ReqTyped DEF UploadPlain, Labels
    <2> QED BY <1>2, <2>1, StartTyped DEF UploadPlain, TypeOK
<1>3. CASE ReadCompany(r) \/ EnsureRoot(r) \/ CreateRoot(r)
    <2>1. req' \in [Requests -> Request]
        BY <1>3, ReqTyped DEF ReadCompany, EnsureRoot, CreateRoot, Labels
    <2>2. req[r].files \in SUBSET Files /\ rootFolderId \in Folders \cup {None}
        BY DEF TypeOK, Request
    <2>3. part' \in [Files -> Part]
        BY <1>3, <2>2, StartTyped DEF ReadCompany, EnsureRoot, CreateRoot, TypeOK
    <2> QED BY <1>3, <2>1, <2>3 DEF ReadCompany, EnsureRoot, CreateRoot, TypeOK
<1>4. CASE Answer(r)
    <2>1. req' \in [Requests -> Request]
        BY <1>4, ReqTyped DEF Answer, Labels
    <2> QED BY <1>4, <2>1 DEF Answer, TypeOK
<1>5. CASE Fail(r)
    <2>1. req' \in [Requests -> Request]
        BY <1>5, ReqTyped DEF Fail, Labels
    <2>2. ASSUME NEW f \in Files
          PROVE  [part[f] EXCEPT !.at = "failed"] \in Part
        BY DEF TypeOK, Part, PartLabels
    <2>3. part' \in [Files -> Part]
        BY <1>5, <2>2 DEF Fail, TypeOK
    <2> QED BY <1>5, <2>1, <2>3 DEF Fail, TypeOK
<1> QED BY <1>1, <1>2, <1>3, <1>4, <1>5

\* What a deletion writes.
LEMMA DeletionTyped ==
    ASSUME TypeOK, NEW r \in Requests, NEW f \in Files,
           \/ Delete(r, f) \/ FindFile(r, f) \/ DeleteObject(r, f) \/ DeleteRow(r, f)
           \/ DeleteUserDocument(r, f) \/ MarkInactive(r, f)
    PROVE  TypeOK'
<1> USE DEF tables, folders
<1>1. req' \in [Requests -> Request]
    <2>1. fileReference[f] \in Key \cup {None} /\ {f} \in SUBSET Files
        BY DEF TypeOK
    <2> QED BY <2>1, ReqTyped DEF Delete, FindFile, DeleteObject, DeleteRow,
                DeleteUserDocument, MarkInactive, Labels
<1>2. CASE Delete(r, f) \/ FindFile(r, f) \/ DeleteUserDocument(r, f)
    BY <1>1, <1>2 DEF Delete, FindFile, DeleteUserDocument, TypeOK
<1>3. CASE DeleteObject(r, f)
    BY <1>1, <1>3 DEF DeleteObject, TypeOK
<1>4. CASE DeleteRow(r, f)
    BY <1>1, <1>4 DEF DeleteRow, TypeOK
<1>5. CASE MarkInactive(r, f)
    BY <1>1, <1>5 DEF MarkInactive, TypeOK
<1> QED BY <1>2, <1>3, <1>4, <1>5

-----------------------------------------------------------------------------
(* The uploads of a request, from its arrival to its answer.                *)

LEMMA UploadPlainStep ==
    ASSUME IInv, NEW r \in Requests, NEW f \in Files, UploadPlain(r, f)
    PROVE  IInv'
<1>1. TypeOK'
    BY UploadTyped DEF IInv
<1>2. part[f].at = "new" /\ part[f].kind = "plain"
    BY DEF IInv, UploadPlain, PartKnows
<1>3. ASSUME NEW s \in Requests \ {r}
      PROVE  req'[s] = req[s] /\ (req[s].at \in Preparing => req[s].files \cap {f} = {})
    <2>1. req'[s] = req[s]
        BY DEF IInv, TypeOK, UploadPlain
    <2>2. ASSUME req[s].at \in Preparing PROVE f \notin req[s].files
        BY <1>2, <2>2 DEF IInv, ReqKnows
    <2> QED BY <2>1, <2>2
<1>4. req'[r].at = "parts"
    BY DEF IInv, UploadPlain, TypeOK, Request
<1>5. Start({f}, None) /\ UNCHANGED <<object, tables, purged>>
    BY DEF UploadPlain
<1> QED BY <1>1, <1>2, <1>3, <1>4, <1>5, StartStep

\* Request r starts what it has asked for, in the folder root.
LEMMA RequestStarts ==
    ASSUME IInv, TypeOK', NEW r \in Requests, NEW root \in Folders \cup {None},
           req[r].at \in Preparing, Await(r, "parts"), Start(req[r].files, root),
           Kind(r) = "document" => root # None,
           UNCHANGED <<object, tables, purged>>
    PROVE  IInv'
<1>1. /\ req[r].files # {} /\ \A f \in req[r].files : part[f].at = "asked"
      /\ \A f, g \in req[r].files : part[f].kind = part[g].kind
    BY DEF IInv, ReqKnows
<1>2. PICK g \in req[r].files : Kind(r) = part[g].kind
    BY <1>1 DEF Kind
<1>3. \A f \in req[r].files : /\ part[f].at \in {"new", "asked"}
                              /\ part[f].kind = "document" => root # None
    BY <1>1, <1>2
<1>4. req'[r].at = "parts" /\ \A s \in Requests \ {r} : req'[s] = req[s]
    BY DEF IInv, TypeOK, Request, Await
<1>5. \A s \in Requests \ {r} :
        req[s].at \in Preparing => req[s].files \cap req[r].files = {}
    BY DEF IInv, Disjoint
<1>6. req[r].files \in SUBSET Files
    BY DEF IInv, TypeOK, Request
<1> QED BY <1>3, <1>4, <1>5, <1>6, StartStep

\* Request r looks for the root folder once more.
LEMMA StillPreparing ==
    ASSUME IInv, TypeOK', NEW r \in Requests, NEW label \in Preparing,
           req[r].at \in Preparing, Await(r, label),
           UNCHANGED <<object, tables, part, purged>>
    PROVE  IInv'
<1>1. req'[r].at = label /\ req'[r].files = req[r].files
    BY DEF IInv, TypeOK, Request, Await
<1>2. \A s \in Requests \ {r} : req'[s] = req[s]
    BY DEF IInv, TypeOK, Await
<1>3. ASSUME NEW f \in Files PROVE PartKnows(f)' /\ Kept(f)'
    BY DEF IInv, PartKnows, Kept, PartKey, Twin, tables
<1>4. LinkedHasRow' /\ ChatFileKnows'
    BY DEF IInv, LinkedHasRow, ChatFileKnows, tables
<1>5. ReqKnows(r)'
    BY <1>1 DEF IInv, ReqKnows, Preparing, Deleting
<1>6. ASSUME NEW s \in Requests \ {r} PROVE ReqKnows(s)'
    BY <1>2 DEF IInv, ReqKnows, PartKey
<1>7. Disjoint'
    <2> SUFFICES ASSUME NEW s \in Requests, NEW t \in Requests, s # t,
                        req'[s].at \in Preparing, req'[t].at \in Preparing
                 PROVE  req'[s].files \cap req'[t].files = {}
        BY DEF Disjoint
    <2>1. req[s].at \in Preparing /\ req[t].at \in Preparing
        BY <1>2
    <2>2. req'[s].files = req[s].files /\ req'[t].files = req[t].files
        BY <1>1, <1>2
    <2> QED BY <2>1, <2>2 DEF IInv, Disjoint
<1> QED BY <1>3, <1>4, <1>5, <1>6, <1>7 DEF IInv

LEMMA ReadCompanyStep ==
    ASSUME IInv, NEW r \in Requests, ReadCompany(r)
    PROVE  IInv'
<1>1. TypeOK'
    BY UploadTyped DEF IInv
<1>2. req[r].at \in Preparing /\ UNCHANGED <<object, tables, purged>>
    BY DEF ReadCompany, At, Preparing
<1>3. CASE Kind(r) = "document" /\ rootFolderId = None
    BY <1>1, <1>2, <1>3, StillPreparing DEF ReadCompany, Preparing
<1>4. CASE ~ (Kind(r) = "document" /\ rootFolderId = None)
    <2>1. rootFolderId \in Folders \cup {None}
        BY DEF IInv, TypeOK
    <2> QED BY <1>1, <1>2, <1>4, <2>1, RequestStarts DEF ReadCompany
<1> QED BY <1>3, <1>4

LEMMA EnsureRootStep ==
    ASSUME IInv, NEW r \in Requests, EnsureRoot(r)
    PROVE  IInv'
<1>1. TypeOK'
    BY UploadTyped DEF IInv
<1>2. req[r].at \in Preparing /\ UNCHANGED <<object, tables, purged>>
    BY DEF EnsureRoot, At, Preparing
<1>3. CASE rootFolderId = None
    BY <1>1, <1>2, <1>3, StillPreparing DEF EnsureRoot, Preparing
<1>4. CASE rootFolderId # None
    <2>1. rootFolderId \in Folders \cup {None}
        BY DEF IInv, TypeOK
    <2> QED BY <1>1, <1>2, <1>4, <2>1, RequestStarts DEF EnsureRoot
<1> QED BY <1>3, <1>4

LEMMA CreateRootStep ==
    ASSUME IInv, NEW r \in Requests, CreateRoot(r)
    PROVE  IInv'
<1>1. TypeOK'
    BY UploadTyped DEF IInv
<1>2. req[r].at \in Preparing /\ UNCHANGED <<object, tables, purged>>
    BY DEF CreateRoot, At, Preparing
<1>3. PICK d \in Folders : Start(req[r].files, d)
    BY DEF CreateRoot
<1>4. d # None
    BY NoneApart
<1> QED BY <1>1, <1>2, <1>3, <1>4, RequestStarts DEF CreateRoot

\* A request that is answered.
LEMMA ReplyStep ==
    ASSUME IInv, TypeOK', NEW r \in Requests, Reply(r),
           UNCHANGED <<object, tables, part, purged>>
    PROVE  IInv'
<1>1. req'[r].at = "idle" /\ \A s \in Requests \ {r} : req'[s] = req[s]
    BY DEF IInv, TypeOK, Reply, NoRequest
<1> QED BY <1>1, SlotStep DEF ReqKnows, Preparing, Deleting

LEMMA AnswerStep ==
    ASSUME IInv, NEW r \in Requests, Answer(r)
    PROVE  IInv'
BY UploadTyped, ReplyStep DEF IInv, Answer

\* A request asks for F, of which no upload has begun.
LEMMA UploadStep ==
    ASSUME IInv, NEW r \in Requests, NEW F \in SUBSET Files, NEW kind \in Kinds,
           Upload(r, F, kind), TypeOK'
    PROVE  IInv'
<1>1. ASSUME NEW f \in F
      PROVE  /\ part[f].at = "new" /\ part'[f].at = "asked" /\ part'[f].kind = kind
             /\ part'[f].name = part[f].name /\ part'[f].time = part[f].time
             /\ part'[f].root = part[f].root /\ part'[f].bot = part[f].bot
    <2>1. part[f] \in Part
        BY DEF IInv, TypeOK
    <2>2. part[f].at = "new" /\ part'[f] = [part[f] EXCEPT !.at = "asked", !.kind = kind]
        BY DEF Upload
    <2> QED BY <2>1, <2>2 DEF Part
<1>2. \A f \in Files \ F : part'[f] = part[f]
    BY DEF Upload
<1>3. NamesStay
    BY <1>1, <1>2 DEF NamesStay
<1>4. req'[r].at = "company" /\ req'[r].files = F /\ \A s \in Requests \ {r} : req'[s] = req[s]
    BY DEF IInv, TypeOK, Request, Upload
<1>5. ASSUME NEW f \in F PROVE PartKnows(f)' /\ Kept(f)'
    <2>1. /\ part[f].name = None /\ fileReference[f] = None /\ userDocument[f] = "none"
          /\ ~ part[f].bot /\ part[f].time \in 0 .. MaxTime
        BY <1>1 DEF IInv, PartKnows
    <2> QED BY <1>1, <2>1 DEF PartKnows, Kept, Keyed, Stored, Rowed, tables, Upload
<1>6. ASSUME NEW f \in Files \ F PROVE PartKnows(f)' /\ Kept(f)'
    BY <1>2, <1>3, PartKnowsStays, KeptStays DEF IInv, tables, Upload
<1>7. ASSUME NEW s \in Requests \ {r}, req[s].at \in Preparing \cup Deleting
      PROVE  req[s].files \subseteq Files \ F
    <2> SUFFICES ASSUME NEW f \in req[s].files PROVE f \in Files /\ part[f].at # "new"
        BY <1>1
    <2> QED BY <1>7 DEF IInv, TypeOK, Request, ReqKnows
<1>8. ASSUME NEW s \in Requests PROVE ReqKnows(s)'
    <2>1. CASE s = r
        <3>1. /\ \A f \in F : part'[f].at = "asked"
              /\ \A f, g \in F : part'[f].kind = part'[g].kind
            BY <1>1
        <3>3. F # {}
            BY DEF Upload
        <3>2. req'[s].at = "company" /\ req'[s].files = F
            BY <1>4, <2>1
        <3> QED BY <3>1, <3>2, <3>3 DEF ReqKnows, Preparing, Deleting
    <2>2. CASE s # r
        <3>1. req[s].at \in Preparing \cup Deleting =>
                \A f \in req[s].files : part'[f] = part[f]
            BY <1>2, <1>7, <2>2
        <3>2. ReqKnows(s) /\ req'[s] = req[s] /\ purged' = purged
            BY <1>4, <2>2 DEF IInv, Upload
        <3> QED BY <3>1, <3>2, ReqKnowsStays
    <2> QED BY <2>1, <2>2
<1>9. Disjoint'
    <2> SUFFICES ASSUME NEW s \in Requests, NEW t \in Requests, s # t,
                        req'[s].at \in Preparing, req'[t].at \in Preparing
                 PROVE  req'[s].files \cap req'[t].files = {}
        BY DEF Disjoint
    <2>1. CASE s # r /\ t # r
        BY <1>4, <2>1 DEF IInv, Disjoint
    <2>2. CASE s = r
        BY <1>4, <1>7, <2>2
    <2>3. CASE t = r
        BY <1>4, <1>7, <2>3
    <2> QED BY <2>1, <2>2, <2>3
<1>10. LinkedHasRow' /\ ChatFileKnows'
    <2>1. chatFileId # None => chatFileId \in Files \ F
        BY <1>1 DEF IInv, TypeOK, ChatFileKnows
    <2> QED BY <1>2, <2>1 DEF IInv, LinkedHasRow, ChatFileKnows, tables, Upload
<1> QED BY <1>5, <1>6, <1>8, <1>9, <1>10 DEF IInv

\* A call of request r rejects: what it has asked for fails.
LEMMA FailStep ==
    ASSUME IInv, NEW r \in Requests, Fail(r), TypeOK'
    PROVE  IInv'
<1> DEFINE G == {f \in req[r].files : part[f].at = "asked"}
<1>1. req[r].files \subseteq Files
    BY DEF IInv, TypeOK, Request
<1>2. ASSUME NEW f \in G
      PROVE  /\ part[f].at = "asked" /\ part'[f].at = "failed" /\ part'[f].kind = part[f].kind
             /\ part'[f].name = part[f].name /\ part'[f].time = part[f].time
             /\ part'[f].root = part[f].root /\ part'[f].bot = part[f].bot
    <2>1. part[f] \in Part /\ f \in Files
        BY <1>1 DEF IInv, TypeOK
    <2>2. part'[f] = [part[f] EXCEPT !.at = "failed"]
        BY <2>1 DEF Fail, PartAt
    <2> QED BY <2>1, <2>2 DEF Part
<1>3. \A f \in Files \ G : part'[f] = part[f]
    BY DEF Fail, PartAt
<1>4. NamesStay
    BY <1>2, <1>3 DEF NamesStay
<1>5. req'[r].at = "idle" /\ \A s \in Requests \ {r} : req'[s] = req[s]
    BY DEF IInv, TypeOK, Fail, Reply, NoRequest
<1>6. ASSUME NEW f \in G PROVE PartKnows(f)' /\ Kept(f)'
    <2>1. /\ part[f].name = None /\ fileReference[f] = None /\ ~ part[f].bot
          /\ part[f].time \in 0 .. MaxTime
        BY <1>1, <1>2 DEF IInv, PartKnows
    <2> QED BY <1>2, <2>1 DEF PartKnows, Kept, Keyed, Stored, Rowed, tables, Fail
<1>7. ASSUME NEW f \in Files \ G PROVE PartKnows(f)' /\ Kept(f)'
    <2>1. part'[f] = part[f]
        BY <1>3
    <2> QED BY <1>4, <2>1, PartKnowsStays, KeptStays DEF IInv, tables, Fail
<1>8. G # {} => req[r].at \in Preparing
    BY DEF IInv, Fail, Labels, ReqKnows, Deleting, Preparing
<1>9. ASSUME NEW s \in Requests \ {r}, req[s].at \in Preparing \cup Deleting
      PROVE  \A f \in req[s].files : part'[f] = part[f]
    <2>1. CASE req[s].at \in Preparing
        <3>1. req[s].files \cap G = {}
            BY <1>8, <2>1 DEF IInv, Disjoint
        <3>2. req[s].files \subseteq Files
            BY DEF IInv, TypeOK, Request
        <3> QED BY <1>3, <3>1, <3>2
    <2>2. CASE req[s].at \in Deleting
        <3>1. \A f \in req[s].files : f \in Files /\ part[f].at # "asked"
            BY <2>2 DEF IInv, TypeOK, Request, ReqKnows
        <3> QED BY <1>3, <3>1
    <2> QED BY <1>9, <2>1, <2>2
<1>10. ASSUME NEW s \in Requests PROVE ReqKnows(s)'
    <2>1. CASE s = r
        BY <1>5, <2>1 DEF ReqKnows, Preparing, Deleting
    <2>2. CASE s # r
        <3>1. ReqKnows(s) /\ req'[s] = req[s] /\ purged' = purged
            BY <1>5, <2>2 DEF IInv, Fail
        <3> QED BY <1>9, <2>2, <3>1, ReqKnowsStays
    <2> QED BY <2>1, <2>2
<1>11. Disjoint'
    BY <1>5 DEF IInv, Disjoint, Preparing
<1>12. LinkedHasRow' /\ ChatFileKnows'
    <2>1. chatFileId # None => chatFileId \in Files \ G
        BY DEF IInv, TypeOK, ChatFileKnows
    <2> QED BY <1>3, <2>1 DEF IInv, LinkedHasRow, ChatFileKnows, tables, Fail
<1> QED BY <1>6, <1>7, <1>10, <1>11, <1>12 DEF IInv

-----------------------------------------------------------------------------
(* Deletion.                                                                *)

\* DELETE of a file, or of a document, that was listed.
LEMMA DeleteStep ==
    ASSUME IInv, NEW r \in Requests, NEW f \in Files,
           Delete(r, f) \/ DeleteUserDocument(r, f)
    PROVE  IInv'
<1>1. TypeOK'
    BY DeletionTyped DEF IInv
<1>2. req'[r].at \in {"find", "mark"} /\ req'[r].files = {f}
        /\ \A s \in Requests \ {r} : req'[s] = req[s]
    BY DEF IInv, TypeOK, Request, Delete, DeleteUserDocument
<1>3. part[f].at \notin {"new", "asked"}
    BY DEF IInv, PartKnows, Delete, DeleteUserDocument
<1>4. UNCHANGED <<object, tables, part, purged>>
    BY DEF Delete, DeleteUserDocument
<1>5. ReqKnows(r)'
    BY <1>2, <1>3, <1>4 DEF ReqKnows, Preparing
<1> QED BY <1>1, <1>2, <1>4, <1>5, SlotStep DEF Preparing

LEMMA FindFileStep ==
    ASSUME IInv, NEW r \in Requests, NEW f \in Files, FindFile(r, f)
    PROVE  IInv'
<1>1. TypeOK'
    BY DeletionTyped DEF IInv
<1>2. UNCHANGED <<object, tables, part, purged>>
    BY DEF FindFile
<1>3. CASE fileReference[f] = None
    BY <1>1, <1>2, <1>3, ReplyStep DEF FindFile
<1>4. CASE fileReference[f] # None
    <2>1. /\ req'[r].at = "delete_object" /\ req'[r].files = {f}
          /\ req'[r].key = fileReference[f]
          /\ \A s \in Requests \ {r} : req'[s] = req[s]
        BY <1>4 DEF IInv, TypeOK, Request, FindFile
    <2>2. fileReference[f] = PartKey(f) /\ part[f].name # None
            /\ part[f].at \notin {"new", "asked"}
        BY <1>4 DEF IInv, PartKnows
    <2>3. PartKey(f)' = PartKey(f) /\ part' = part
        BY <1>2 DEF PartKey
    <2>4. ReqKnows(r)'
        BY <2>1, <2>2, <2>3 DEF ReqKnows, Preparing
    <2> QED BY <1>1, <1>2, <2>1, <2>4, SlotStep DEF Preparing
<1> QED BY <1>3, <1>4

\* The object goes under the key of f: whoever has that key too is its twin.
LEMMA DeleteObjectStep ==
    ASSUME IInv, NEW r \in Requests, NEW f \in Files, DeleteObject(r, f)
    PROVE  IInv'
<1>1. TypeOK'
    BY DeletionTyped DEF IInv
<1>2. req[r].key = PartKey(f) /\ part[f].name # None /\ part[f].at \notin {"new", "asked"}
    BY DEF IInv, ReqKnows, DeleteObject, At, Deleting
<1>3. UNCHANGED <<tables, part>> /\ purged' = purged \cup {f}
        /\ object' = [object EXCEPT ![PartKey(f)] = None]
    BY <1>2 DEF DeleteObject
<1>4. /\ req'[r].at = "delete_row" /\ req'[r].files = {f} /\ req'[r].key = PartKey(f)
      /\ \A s \in Requests \ {r} : req'[s] = req[s]
    BY <1>2 DEF IInv, TypeOK, Request, DeleteObject, Await
<1>5. ASSUME NEW g \in Files PROVE Kept(g)'
    <2>1. CASE g = f
        BY <1>3, <2>1 DEF Kept
    <2>2. CASE g # f /\ (part[g].at \in Stored \/ fileReference[g] # None)
        <3>1. part[g].name # None /\ Kept(g)
            BY <2>2 DEF IInv, PartKnows, Stored
        <3>2. CASE PartKey(g) = PartKey(f)
            BY <1>2, <1>3, <2>2, <3>2, SharedKey DEF Kept, Twin
        <3>3. CASE PartKey(g) # PartKey(f)
            <4>1. PartKey(g) \in (0 .. MaxTime) \X Names
                BY <3>1, KeyInRange
            <4>2. object'[PartKey(g)] = object[PartKey(g)]
                BY <1>3, <3>3, <4>1 DEF IInv, TypeOK
            <4>3. PartKey(g)' = PartKey(g) /\ (Twin(g) => Twin(g)')
                BY <1>3 DEF PartKey, Twin
            <4> QED BY <1>3, <2>2, <3>1, <4>2, <4>3 DEF Kept
        <3> QED BY <3>2, <3>3
    <2>3. CASE ~ (part[g].at \in Stored \/ fileReference[g] # None)
        BY <1>3, <2>3 DEF Kept, tables
    <2> QED BY <2>1, <2>2, <2>3
<1>6. ASSUME NEW g \in Files PROVE PartKnows(g)'
    BY <1>3, PartKnowsStays DEF IInv, tables
<1>7. ReqKnows(r)'
    <2>1. PartKey(f)' = PartKey(f) /\ part' = part /\ f \in purged'
        BY <1>3 DEF PartKey
    <2> QED BY <1>2, <1>4, <2>1 DEF ReqKnows, Preparing
<1>8. LinkedHasRow' /\ ChatFileKnows'
    BY <1>3 DEF IInv, LinkedHasRow, ChatFileKnows, tables
<1> QED BY <1>1, <1>3, <1>4, <1>5, <1>6, <1>7, <1>8, ReqStep DEF Preparing

\* The row goes after the object, and of no thread's file.
LEMMA DeleteRowStep ==
    ASSUME IInv, NEW r \in Requests, NEW f \in Files, DeleteRow(r, f)
    PROVE  IInv'
<1>1. TypeOK'
    BY DeletionTyped DEF IInv
<1>2. f \in purged /\ f \notin threadFiles /\ fileReference[f] # None
    BY DEF IInv, ReqKnows, DeleteRow, At
<1>3. /\ fileReference' = [fileReference EXCEPT ![f] = None]
      /\ UNCHANGED <<object, folderOf, userDocument, threadFiles, vectorstore, part, purged>>
    BY DEF DeleteRow
<1>4. req'[r].at = "idle" /\ \A s \in Requests \ {r} : req'[s] = req[s]
    BY DEF IInv, TypeOK, DeleteRow, Reply, NoRequest
<1>5. ASSUME NEW g \in Files PROVE PartKnows(g)' /\ Kept(g)'
    <2>1. CASE g # f
        <3>1. fileReference'[g] = fileReference[g]
            BY <1>3, <2>1 DEF IInv, TypeOK
        <3> QED BY <1>3, <3>1, PartKnowsStays, KeptStays DEF IInv, NamesStay
    <2>2. CASE g = f
        <3>1. fileReference'[f] = None
            BY <1>3 DEF IInv, TypeOK
        <3>2. PartKnows(f)
            BY DEF IInv
        <3> QED BY <1>2, <1>3, <2>2, <3>1, <3>2 DEF PartKnows, Kept
    <2> QED BY <2>1, <2>2
<1>6. chatFileId' = chatFileId
    BY <1>2 DEF IInv, ChatFileKnows, DeleteRow
<1>7. LinkedHasRow' /\ ChatFileKnows'
    BY <1>2, <1>3, <1>6 DEF IInv, TypeOK, LinkedHasRow, ChatFileKnows
<1>8. ReqKnows(r)'
    BY <1>4 DEF ReqKnows, Preparing, Deleting
<1> QED BY <1>1, <1>3, <1>4, <1>5, <1>7, <1>8, ReqStep DEF Preparing

\* The document is hidden.
LEMMA MarkInactiveStep ==
    ASSUME IInv, NEW r \in Requests, NEW f \in Files, MarkInactive(r, f)
    PROVE  IInv'
<1>1. TypeOK'
    BY DeletionTyped DEF IInv
<1>2. part[f].at \notin {"new", "asked"}
    BY DEF IInv, ReqKnows, MarkInactive, At, Deleting
<1>3. /\ userDocument' = [userDocument EXCEPT ![f] = "inactive"]
      /\ UNCHANGED <<object, fileReference, folderOf, threadFiles, chatFileId, vectorstore,
                      part, purged>>
    BY DEF MarkInactive
<1>4. req'[r].at = "idle" /\ \A s \in Requests \ {r} : req'[s] = req[s]
    BY DEF IInv, TypeOK, MarkInactive, Reply, NoRequest
<1>5. ASSUME NEW g \in Files PROVE PartKnows(g)' /\ Kept(g)'
    <2>1. Kept(g)'
        BY <1>3, KeptStays DEF IInv, NamesStay
    <2>2. CASE g # f
        <3>1. userDocument'[g] = userDocument[g]
            BY <1>3, <2>2 DEF IInv, TypeOK
        <3> QED BY <1>3, <2>1, <3>1, PartKnowsStays DEF IInv
    <2>3. CASE g = f
        <3>1. userDocument'[f] # "none"
            BY <1>3 DEF IInv, TypeOK
        <3>2. PartKnows(f) /\ PartKey(f)' = PartKey(f)
            BY <1>3 DEF IInv, PartKey
        <3> QED BY <1>2, <1>3, <2>1, <2>3, <3>1, <3>2 DEF PartKnows
    <2> QED BY <2>1, <2>2, <2>3
<1>6. LinkedHasRow' /\ ChatFileKnows'
    BY <1>3 DEF IInv, LinkedHasRow, ChatFileKnows
<1>7. ReqKnows(r)'
    BY <1>4 DEF ReqKnows, Preparing, Deleting
<1> QED BY <1>1, <1>3, <1>4, <1>5, <1>6, <1>7, ReqStep DEF Preparing

-----------------------------------------------------------------------------
(* The parts of an upload.                                                  *)

\* The upload of f goes on and keeps what it is.
LEMMA PartGoes ==
    ASSUME TypeOK, NEW f \in Files, NEW label, Goes(f, label)
    PROVE  /\ part'[f].at = label /\ part'[f].kind = part[f].kind
           /\ part'[f].name = part[f].name /\ part'[f].time = part[f].time
           /\ part'[f].root = part[f].root /\ part'[f].bot = part[f].bot
           /\ PartKey(f)' = PartKey(f)
           /\ \A g \in Files \ {f} : part'[g] = part[g]
<1>1. part[f] \in Part /\ part'[f] = [part[f] EXCEPT !.at = label]
    BY DEF TypeOK, Goes
<1> QED BY <1>1 DEF Part, PartKey, KeyOf, TypeOK, Goes

\* The object goes under the key of f: whoever had it there is its twin.
LEMMA PutStep ==
    ASSUME IInv, NEW f \in Files, Put(f)
    PROVE  IInv'
<1>1. TypeOK' /\ TypeOK /\ PartKnows(f)
    BY PartTyped DEF IInv
<1>2. part[f].at = "put" /\ part[f].name # None
    BY <1>1 DEF Put, PartAt, PartKnows, Keyed, PartLabels
<1>3. /\ part'[f].at = "row" /\ part'[f].kind = part[f].kind
      /\ part'[f].name = part[f].name /\ part'[f].time = part[f].time
      /\ part'[f].root = part[f].root /\ part'[f].bot = part[f].bot
      /\ PartKey(f)' = PartKey(f)
      /\ \A g \in Files \ {f} : part'[g] = part[g]
    BY <1>1, PartGoes DEF Put
<1>4. UNCHANGED <<tables, req, purged>> /\ object' = [object EXCEPT ![PartKey(f)] = f]
    BY DEF Put
<1>5. NamesStay /\ PartKey(f) \in (0 .. MaxTime) \X Names
    BY <1>2, <1>3, KeyInRange DEF NamesStay
<1>6. ASSUME NEW g \in Files PROVE Kept(g)'
    <2>1. CASE g = f
        BY <1>1, <1>3, <1>4, <1>5, <2>1 DEF Kept, TypeOK
    <2>2. CASE g # f /\ (part[g].at \in Stored \/ fileReference[g] # None)
        <3>1. part[g].name # None /\ Kept(g) /\ PartKey(g)' = PartKey(g)
            BY <1>3, <2>2 DEF IInv, PartKnows, Stored, PartKey
        <3>2. CASE PartKey(g) = PartKey(f)
            BY <1>2, <1>5, <2>2, <3>1, <3>2, SharedKey, TwinStays DEF Kept
        <3>3. CASE PartKey(g) # PartKey(f)
            <4>1. PartKey(g) \in (0 .. MaxTime) \X Names
                BY <3>1, KeyInRange
            <4>2. object'[PartKey(g)] = object[PartKey(g)]
                BY <1>1, <1>4, <3>3, <4>1 DEF TypeOK
            <4> QED BY <1>4, <1>5, <2>2, <3>1, <4>2, TwinStays DEF Kept
        <3> QED BY <3>2, <3>3
    <2>3. CASE g # f /\ ~ (part[g].at \in Stored \/ fileReference[g] # None)
        BY <1>3, <1>4, <2>3 DEF Kept, tables
    <2> QED BY <2>1, <2>2, <2>3
<1>7. PartKnows(f)'
    BY <1>1, <1>2, <1>3, <1>4 DEF PartKnows, Rowed, Stored, Keyed, tables
<1>8. LinkedHasRow' /\ ChatFileKnows'
    BY <1>2, <1>3, <1>4 DEF IInv, TypeOK, LinkedHasRow, ChatFileKnows, tables
<1> QED BY <1>1, <1>2, <1>3, <1>4, <1>6, <1>7, <1>8, PartStep DEF tables

\* The row names the key its object is under.
LEMMA CreateRowStep ==
    ASSUME IInv, NEW f \in Files, CreateRow(f)
    PROVE  IInv'
<1>1. TypeOK' /\ TypeOK /\ PartKnows(f)
    BY PartTyped DEF IInv
<1>2. part[f].at = "row" /\ part[f] \in Part /\ part[f].name # None
    BY <1>1 DEF CreateRow, PartAt, TypeOK, PartKnows, Keyed, PartLabels
<1>3. /\ part'[f].at = AfterRow(part[f].kind) /\ part'[f].kind = part[f].kind
      /\ part'[f].name = part[f].name /\ part'[f].time = part[f].time
      /\ part'[f].bot = part[f].bot
      /\ \A g \in Files \ {f} : part'[g] = part[g]
    <2>1. part'[f] = [part[f] EXCEPT !.root = None, !.at = AfterRow(part[f].kind)]
        BY <1>1 DEF TypeOK, CreateRow
    <2> QED BY <1>1, <1>2, <2>1 DEF Part, TypeOK, CreateRow
<1>4. PartKey(f)' = PartKey(f) /\ NamesStay
    BY <1>3 DEF PartKey, KeyOf, NamesStay
<1>5. /\ fileReference' = [fileReference EXCEPT ![f] = PartKey(f)]
      /\ folderOf' = [folderOf EXCEPT ![f] = part[f].root]
      /\ UNCHANGED <<object, userDocument, threadFiles, chatFileId, vectorstore, req, purged>>
    BY DEF CreateRow
<1>6. fileReference'[f] = PartKey(f) /\ folderOf'[f] = part[f].root
        /\ \A g \in Files \ {f} : /\ fileReference'[g] = fileReference[g]
                                  /\ folderOf'[g] = folderOf[g]
    BY <1>1, <1>5 DEF TypeOK
<1>7. fileReference'[f] # None
    <2>1. PartKey(f) \in Nat \X Names
        BY <1>2 DEF PartKey, KeyOf, Part
    <2> QED BY <1>6, <2>1, NoneApart
<1>8. PartKnows(f)'
    <2>1. \/ part[f].kind = "plain" /\ part'[f].at = "stored"
          \/ part[f].kind = "document" /\ part'[f].at = "document"
          \/ part[f].kind = "chat" /\ part'[f].at = "thread"
        BY <1>2, <1>3 DEF Part, Kinds, AfterRow
    <2>2. ~ part[f].bot
        BY <1>1, <1>2 DEF PartKnows
    <2> QED BY <1>1, <1>2, <1>3, <1>4, <1>6, <1>7, <2>1, <2>2 DEF PartKnows
<1>9. LinkedHasRow'
    BY <1>5, <1>6, <1>7 DEF IInv, TypeOK, LinkedHasRow
<1>10. ChatFileKnows'
    BY <1>2, <1>3, <1>5 DEF IInv, TypeOK, ChatFileKnows
<1>11. part'[f].at \notin {"new", "asked"}
    BY <1>2, <1>3 DEF Part, Kinds, AfterRow
<1> QED BY <1>1, <1>2, <1>3, <1>5, <1>6, <1>8, <1>9, <1>10, <1>11, PartStep DEF Stored, Keyed,
        PartLabels

\* The thread has the file, whose row is there.
LEMMA LinkToThreadStep ==
    ASSUME IInv, NEW f \in Files, LinkToThread(f)
    PROVE  IInv'
<1>1. TypeOK' /\ TypeOK /\ PartKnows(f)
    BY PartTyped DEF IInv
<1>2. part[f].at = "link" /\ fileReference[f] # None
    BY DEF LinkToThread, PartAt
<1>3. /\ part'[f].at = (IF part[f].bot THEN "document" ELSE "stored")
      /\ part'[f].kind = part[f].kind
      /\ part'[f].name = part[f].name /\ part'[f].time = part[f].time
      /\ part'[f].root = part[f].root /\ part'[f].bot = part[f].bot
      /\ PartKey(f)' = PartKey(f)
      /\ \A g \in Files \ {f} : part'[g] = part[g]
    BY <1>1, PartGoes DEF LinkToThread
<1>4. /\ threadFiles' = threadFiles \cup {f}
      /\ UNCHANGED <<object, fileReference, folderOf, userDocument, chatFileId, vectorstore,
                     req, purged>>
    BY DEF LinkToThread
<1>5. PartKnows(f)'
    BY <1>1, <1>2, <1>3, <1>4 DEF PartKnows, Rowed, Stored, Keyed, PartLabels
<1>6. LinkedHasRow'
    BY <1>1, <1>2, <1>3, <1>4 DEF IInv, TypeOK, LinkedHasRow
<1>7. ChatFileKnows'
    BY <1>1, <1>2, <1>3, <1>4 DEF IInv, TypeOK, ChatFileKnows
<1> QED BY <1>1, <1>2, <1>3, <1>4, <1>5, <1>6, <1>7, PartStep DEF Rowed, Stored, Keyed, PartLabels

\* The user has the document; the thread keeps its newest file.
LEMMA CreateDocumentStep ==
    ASSUME IInv, NEW f \in Files, CreateDocument(f)
    PROVE  IInv'
<1>1. TypeOK' /\ TypeOK /\ PartKnows(f)
    BY PartTyped DEF IInv
<1>2. part[f].at = "document" /\ fileReference[f] # None
    BY DEF CreateDocument, PartAt
<1>3. /\ part'[f].at = "vectors" /\ part'[f].kind = part[f].kind
      /\ part'[f].name = part[f].name /\ part'[f].time = part[f].time
      /\ part'[f].root = part[f].root /\ part'[f].bot = part[f].bot
      /\ PartKey(f)' = PartKey(f)
      /\ \A g \in Files \ {f} : part'[g] = part[g]
    BY <1>1, PartGoes DEF CreateDocument
<1>4. /\ userDocument' = [userDocument EXCEPT ![f] = "active"]
      /\ userDocument'[f] = "active"
      /\ \A g \in Files \ {f} : userDocument'[g] = userDocument[g]
      /\ UNCHANGED <<object, fileReference, folderOf, threadFiles, chatFileId, vectorstore,
                     req, purged>>
    BY <1>1 DEF CreateDocument, TypeOK, AttachedBy
<1>5. PartKnows(f)'
    BY <1>1, <1>2, <1>3, <1>4 DEF PartKnows, Rowed, Stored, Keyed, PartLabels
<1>6. LinkedHasRow'
    BY <1>1, <1>2, <1>3, <1>4 DEF IInv, TypeOK, LinkedHasRow
<1>7. ChatFileKnows'
    BY <1>1, <1>2, <1>3, <1>4 DEF IInv, TypeOK, ChatFileKnows
<1> QED BY <1>1, <1>2, <1>3, <1>4, <1>5, <1>6, <1>7, PartStep DEF Stored, Keyed, PartLabels

\* All chunks of the file are there.
LEMMA AddVectorsStep ==
    ASSUME IInv, NEW f \in Files, AddVectors(f)
    PROVE  IInv'
<1>1. TypeOK' /\ TypeOK /\ PartKnows(f)
    BY PartTyped DEF IInv
<1>2. part[f].at = "vectors"
    BY DEF AddVectors, PartAt
<1>3. /\ part'[f].at = (IF part[f].kind = "chat" THEN "attach" ELSE "stored")
      /\ part'[f].kind = part[f].kind
      /\ part'[f].name = part[f].name /\ part'[f].time = part[f].time
      /\ part'[f].root = part[f].root /\ part'[f].bot = part[f].bot
      /\ PartKey(f)' = PartKey(f)
      /\ \A g \in Files \ {f} : part'[g] = part[g]
    BY <1>1, PartGoes DEF AddVectors
<1>4. /\ vectorstore' = [vectorstore EXCEPT ![f] = "all"]
      /\ vectorstore'[f] = "all"
      /\ \A g \in Files \ {f} : vectorstore'[g] = vectorstore[g]
      /\ UNCHANGED <<object, fileReference, folderOf, userDocument, threadFiles, chatFileId,
                     req, purged>>
    BY <1>1 DEF AddVectors, TypeOK
<1>5. PartKnows(f)'
    BY <1>1, <1>2, <1>3, <1>4 DEF PartKnows, Rowed, Stored, Keyed, PartLabels
<1>6. LinkedHasRow'
    BY <1>1, <1>2, <1>3, <1>4 DEF IInv, TypeOK, LinkedHasRow
<1>7. ChatFileKnows'
    BY <1>1, <1>2, <1>3, <1>4 DEF IInv, TypeOK, ChatFileKnows
<1> QED BY <1>1, <1>2, <1>3, <1>4, <1>5, <1>6, <1>7, PartStep DEF Stored, Keyed, PartLabels

\* The newest file of the thread has what it needs.
LEMMA AttachToThreadStep ==
    ASSUME IInv, NEW f \in Files, AttachToThread(f)
    PROVE  IInv'
<1>1. TypeOK' /\ TypeOK /\ PartKnows(f)
    BY PartTyped DEF IInv
<1>2. part[f].at = "attach"
    BY DEF AttachToThread, PartAt
<1>3. /\ part'[f].at = "stored" /\ part'[f].kind = part[f].kind
      /\ part'[f].name = part[f].name /\ part'[f].time = part[f].time
      /\ part'[f].root = part[f].root /\ part'[f].bot = part[f].bot
      /\ PartKey(f)' = PartKey(f)
      /\ \A g \in Files \ {f} : part'[g] = part[g]
    BY <1>1, PartGoes DEF AttachToThread
<1>4. /\ chatFileId' = f
      /\ UNCHANGED <<object, fileReference, folderOf, userDocument, threadFiles, vectorstore,
                     req, purged>>
    BY DEF AttachToThread
<1>5. PartKnows(f)'
    BY <1>1, <1>2, <1>3, <1>4 DEF PartKnows, Rowed, Stored, Keyed, PartLabels
<1>6. LinkedHasRow'
    BY <1>1, <1>2, <1>3, <1>4 DEF IInv, TypeOK, LinkedHasRow
<1>7. ChatFileKnows'
    BY <1>1, <1>2, <1>3, <1>4 DEF IInv, TypeOK, ChatFileKnows, PartKnows
<1> QED BY <1>1, <1>2, <1>3, <1>4, <1>5, <1>6, <1>7, PartStep DEF Stored, Keyed, PartLabels

\* Whether the thread is the chatbot's is read when it is validated.
LEMMA ValidateThreadStep ==
    ASSUME IInv, NEW f \in Files, ValidateThread(f)
    PROVE  IInv'
<1>1. TypeOK' /\ TypeOK /\ PartKnows(f)
    BY PartTyped DEF IInv
<1>2. part[f].at = "thread" /\ part[f] \in Part
    BY <1>1 DEF ValidateThread, PartAt, TypeOK
<1>3. PICK bot \in BOOLEAN : part' = [part EXCEPT ![f].bot = bot, ![f].at = "link"]
    BY DEF ValidateThread
<1>4. /\ part'[f].at = "link" /\ part'[f].kind = part[f].kind
      /\ part'[f].name = part[f].name /\ part'[f].time = part[f].time
      /\ part'[f].root = part[f].root
      /\ PartKey(f)' = PartKey(f)
      /\ \A g \in Files \ {f} : part'[g] = part[g]
    <2>1. part'[f] = [part[f] EXCEPT !.bot = bot, !.at = "link"]
        BY <1>1, <1>3 DEF TypeOK
    <2> QED BY <1>1, <1>2, <1>3, <2>1 DEF Part, TypeOK, PartKey, KeyOf
<1>5. UNCHANGED <<object, tables, req, purged>>
    BY DEF ValidateThread
<1>6. PartKnows(f)'
    BY <1>1, <1>2, <1>4, <1>5 DEF PartKnows, Rowed, Stored, Keyed, PartLabels, tables
<1>7. LinkedHasRow' /\ ChatFileKnows'
    BY <1>1, <1>2, <1>4, <1>5 DEF IInv, TypeOK, LinkedHasRow, ChatFileKnows, tables
<1> QED BY <1>1, <1>2, <1>4, <1>5, <1>6, <1>7, PartStep DEF tables, Stored, Keyed, PartLabels

\* An upload that fails leaves what it wrote.
LEMMA FailPartStep ==
    ASSUME IInv, NEW f \in Files, FailPart(f)
    PROVE  IInv'
<1>1. TypeOK' /\ TypeOK /\ PartKnows(f)
    BY PartTyped DEF IInv
<1>2. part[f].at \in PartLabels \ {"new", "asked", "stored", "failed"} /\ part[f] \in Part
    BY <1>1 DEF FailPart, TypeOK
<1>3. /\ part'[f].at = "failed" /\ part'[f].kind = part[f].kind
      /\ part'[f].name = part[f].name /\ part'[f].time = part[f].time
      /\ part'[f].bot = part[f].bot
      /\ PartKey(f)' = PartKey(f)
      /\ \A g \in Files \ {f} : part'[g] = part[g]
    <2>1. part' = [part EXCEPT ![f].root = None, ![f].at = "failed"]
        BY DEF FailPart, Outcome
    <2>2. /\ part'[f] = [part[f] EXCEPT !.root = None, !.at = "failed"]
          /\ \A g \in Files \ {f} : part'[g] = part[g]
        BY <1>1, <2>1 DEF TypeOK
    <2> QED BY <1>2, <2>2 DEF Part, PartKey, KeyOf
<1>4. UNCHANGED <<object, fileReference, folderOf, userDocument, threadFiles, chatFileId,
                  req, purged>>
    BY DEF FailPart
<1>5. \A g \in Files \ {f} : vectorstore'[g] = vectorstore[g]
    BY <1>1 DEF FailPart, TypeOK
<1>6. PartKnows(f)'
    <2>1. part[f].bot => part[f].kind = "chat"
        BY <1>1 DEF PartKnows
    <2>2. /\ part[f].time \in 0 .. MaxTime
          /\ fileReference[f] # None => part[f].name # None /\ fileReference[f] = PartKey(f)
        BY <1>1 DEF PartKnows
    <2> QED BY <1>3, <1>4, <2>1, <2>2 DEF PartKnows, Rowed, Stored, Keyed
<1>7. LinkedHasRow' /\ ChatFileKnows'
    BY <1>1, <1>2, <1>3, <1>4, <1>5 DEF IInv, TypeOK, LinkedHasRow, ChatFileKnows
<1> QED BY <1>1, <1>2, <1>3, <1>4, <1>5, <1>6, <1>7, PartStep DEF Stored, Keyed

-----------------------------------------------------------------------------
(* The invariant.                                                           *)

\* A step that changes at most the time.
LEMMA TickStep ==
    ASSUME IInv, Tick \/ UNCHANGED vars
    PROVE  IInv'
<1>1. TypeOK' /\ UNCHANGED <<object, tables, folders, part, req, purged>>
    BY TimeType DEF IInv, TypeOK, Tick, vars, tables, folders
<1>2. ASSUME NEW f \in Files PROVE PartKnows(f)' /\ Kept(f)'
    BY <1>1 DEF IInv, PartKnows, Kept, PartKey, Twin, tables
<1>3. ASSUME NEW r \in Requests PROVE ReqKnows(r)'
    BY <1>1 DEF IInv, ReqKnows, PartKey
<1>4. Disjoint' /\ LinkedHasRow' /\ ChatFileKnows'
    BY <1>1 DEF IInv, Disjoint, LinkedHasRow, ChatFileKnows, tables
<1> QED BY <1>1, <1>2, <1>3, <1>4 DEF IInv

LEMMA InitIInv == Init => IInv
<1> SUFFICES ASSUME Init PROVE IInv
    OBVIOUS
<1>1. TypeOK
    <2>1. /\ part \in [Files -> Part] /\ req \in [Requests -> Request] /\ now \in 0 .. MaxTime
        BY TimeType DEF Init, Part, PartLabels, Kinds, Request, NoRequest, Labels
    <2> QED BY <2>1 DEF Init, TypeOK
<1>2. ASSUME NEW f \in Files PROVE PartKnows(f) /\ Kept(f)
    BY TimeType DEF Init, PartKnows, Kept, Keyed, Stored, Rowed
<1>3. (\A r \in Requests : ReqKnows(r)) /\ Disjoint
    BY DEF Init, NoRequest, ReqKnows, Disjoint, Preparing, Deleting
<1>4. LinkedHasRow /\ ChatFileKnows
    BY DEF Init, LinkedHasRow, ChatFileKnows
<1> QED BY <1>1, <1>2, <1>3, <1>4 DEF IInv

LEMMA NextIInv == IInv /\ [Next]_vars => IInv'
<1> SUFFICES ASSUME IInv, [Next]_vars PROVE IInv'
    OBVIOUS
<1>1. ASSUME NEW r \in Requests,
             \/ \E F \in SUBSET Files, kind \in {"document", "chat"} : Upload(r, F, kind)
             \/ ReadCompany(r) \/ EnsureRoot(r) \/ CreateRoot(r) \/ Answer(r) \/ Fail(r)
      PROVE  IInv'
    <2>1. TypeOK'
        BY <1>1, UploadTyped DEF IInv
    <2>2. ASSUME NEW F \in SUBSET Files, NEW kind \in {"document", "chat"}, Upload(r, F, kind)
          PROVE  IInv'
        BY <2>1, <2>2, UploadStep DEF Kinds
    <2>3. CASE Fail(r)
        BY <2>1, <2>3, FailStep
    <2> QED BY <1>1, <2>2, <2>3, ReadCompanyStep, EnsureRootStep, CreateRootStep, AnswerStep
<1>2. ASSUME NEW r \in Requests, NEW f \in Files,
             \/ UploadPlain(r, f)
             \/ Delete(r, f) \/ FindFile(r, f) \/ DeleteObject(r, f) \/ DeleteRow(r, f)
             \/ DeleteUserDocument(r, f) \/ MarkInactive(r, f)
      PROVE  IInv'
    BY <1>2, UploadPlainStep, DeleteStep, FindFileStep, DeleteObjectStep, DeleteRowStep,
       MarkInactiveStep
<1>3. ASSUME NEW f \in Files,
             \/ Put(f) \/ CreateRow(f) \/ ValidateThread(f) \/ LinkToThread(f)
             \/ CreateDocument(f) \/ AddVectors(f) \/ AttachToThread(f) \/ FailPart(f)
      PROVE  IInv'
    BY <1>3, PutStep, CreateRowStep, ValidateThreadStep, LinkToThreadStep, CreateDocumentStep,
       AddVectorsStep, AttachToThreadStep, FailPartStep
<1> QED BY <1>1, <1>2, <1>3, TickStep DEF Next

LEMMA Inductive == Spec => []IInv
BY InitIInv, NextIInv, PTL DEF Spec

\* Every variable of the files has its type.
THEOREM TypeCorrect == Spec => []TypeOK
<1>1. IInv => TypeOK
    BY DEF IInv
<1> QED BY <1>1, Inductive, PTL

\* The object a row names is there and is what was uploaded for that row,
\* unless its own deletion got as far as S3 or a file of the same name was
\* uploaded in the same millisecond (FilesService.uploadFile and deleteFile,
\* S3Service.uploadFile).
THEOREM RowsHaveObjects == Spec => []RowHasObject
<1>1. IInv => RowHasObject
    BY DEF IInv, PartKnows, Kept, RowHasObject
<1> QED BY <1>1, Inductive, PTL

\* An upload answered with success has stored all that it was for
\* (DochubController.uploadFile and uploadMultipleFiles, and
\* ChatbotController.uploadFile, with processDocument).
THEOREM SuccessIsStored == Spec => []SuccessMeansStored
<1>1. IInv => SuccessMeansStored
    <2> SUFFICES ASSUME IInv, NEW f \in Files, part[f].at = "stored"
                 PROVE  /\ fileReference[f] = None => f \in purged
                        /\ part[f].kind = "document" => folderOf[f] # None
                        /\ part[f].kind = "chat" => f \in threadFiles
                        /\ part[f].kind = "document" \/ part[f].bot =>
                             userDocument[f] # "none" /\ vectorstore[f] = "all"
        BY DEF SuccessMeansStored
    <2> QED BY DEF IInv, PartKnows, Rowed, Stored, Keyed, PartLabels
<1> QED BY <1>1, Inductive, PTL

\* The newest file of a thread is one of its files, and has its row and all its
\* chunks (ChatbotController.uploadFile, DocHubService.processDocument).
THEOREM ChatFilesAreReady == Spec => []ChatFileIsReady
<1>1. IInv => ChatFileIsReady
    BY DEF IInv, ChatFileKnows, LinkedHasRow, ChatFileIsReady
<1> QED BY <1>1, Inductive, PTL

-----------------------------------------------------------------------------
(* The tools and the documents they read.                                   *)

\* A document has its row from the time its processing begins, and all of its
\* chunks from the time it ends.
DocumentKnows(f) ==
    /\ step[f] = "none" <=> listed[f] = "none"
    /\ step[f] = "none" => chunks[f] = 0
    /\ step[f] = "insert" => chunks[f] <= total[f]
    /\ step[f] = "processed" => chunks[f] = total[f]

\* What a search replies is as much as was asked for, or all that was ready, if
\* the documents have n[f] chunks each.
SearchAnswered(q, n) ==
    Cardinality(Tools!ChunksOf(Files, q.got)) >=
      Tools!Min({q.limit, Cardinality(Tools!ChunksOf(q.ready, n))})

\* What a call has read at each of its awaits.
CallKnows(c) ==
    /\ \A f \in call[c].ready : step[f] = "processed"
    /\ call[c].at \in {"exists", "chunks"} => call[c].tool = "document_vectors"
    /\ call[c].tool = "document_vectors" =>
         /\ call[c].f \in Files /\ call[c].limit > 0
         /\ call[c].at \in {"exists", "chunks", "documents", "done"}
         /\ call[c].at \in {"exists", "chunks"} => call[c].got[call[c].f] = 0
         /\ call[c].got[call[c].f] > 0 => listed[call[c].f] # "none"
         /\ call[c].at = "done" /\ call[c].got[call[c].f] > 0 =>
              call[c].f \in call[c].listed \/ listed[call[c].f] = "inactive"
         /\ /\ call[c].at \in {"documents", "done"} /\ ~ call[c].erred
            /\ call[c].f \in call[c].ready
            => call[c].got[call[c].f] = Tools!Min({call[c].limit, total[call[c].f]})
    /\ call[c].tool = "similarity_search" =>
         /\ call[c].at \in {"open", "search", "close", "done"}
         /\ call[c].at \in {"close", "done"} /\ ~ call[c].erred => SearchAnswered(call[c], total)

ToolsInv ==
    /\ Tools!TypeOK
    /\ \A f \in Files : DocumentKnows(f)
    /\ \A c \in Calls : CallKnows(c)

LEMMA MinOfTwo ==
    ASSUME NEW a \in Nat, NEW b \in Nat
    PROVE  Tools!Min({a, b}) = IF a <= b THEN a ELSE b
<1> DEFINE m == IF a <= b THEN a ELSE b
<1>1. m \in {a, b} /\ \A y \in {a, b} : m <= y
    OBVIOUS
<1>2. \A x \in {a, b} : (\A y \in {a, b} : x <= y) => x = m
    OBVIOUS
<1> QED BY <1>1, <1>2 DEF Tools!Min

\* Chunks can be counted, and more documents with more chunks have more of them.
LEMMA ChunksAreCounted ==
    ASSUME NEW S \in SUBSET Files, NEW n
    PROVE  /\ IsFiniteSet(Tools!ChunksOf(S, n))
           /\ Cardinality(Tools!ChunksOf(S, n)) \in Nat
<1>1. IsFiniteSet(1 .. MaxChunks)
    BY FS_Interval, MaxChunksType
<1>2. IsFiniteSet(S)
    BY FilesAreFinite, FS_Subset
<1>3. IsFiniteSet(S \X (1 .. MaxChunks))
    BY <1>1, <1>2, FS_Product
<1>4. Tools!ChunksOf(S, n) \in SUBSET (S \X (1 .. MaxChunks))
    BY DEF Tools!ChunksOf
<1>5. IsFiniteSet(Tools!ChunksOf(S, n))
    BY <1>3, <1>4, FS_Subset
<1> QED BY <1>5, FS_CardinalityType

LEMMA MoreChunks ==
    ASSUME NEW S \in SUBSET Files, NEW T \in SUBSET S,
           NEW m \in [Files -> 0 .. MaxChunks], NEW n \in [Files -> 0 .. MaxChunks],
           \A f \in T : m[f] <= n[f]
    PROVE  Cardinality(Tools!ChunksOf(T, m)) <= Cardinality(Tools!ChunksOf(S, n))
<1>1. ASSUME NEW k \in Tools!ChunksOf(T, m) PROVE k \in Tools!ChunksOf(S, n)
    <2>1. k \in T \X (1 .. MaxChunks) /\ k[2] <= m[k[1]]
        BY <1>1 DEF Tools!ChunksOf
    <2>2. k[1] \in T /\ k[1] \in Files /\ k[2] \in 1 .. MaxChunks /\ k \in S \X (1 .. MaxChunks)
        BY <2>1
    <2>3. m[k[1]] \in 0 .. MaxChunks /\ n[k[1]] \in 0 .. MaxChunks /\ m[k[1]] <= n[k[1]]
        BY <2>2
    <2>4. k[2] <= n[k[1]]
        BY <2>1, <2>2, <2>3, MaxChunksType
    <2> QED BY <2>2, <2>4 DEF Tools!ChunksOf
<1>2. Tools!ChunksOf(T, m) \in SUBSET Tools!ChunksOf(S, n)
    BY <1>1
<1>3. IsFiniteSet(Tools!ChunksOf(S, n))
    BY ChunksAreCounted
<1> QED BY <1>2, <1>3, FS_Subset

\* The chunks of some documents depend on the counts of those alone.
LEMMA SameChunks ==
    ASSUME NEW S, NEW m, NEW n, \A f \in S : m[f] = n[f]
    PROVE  Tools!ChunksOf(S, m) = Tools!ChunksOf(S, n)
BY DEF Tools!ChunksOf

LEMMA SameAnswer ==
    ASSUME NEW q, NEW m, NEW n, \A f \in q.ready : m[f] = n[f]
    PROVE  SearchAnswered(q, m) <=> SearchAnswered(q, n)
<1>1. Tools!ChunksOf(q.ready, m) = Tools!ChunksOf(q.ready, n)
    BY SameChunks
<1> QED BY <1>1 DEF SearchAnswered

\* A step of the processing or deletion of f leaves a call what it knows.
LEMMA DocumentStep ==
    ASSUME ToolsInv, NEW f \in Files,
           \/ Tools!CreateDocument(f) \/ Tools!AddChunks(f)
           \/ Tools!ProcessFails(f) \/ Tools!DeleteDocument(f)
    PROVE  ToolsInv'
<1>1. Tools!TypeOK /\ DocumentKnows(f) /\ UNCHANGED call
    BY DEF ToolsInv, Tools!CreateDocument, Tools!AddChunks, Tools!ProcessFails,
           Tools!DeleteDocument
<1>2. Tools!TypeOK'
    <2>1. CASE Tools!CreateDocument(f)
        BY <1>1, <2>1 DEF Tools!TypeOK, Tools!CreateDocument
    <2>2. CASE Tools!AddChunks(f)
        <3>1. chunks[f] \in 0 .. MaxChunks /\ total[f] \in 0 .. MaxChunks
            BY <1>1 DEF Tools!TypeOK
        <3>2. (IF chunks[f] < total[f] THEN chunks[f] + 1 ELSE chunks[f]) \in 0 .. MaxChunks
            BY <3>1, MaxChunksType
        <3> QED BY <1>1, <2>2, <3>2 DEF Tools!TypeOK, Tools!AddChunks
    <2>3. CASE Tools!ProcessFails(f)
        BY <1>1, <2>3 DEF Tools!TypeOK, Tools!ProcessFails
    <2>4. CASE Tools!DeleteDocument(f)
        BY <1>1, <2>4 DEF Tools!TypeOK, Tools!DeleteDocument
    <2> QED BY <2>1, <2>2, <2>3, <2>4
<1>3. \A g \in Files \ {f} :
        /\ step'[g] = step[g] /\ total'[g] = total[g]
        /\ listed'[g] = listed[g] /\ chunks'[g] = chunks[g]
    BY <1>1 DEF Tools!TypeOK, Tools!CreateDocument, Tools!AddChunks, Tools!ProcessFails,
                Tools!DeleteDocument
<1>4. /\ DocumentKnows(f)'
      /\ step[f] = "processed" => step'[f] = "processed" /\ total'[f] = total[f]
      /\ listed[f] # "none" => listed'[f] # "none"
      /\ listed[f] = "inactive" => listed'[f] = "inactive"
    <2>1. CASE Tools!CreateDocument(f)
        <3>1. /\ step[f] = "none" /\ step'[f] = "insert" /\ listed'[f] = "active"
              /\ chunks'[f] = chunks[f] /\ total'[f] >= 0
            BY <1>1, <2>1 DEF Tools!TypeOK, Tools!CreateDocument
        <3> QED BY <1>1, <3>1 DEF DocumentKnows
    <2>2. CASE Tools!AddChunks(f)
        <3>1. chunks[f] \in 0 .. MaxChunks /\ total[f] \in 0 .. MaxChunks
            BY <1>1 DEF Tools!TypeOK
        <3>2. /\ step[f] = "insert" /\ listed'[f] = listed[f]
              /\ total'[f] = total[f]
              /\ chunks'[f] = IF chunks[f] < total[f] THEN chunks[f] + 1 ELSE chunks[f]
              /\ step'[f] = IF chunks[f] + 1 < total[f] THEN "insert" ELSE "processed"
            BY <1>1, <2>2 DEF Tools!TypeOK, Tools!AddChunks
        <3> QED BY <1>1, <3>1, <3>2 DEF DocumentKnows
    <2>3. CASE Tools!ProcessFails(f)
        <3>1. /\ step[f] = "insert" /\ step'[f] = "failed" /\ listed'[f] = listed[f]
            BY <1>1, <2>3 DEF Tools!TypeOK, Tools!ProcessFails
        <3> QED BY <1>1, <3>1 DEF DocumentKnows
    <2>4. CASE Tools!DeleteDocument(f)
        <3>1. /\ step'[f] = step[f] /\ total'[f] = total[f] /\ chunks'[f] = chunks[f]
              /\ listed[f] = "active" /\ listed'[f] = "inactive"
            BY <1>1, <2>4 DEF Tools!TypeOK, Tools!DeleteDocument
        <3> QED BY <1>1, <3>1 DEF DocumentKnows
    <2> QED BY <2>1, <2>2, <2>3, <2>4
<1>5. ASSUME NEW g \in Files PROVE DocumentKnows(g)'
    <2>1. CASE g # f
        BY <1>3, <2>1 DEF ToolsInv, DocumentKnows
    <2> QED BY <1>4, <2>1
<1>6. ASSUME NEW c \in Calls PROVE CallKnows(c)'
    <2>1. CallKnows(c) /\ call[c].ready \subseteq Files /\ call' = call
        BY <1>1 DEF ToolsInv, Tools!TypeOK, Tools!Call
    <2>2. \A g \in Files :
            /\ step[g] = "processed" => step'[g] = "processed" /\ total'[g] = total[g]
            /\ listed[g] # "none" => listed'[g] # "none"
            /\ listed[g] = "inactive" => listed'[g] = "inactive"
        BY <1>3, <1>4
    <2>3. \A g \in call[c].ready : step[g] = "processed" /\ total'[g] = total[g]
        BY <2>1, <2>2 DEF CallKnows
    <2>4. SearchAnswered(call[c], total) => SearchAnswered(call[c], total')
        BY <2>3, SameAnswer
    <2> QED BY <2>1, <2>2, <2>4 DEF CallKnows
<1> QED BY <1>2, <1>5, <1>6 DEF ToolsInv

\* A step of call c reads, and changes its own record.
LEMMA CallStep ==
    ASSUME ToolsInv, NEW c \in Calls, UNCHANGED Tools!tables,
           NEW q \in Tools!Call, Tools!Set(c, q), CallKnows(c)'
    PROVE  ToolsInv'
<1>1. Tools!TypeOK'
    BY DEF ToolsInv, Tools!TypeOK, Tools!tables, Tools!Set
<1>2. ASSUME NEW f \in Files PROVE DocumentKnows(f)'
    BY DEF ToolsInv, DocumentKnows, Tools!tables
<1>3. ASSUME NEW d \in Calls PROVE CallKnows(d)'
    <2>1. CASE d # c
        <3>1. call'[d] = call[d]
            BY <2>1 DEF ToolsInv, Tools!TypeOK, Tools!Set
        <3> QED BY <3>1 DEF ToolsInv, CallKnows, Tools!tables
    <2> QED BY <2>1
<1> QED BY <1>1, <1>2, <1>3 DEF ToolsInv

\* A call begins.
LEMMA StartCall ==
    ASSUME ToolsInv, NEW c \in Calls, NEW tool \in Tools!Tools, NEW f \in Files \cup {None},
           NEW at \in {"documents", "exists", "open"}, NEW limit \in Nat,
           tool = "document_vectors" => f \in Files /\ limit > 0 /\ at = "exists",
           at = "exists" => tool = "document_vectors",
           tool = "similarity_search" => at = "open",
           Tools!Start(c, tool, at, f, limit)
    PROVE  ToolsInv'
<1> DEFINE q == [Tools!NoCall EXCEPT !.at = at, !.tool = tool, !.f = f, !.limit = limit,
                               !.ready = Tools!Processed]
<1>1. Tools!NoCall \in Tools!Call
    BY MaxChunksType DEF Tools!NoCall, Tools!Call, Tools!NoChunks, Tools!Tools
<1>2. q \in Tools!Call
    BY <1>1 DEF Tools!Call, Tools!Processed
<1>3. /\ q.at = at /\ q.tool = tool /\ q.f = f /\ q.limit = limit /\ q.ready = Tools!Processed
      /\ q.got = Tools!NoChunks /\ q.erred = FALSE
    BY DEF Tools!NoCall
<1>4. Tools!Set(c, q) /\ UNCHANGED Tools!tables
    BY DEF Tools!Start
<1>5. call'[c] = q
    BY <1>4 DEF ToolsInv, Tools!TypeOK, Tools!Set
<1> HIDE DEF q
<1>6. CallKnows(c)'
    <2>1. \A g \in Tools!Processed : step'[g] = "processed"
        BY <1>4 DEF Tools!Processed, Tools!tables
    <2>2. tool = "document_vectors" => Tools!NoChunks[f] = 0
        BY DEF Tools!NoChunks
    <2> QED BY <1>3, <1>5, <2>1, <2>2 DEF CallKnows
<1> QED BY <1>2, <1>4, <1>6, CallStep

LEMMA ArriveStep ==
    ASSUME ToolsInv, NEW c \in Calls, Tools!Arrive(c)
    PROVE  ToolsInv'
<1>1. CASE Tools!Start(c, "document_list", "documents", None, 0)
    BY <1>1, StartCall DEF Tools!Tools
<1>2. ASSUME NEW n \in Nat,
             Tools!Start(c, "file_selector", "documents", None, n)
      PROVE  ToolsInv'
    BY <1>2, StartCall DEF Tools!Tools
<1>3. ASSUME NEW f \in Files, NEW n \in 1 .. MaxChunks,
             Tools!Start(c, "document_vectors", "exists", f, n)
      PROVE  ToolsInv'
    BY <1>3, StartCall DEF Tools!Tools
<1>4. ASSUME NEW n \in 1 .. MaxChunks, Tools!Start(c, "similarity_search", "open", None, n)
      PROVE  ToolsInv'
    BY <1>4, StartCall DEF Tools!Tools
<1> QED BY <1>1, <1>2, <1>3, <1>4 DEF Tools!Arrive

\* Its record after a step of a call.
LEMMA SetCall ==
    ASSUME ToolsInv, NEW c \in Calls, NEW q, Tools!Set(c, q)
    PROVE  call'[c] = q
BY DEF ToolsInv, Tools!TypeOK, Tools!Set

\* getUserDocuments: a document that has its row is on the list or deleted.
LEMMA ReadDocumentsStep ==
    ASSUME ToolsInv, NEW c \in Calls, Tools!ReadDocuments(c)
    PROVE  ToolsInv'
<1>1. PICK shown \in Tools!Shown(call[c], Tools!Listed) :
        Tools!Set(c, [call[c] EXCEPT !.at = "done", !.listed = shown])
    BY DEF Tools!ReadDocuments
<1> DEFINE q == [call[c] EXCEPT !.at = "done", !.listed = shown]
<1>2. call[c] \in Tools!Call /\ CallKnows(c) /\ call[c].at = "documents" /\ UNCHANGED Tools!tables
    BY DEF ToolsInv, Tools!TypeOK, Tools!ReadDocuments, Tools!At
<1>3. shown \subseteq Files
    BY DEF Tools!Shown, Tools!Listed, Tools!kSubset
<1>4. /\ q \in Tools!Call /\ q.at = "done" /\ q.listed = shown /\ q.tool = call[c].tool
      /\ q.f = call[c].f /\ q.limit = call[c].limit /\ q.got = call[c].got
      /\ q.ready = call[c].ready /\ q.erred = call[c].erred
    BY <1>2, <1>3 DEF Tools!Call
<1>5. call'[c] = q
    BY <1>1, SetCall
<1>6. q.tool = "document_vectors" => shown = Tools!Listed \cap {call[c].f}
    BY <1>4 DEF Tools!Shown
<1>7. Tools!Set(c, q)
    BY <1>1
<1> HIDE DEF q
<1>8. CallKnows(c)'
    <2>1. q.tool = "document_vectors" /\ q.got[q.f] > 0 =>
            q.f \in q.listed \/ listed'[q.f] = "inactive"
        <3> SUFFICES ASSUME q.tool = "document_vectors", q.got[q.f] > 0
                     PROVE  q.f \in q.listed \/ listed'[q.f] = "inactive"
            OBVIOUS
        <3>1. q.f \in Files /\ listed[q.f] # "none"
            BY <1>2, <1>4 DEF CallKnows
        <3>2. listed[q.f] \in {"active", "inactive"}
            BY <3>1 DEF ToolsInv, Tools!TypeOK
        <3> QED BY <1>2, <1>4, <1>6, <3>1, <3>2 DEF Tools!Listed, Tools!tables
    <2> QED BY <1>2, <1>4, <1>5, <2>1 DEF CallKnows, Tools!tables
<1> QED BY <1>2, <1>4, <1>7, <1>8, CallStep

\* checkDocumentExists: what was processed has a chunk, or has none at all.
LEMMA CheckExistsStep ==
    ASSUME ToolsInv, NEW c \in Calls, Tools!CheckExists(c)
    PROVE  ToolsInv'
<1> DEFINE q == [call[c] EXCEPT !.at = IF chunks[call[c].f] > 0 THEN "chunks" ELSE "done"]
<1>1. call[c] \in Tools!Call /\ CallKnows(c) /\ call[c].at = "exists" /\ UNCHANGED Tools!tables
    BY DEF ToolsInv, Tools!TypeOK, Tools!CheckExists, Tools!At
<1>2. Tools!Set(c, q) /\ call'[c] = q
    BY SetCall DEF Tools!CheckExists
<1>3. /\ q \in Tools!Call /\ q.at = (IF chunks[call[c].f] > 0 THEN "chunks" ELSE "done")
      /\ q.tool = call[c].tool /\ q.f = call[c].f /\ q.limit = call[c].limit
      /\ q.got = call[c].got /\ q.ready = call[c].ready /\ q.erred = call[c].erred
    BY <1>1 DEF Tools!Call
<1> HIDE DEF q
<1>4. CallKnows(c)'
    <2>1. ASSUME q.tool = "document_vectors", q.at = "done", q.f \in q.ready
          PROVE  q.got[q.f] = Tools!Min({q.limit, total[q.f]})
        <3>1. /\ q.f \in Files /\ q.got[q.f] = 0 /\ q.limit \in Nat /\ q.limit > 0
              /\ step[q.f] = "processed" /\ ~ chunks[q.f] > 0
            BY <1>1, <1>3, <2>1 DEF CallKnows, Tools!Call
        <3>2. total[q.f] = 0
            BY <3>1, MaxChunksType DEF ToolsInv, Tools!TypeOK, DocumentKnows
        <3> QED BY <3>1, <3>2, MinOfTwo
    <2> QED BY <1>1, <1>2, <1>3, <2>1 DEF CallKnows, Tools!tables
<1> QED BY <1>1, <1>2, <1>3, <1>4, CallStep

\* getDocumentChunks: as many as there are, up to the limit.
LEMMA GetChunksStep ==
    ASSUME ToolsInv, NEW c \in Calls, Tools!GetChunks(c)
    PROVE  ToolsInv'
<1>1. call[c] \in Tools!Call /\ CallKnows(c) /\ call[c].at = "chunks" /\ UNCHANGED Tools!tables
    BY DEF ToolsInv, Tools!TypeOK, Tools!GetChunks, Tools!At
<1>2. PICK f \in Files : f = call[c].f /\ call[c].tool = "document_vectors"
    BY <1>1 DEF CallKnows
<1>3. PICK n : n = Tools!Min({chunks[f], call[c].got[f] + call[c].limit})
    OBVIOUS
<1> DEFINE q == [call[c] EXCEPT !.at = IF chunks[f] > 0 THEN "documents" ELSE "done",
                                !.got[f] = n]
<1>4. Tools!Set(c, q) /\ call'[c] = q
    BY <1>2, <1>3, SetCall DEF Tools!GetChunks
<1>5. /\ call[c].got[f] = 0 /\ call[c].limit \in Nat /\ call[c].limit > 0
      /\ chunks[f] \in Nat /\ chunks[f] <= MaxChunks /\ call[c].got \in [Files -> 0 .. MaxChunks]
    BY <1>1, <1>2, MaxChunksType DEF ToolsInv, Tools!TypeOK, CallKnows, Tools!Call
<1>6. n = IF chunks[f] <= call[c].limit THEN chunks[f] ELSE call[c].limit
    BY <1>3, <1>5, MinOfTwo
<1>7. n \in 0 .. MaxChunks /\ (n > 0 <=> chunks[f] > 0)
    BY <1>5, <1>6, MaxChunksType
<1>8. [call[c].got EXCEPT ![f] = n] \in [Files -> 0 .. MaxChunks]
    BY <1>5, <1>7
<1>9. /\ q \in Tools!Call /\ q.at = (IF chunks[f] > 0 THEN "documents" ELSE "done")
      /\ q.tool = "document_vectors" /\ q.f = f /\ q.limit = call[c].limit
      /\ q.got[f] = n /\ q.ready = call[c].ready /\ q.erred = call[c].erred
    BY <1>1, <1>2, <1>5, <1>8 DEF Tools!Call
<1> HIDE DEF q
<1>10. CallKnows(c)'
    <2>1. n > 0 => listed[f] # "none"
        BY <1>5, <1>7 DEF ToolsInv, DocumentKnows
    <2>2. ASSUME f \in q.ready PROVE n = Tools!Min({q.limit, total[f]})
        <3>1. chunks[f] = total[f]
            BY <1>1, <1>9, <2>2 DEF ToolsInv, DocumentKnows, CallKnows
        <3> QED BY <1>5, <1>6, <1>9, <3>1, MinOfTwo
    <2>3. q.at = "done" => n = 0
        BY <1>5, <1>6, <1>7, <1>9
    <2> QED BY <1>1, <1>2, <1>4, <1>5, <1>9, <2>1, <2>2, <2>3 DEF CallKnows, Tools!tables
<1> QED BY <1>1, <1>4, <1>9, <1>10, CallStep

\* A query of a call rejects.
LEMMA QueryFailsStep ==
    ASSUME ToolsInv, NEW c \in Calls, Tools!QueryFails(c)
    PROVE  ToolsInv'
<1> DEFINE q == [call[c] EXCEPT !.at = IF @ = "search" THEN "close" ELSE "done",
                                !.got = Tools!NoChunks, !.erred = TRUE]
<1>1. call[c] \in Tools!Call /\ CallKnows(c) /\ UNCHANGED Tools!tables
    BY DEF ToolsInv, Tools!TypeOK, Tools!QueryFails
<1>2. Tools!Set(c, q) /\ call'[c] = q
    BY SetCall DEF Tools!QueryFails
<1>3. Tools!NoChunks \in [Files -> 0 .. MaxChunks]
    BY MaxChunksType DEF Tools!NoChunks
<1>4. /\ q \in Tools!Call /\ q.at = (IF call[c].at = "search" THEN "close" ELSE "done")
      /\ q.tool = call[c].tool /\ q.f = call[c].f /\ q.limit = call[c].limit
      /\ q.got = Tools!NoChunks /\ q.ready = call[c].ready /\ q.erred = TRUE
    BY <1>1, <1>3 DEF Tools!Call
<1> HIDE DEF q
<1>5. CallKnows(c)'
    <2>1. q.tool = "document_vectors" => q.f \in Files /\ q.got[q.f] = 0
        BY <1>1, <1>4 DEF CallKnows, Tools!NoChunks
    <2> QED BY <1>1, <1>2, <1>4, <2>1 DEF CallKnows, Tools!tables
<1> QED BY <1>1, <1>2, <1>4, <1>5, CallStep

\* What the query of a search answers is enough to reply.
Enough(q, got) ==
    Cardinality(Tools!ChunksOf(Files, got)) =
      Tools!Min({q.limit, Cardinality(Tools!ChunksOf(Files, chunks))})

\* DocumentTools counts as the theorems about finite sets do.
LEMMA SameCardinality ==
    ASSUME NEW S
    PROVE  Tools!Cardinality(S) = Cardinality(S)
BY DEF Tools!Cardinality, Cardinality

LEMMA SearchIsEnough ==
    ASSUME ToolsInv, NEW c \in Calls, NEW q \in Tools!Call,
           q.ready = call[c].ready, q.limit = call[c].limit, Enough(call[c], q.got)
    PROVE  SearchAnswered(q, total)
<1>1. /\ q.ready \subseteq Files /\ q.limit \in Nat
      /\ total \in [Files -> 0 .. MaxChunks] /\ chunks \in [Files -> 0 .. MaxChunks]
    BY DEF ToolsInv, Tools!TypeOK, Tools!Call
<1>2. ASSUME NEW f \in q.ready PROVE total[f] <= chunks[f]
    <2>1. CallKnows(c) /\ DocumentKnows(f) /\ f \in Files
        BY <1>1 DEF ToolsInv
    <2>2. step[f] = "processed" /\ total[f] \in 0 .. MaxChunks
        BY <1>1, <2>1 DEF CallKnows
    <2> QED BY <2>1, <2>2, MaxChunksType DEF DocumentKnows
<1> DEFINE a == Cardinality(Tools!ChunksOf(q.ready, total))
           b == Cardinality(Tools!ChunksOf(Files, chunks))
<1>3. a <= b
    BY <1>1, <1>2, MoreChunks
<1>4. a \in Nat /\ b \in Nat
    BY <1>1, ChunksAreCounted
<1> HIDE DEF a, b
<1>5. Tools!Min({q.limit, a}) <= Tools!Min({q.limit, b})
    BY <1>1, <1>3, <1>4, MinOfTwo
<1>6. Cardinality(Tools!ChunksOf(Files, q.got)) = Tools!Min({q.limit, b})
    BY DEF Enough, b
<1>7. Tools!Min({q.limit, a}) \in Nat /\ Tools!Min({q.limit, b}) \in Nat
    BY <1>1, <1>4, MinOfTwo
<1> QED BY <1>5, <1>6, <1>7 DEF SearchAnswered, a

\* The steps of a search, and the reply.
LEMMA SearchStep ==
    ASSUME ToolsInv, NEW c \in Calls,
           Tools!OpenStore(c) \/ Tools!Search(c) \/ Tools!Close(c) \/ Tools!Send(c)
    PROVE  ToolsInv'
<1>1. call[c] \in Tools!Call /\ CallKnows(c) /\ UNCHANGED Tools!tables
    BY DEF ToolsInv, Tools!TypeOK, Tools!OpenStore, Tools!Search, Tools!Close, Tools!Send
<1>2. CASE Tools!OpenStore(c) \/ Tools!Search(c) \/ Tools!Close(c)
    <2>1. PICK at \in {"search", "close", "done"}, got \in [Files -> 0 .. MaxChunks] :
            /\ Tools!Set(c, [call[c] EXCEPT !.at = at, !.got = got])
            /\ at = "close" => Enough(call[c], got)
            /\ at = "done" => call[c].at = "close" /\ got = call[c].got
        <3>1. call[c].got \in [Files -> 0 .. MaxChunks]
            BY <1>1 DEF Tools!Call
        <3>2. ASSUME NEW l
              PROVE  [call[c] EXCEPT !.at = l] = [call[c] EXCEPT !.at = l, !.got = call[c].got]
            BY <1>1 DEF Tools!Call
        <3>3. CASE Tools!OpenStore(c)
            <4>1. Tools!Set(c, [call[c] EXCEPT !.at = "search", !.got = call[c].got])
                BY <3>2, <3>3 DEF Tools!OpenStore
            <4> QED BY <3>1, <4>1
        <3>4. CASE Tools!Close(c)
            <4>1. Tools!Set(c, [call[c] EXCEPT !.at = "done", !.got = call[c].got])
                BY <3>2, <3>4 DEF Tools!Close
            <4>2. call[c].at = "close"
                BY <3>4 DEF Tools!Close, Tools!At
            <4> QED BY <3>1, <4>1, <4>2
        <3>5. CASE Tools!Search(c)
            BY <3>5, SameCardinality DEF Tools!Search, Enough
        <3> QED BY <1>2, <3>3, <3>4, <3>5
    <2> DEFINE q == [call[c] EXCEPT !.at = at, !.got = got]
    <2>2. /\ q \in Tools!Call /\ q.at = at /\ q.tool = call[c].tool /\ q.ready = call[c].ready
          /\ q.got = got /\ q.limit = call[c].limit /\ q.erred = call[c].erred
        BY <1>1 DEF Tools!Call
    <2>3. Tools!Set(c, q) /\ call'[c] = q
        BY <2>1, SetCall
    <2> HIDE DEF q
    <2>4. call[c].tool # "document_vectors"
        BY <1>1, <1>2 DEF CallKnows, Tools!OpenStore, Tools!Search, Tools!Close, Tools!At
    <2>5. q.at \in {"close", "done"} /\ ~ q.erred /\ q.tool = "similarity_search"
            => SearchAnswered(q, total)
        <3>1. CASE at = "close"
            BY <1>1, <2>1, <2>2, <3>1, SearchIsEnough
        <3>2. CASE at = "done"
            BY <1>1, <2>1, <2>2, <3>2 DEF CallKnows, SearchAnswered
        <3> QED BY <2>2, <3>1, <3>2
    <2>6. CallKnows(c)'
        BY <1>1, <2>2, <2>3, <2>4, <2>5 DEF CallKnows, Tools!tables
    <2> QED BY <1>1, <2>2, <2>3, <2>6, CallStep
<1>3. CASE Tools!Send(c)
    <2>1. Tools!NoCall \in Tools!Call /\ Tools!NoCall.tool = "none" /\ Tools!NoCall.ready = {}
        BY MaxChunksType DEF Tools!NoCall, Tools!Call, Tools!NoChunks, Tools!Tools
    <2>2. Tools!Set(c, Tools!NoCall) /\ call'[c] = Tools!NoCall
        BY <1>3, SetCall DEF Tools!Send
    <2>3. CallKnows(c)'
        BY <2>1, <2>2 DEF CallKnows, Tools!NoCall
    <2> QED BY <1>1, <2>1, <2>2, <2>3, CallStep
<1> QED BY <1>2, <1>3

LEMMA InitToolsInv == Tools!Init => ToolsInv
<1> SUFFICES ASSUME Tools!Init PROVE ToolsInv
    OBVIOUS
<1>1. /\ Tools!NoCall \in Tools!Call /\ Tools!NoCall.tool = "none"
      /\ Tools!NoCall.at = "idle" /\ Tools!NoCall.ready = {}
    BY MaxChunksType DEF Tools!NoCall, Tools!Call, Tools!NoChunks, Tools!Tools
<1>2. Tools!NoChunks \in [Files -> 0 .. MaxChunks] /\ \A f \in Files : Tools!NoChunks[f] = 0
    BY MaxChunksType DEF Tools!NoChunks
<1>3. Tools!TypeOK
    BY <1>1, <1>2 DEF Tools!Init, Tools!TypeOK
<1>4. \A f \in Files : DocumentKnows(f)
    BY <1>2 DEF Tools!Init, DocumentKnows
<1>5. \A c \in Calls : CallKnows(c)
    BY <1>1 DEF Tools!Init, CallKnows
<1> QED BY <1>3, <1>4, <1>5 DEF ToolsInv

LEMMA NextToolsInv == ToolsInv /\ [Tools!Next]_Tools!vars => ToolsInv'
<1> SUFFICES ASSUME ToolsInv, [Tools!Next]_Tools!vars PROVE ToolsInv'
    OBVIOUS
<1>1. CASE UNCHANGED Tools!vars
    BY <1>1 DEF ToolsInv, Tools!TypeOK, DocumentKnows, CallKnows, Tools!vars
<1> QED BY <1>1, DocumentStep, ArriveStep, ReadDocumentsStep, CheckExistsStep, GetChunksStep,
        QueryFailsStep, SearchStep DEF Tools!Next, Tools!Answer

LEMMA ToolsInvHolds ==
    ToolsInv => Tools!TypeOK /\ Tools!NamedIfKept /\ Tools!FoundIfProcessed
<1> SUFFICES ASSUME ToolsInv PROVE Tools!NamedIfKept /\ Tools!FoundIfProcessed
    BY DEF ToolsInv
<1>1. Tools!NamedIfKept /\ Tools!VectorsFound
    BY DEF ToolsInv, CallKnows, Tools!NamedIfKept, Tools!VectorsFound, Tools!At
<1>2. Tools!SearchFound
    BY SameCardinality DEF ToolsInv, CallKnows, SearchAnswered, Tools!SearchFound, Tools!At
<1> QED BY <1>1, <1>2 DEF Tools!FoundIfProcessed

LEMMA ToolsInductive == Tools!Spec => []ToolsInv
BY InitToolsInv, NextToolsInv, PTL DEF Tools!Spec

\* The chunks document_vectors replies with have the name of their document,
\* unless it was deleted (DocumentVectorsTool, DocHubService.processDocument).
THEOREM KeptAreNamed == Tools!Spec => []NamedIfKept
<1>1. ToolsInv => NamedIfKept
    BY ToolsInvHolds DEF NamedIfKept
<1> QED BY <1>1, ToolsInductive, PTL

\* The tools find what was processed before they were called, up to the limit
\* they were called with (DocHubService.getDocumentChunks, similaritySearch).
THEOREM ProcessedAreFound == Tools!Spec => []FoundIfProcessed
<1>1. ToolsInv => FoundIfProcessed
    BY ToolsInvHolds DEF FoundIfProcessed
<1> QED BY <1>1, ToolsInductive, PTL

\* Uploads and tools beside each other, as MCFileStore runs them, are what they
\* are alone.
LEMMA EachRuns == SpecBoth => Spec /\ Tools!Spec
<1>1. InitBoth => Init /\ Tools!Init
    BY DEF InitBoth
<1>2. [NextStore \/ NextTools]_<<storeVars, toolVars, focus>>
        => [Next]_vars /\ [Tools!Next]_Tools!vars
    BY DEF NextStore, NextTools, storeVars, toolVars, Tools!vars
<1> QED BY <1>1, <1>2, PTL DEF SpecBoth, Spec, Tools!Spec

\* Objects, rows and requests stay well formed, and so do the documents and the
\* calls of the tools (files.service.ts, dochub.service.ts, src/chatbot/tools).
THEOREM TypesAreKept == SpecBoth => []TypesOK
<1>1. TypeOK /\ Tools!TypeOK => TypesOK
    BY DEF TypesOK
<1> QED BY <1>1, EachRuns, TypeCorrect, ToolsInductive, ToolsInvHolds, PTL
=============================================================================
