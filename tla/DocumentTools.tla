--------------------------- MODULE DocumentTools ----------------------------
(****************************************************************************)
(* The tools by which the chatbot's model reads a user's documents, while   *)
(* documents are processed and deleted.  The model may call several at a    *)
(* time, and in any order; a call is a sequence of awaits:                  *)
(*                                                                          *)
(*   document_list, file_selector  documents -> done                        *)
(*   document_vectors              exists -> chunks -> documents -> done    *)
(*   similarity_search             open -> search -> close -> done          *)
(*                                                                          *)
(* A document has a UserDocument row, which makes it listed, and chunks in  *)
(* table vectorstore, which make it found.  processDocument makes the row   *)
(* first (see FileStore for the upload around it); deleting a document only *)
(* takes it off the list.  One user: what the queries filter by is theirs.  *)
(* Scores, texts and the wording of the replies are left out.               *)
(****************************************************************************)
EXTENDS Integers, FiniteSets, FiniteSetsExt

CONSTANTS
    Files,      \* file ids
    Calls,      \* how many tool calls are in flight at once
    MaxChunks,  \* bound: the batches of chunks a document is stored in
    None

VARIABLES
    step,         \* step[f]: where the processing of f is
    total,        \* total[f]: the chunks the text of f is split into
    userDocument, \* userDocument[f]: "none", "active" or "inactive"
    chunks,       \* chunks[f]: the rows of vectorstore for f
    call          \* call[c]: the tool call in slot c

vars == <<step, total, userDocument, chunks, call>>

tables == <<step, total, userDocument, chunks>>

Tools == {"document_list", "file_selector", "document_vectors", "similarity_search"}

Call == [at     : {"idle", "documents", "exists", "chunks", "open", "search", "close", "done"},
         tool   : Tools \cup {"none"},
         f      : Files \cup {None},
         limit  : Nat,              \* limit, k or maxFiles
         erred  : BOOLEAN,          \* a query rejected
         listed : SUBSET Files,     \* the documents the reply names
         got    : [Files -> 0 .. MaxChunks], \* the chunks it holds of each
         ready  : SUBSET Files]     \* history: those processed before the call

NoChunks == [f \in Files |-> 0]

NoCall == [at |-> "idle", tool |-> "none", f |-> None, limit |-> 0,
           erred |-> FALSE, listed |-> {}, got |-> NoChunks, ready |-> {}]

Init ==
    /\ step = [f \in Files |-> "none"]
    /\ total = NoChunks
    /\ userDocument = [f \in Files |-> "none"]
    /\ chunks = NoChunks
    /\ call = [c \in Calls |-> NoCall]

-----------------------------------------------------------------------------
(* processDocument and the deletion of a document.                          *)

\* (Mutant of CreateDocument: the text is stored without the row.)
CreateDocumentRowless(f) ==
    /\ step[f] = "none"
    /\ step' = [step EXCEPT ![f] = "insert"]
    /\ \E n \in 0 .. MaxChunks : total' = [total EXCEPT ![f] = n]
    /\ UNCHANGED <<userDocument, chunks, call>>

\* The row comes before the text is loaded and split into chunks, if any.
CreateDocument(f) ==
    /\ step[f] = "none"
    /\ step' = [step EXCEPT ![f] = "insert"]
    /\ \E n \in 0 .. MaxChunks : total' = [total EXCEPT ![f] = n]
    /\ userDocument' = [userDocument EXCEPT ![f] = "active"]
    /\ UNCHANGED <<chunks, call>>

\* (Mutant of AddChunks: addDocuments is not awaited.)
AddChunksUnawaited(f) ==
    /\ step[f] = "insert"
    /\ step' = [step EXCEPT ![f] = "processed"]
    /\ UNCHANGED <<total, userDocument, chunks, call>>

\* addDocuments stores a batch of chunks at a time, through the service's store.
AddChunks(f) ==
    /\ step[f] = "insert"
    /\ chunks' = [chunks EXCEPT ![f] = IF @ < total[f] THEN @ + 1 ELSE @]
    /\ step' = [step EXCEPT ![f] = IF chunks[f] + 1 < total[f] THEN @ ELSE "processed"]
    /\ UNCHANGED <<total, userDocument, call>>

\* The chunks stored so far stay, and so does the row.
ProcessFails(f) ==
    /\ step[f] = "insert"
    /\ step' = [step EXCEPT ![f] = "failed"]
    /\ UNCHANGED <<total, userDocument, chunks, call>>

DeleteDocument(f) ==
    /\ userDocument[f] = "active"
    /\ userDocument' = [userDocument EXCEPT ![f] = "inactive"]
    /\ UNCHANGED <<step, total, chunks, call>>

-----------------------------------------------------------------------------
(* Tool calls.                                                              *)

At(c, label) == call[c].at = label

Set(c, q) == call' = [call EXCEPT ![c] = q]

Listed == {f \in Files : userDocument[f] = "active"}

Processed == {f \in Files : step[f] = "processed"}

\* The chunks of the documents in S when each f of them has n[f].
ChunksOf(S, n) == {k \in S \X (1 .. MaxChunks) : k[2] <= n[k[1]]}

Start(c, tool, at, f, limit) ==
    /\ At(c, "idle")
    /\ Set(c, [NoCall EXCEPT !.at = at, !.tool = tool, !.f = f, !.limit = limit,
                             !.ready = Processed])
    /\ UNCHANGED tables

\* The model names a file by the id it read somewhere, or made up.
Arrive(c) ==
    \/ Start(c, "document_list", "documents", None, 0)
    \/ \E n \in 1 .. Cardinality(Files) : Start(c, "file_selector", "documents", None, n)
    \/ \E f \in Files, n \in 1 .. MaxChunks : Start(c, "document_vectors", "exists", f, n)
    \/ \E n \in 1 .. MaxChunks : Start(c, "similarity_search", "open", None, n)

\* What a reply may name of the documents: the list all of them, the selector
\* the only one or as many as were asked for, document_vectors its own.
Shown(q, documents) ==
    IF q.tool = "document_list" THEN {documents}
    ELSE IF q.tool = "document_vectors" THEN {documents \cap {q.f}}
    ELSE kSubset(Min({q.limit, Cardinality(documents)}), documents)

\* getUserDocuments.
ReadDocuments(c) ==
    /\ At(c, "documents")
    /\ \E shown \in Shown(call[c], Listed) :
         Set(c, [call[c] EXCEPT !.at = "done", !.listed = shown])
    /\ UNCHANGED tables

\* checkDocumentExists: 'The specified document does not exist or has not been
\* processed yet', unless it has a chunk.
CheckExists(c) ==
    /\ At(c, "exists")
    /\ Set(c, [call[c] EXCEPT !.at = IF chunks[call[c].f] > 0 THEN "chunks" ELSE "done"])
    /\ UNCHANGED tables

\* getDocumentChunks: the first ones, up to the limit.
GetChunks(c) ==
    /\ At(c, "chunks")
    /\ LET f == call[c].f IN
         Set(c, [call[c] EXCEPT !.at = IF chunks[f] > 0 THEN "documents" ELSE "done",
                                !.got[f] = Min({chunks[f], @ + call[c].limit})])
    /\ UNCHANGED tables

\* A vector store for this search only.
OpenStore(c) ==
    /\ At(c, "open")
    /\ Set(c, [call[c] EXCEPT !.at = "search"])
    /\ UNCHANGED tables

\* The nearest chunks, as many as asked for if there are as many.
Search(c) ==
    /\ At(c, "search")
    /\ \E got \in [Files -> 0 .. MaxChunks] :
         /\ \A f \in Files : got[f] <= chunks[f]
         /\ Cardinality(ChunksOf(Files, got)) =
              Min({call[c].limit, Cardinality(ChunksOf(Files, chunks))})
         /\ Set(c, [call[c] EXCEPT !.at = "close", !.got = got])
    /\ UNCHANGED tables

\* "finally": the store is ended; if that rejects, the results are returned all
\* the same.
Close(c) ==
    /\ At(c, "close")
    /\ Set(c, [call[c] EXCEPT !.at = "done"])
    /\ UNCHANGED tables

\* A query rejects.  The look for the document and its chunks answer as if
\* there were none, a search ends its store first, all else is an error.
QueryFails(c) ==
    /\ call[c].at \in {"documents", "exists", "chunks", "open", "search"}
    /\ Set(c, [call[c] EXCEPT !.at = IF @ = "search" THEN "close" ELSE "done",
                              !.got = NoChunks, !.erred = TRUE])
    /\ UNCHANGED tables

Send(c) == At(c, "done") /\ Set(c, NoCall) /\ UNCHANGED tables

Answer(c) ==
    \/ ReadDocuments(c) \/ CheckExists(c) \/ GetChunks(c)
    \/ OpenStore(c) \/ Search(c) \/ Close(c) \/ QueryFails(c) \/ Send(c)

Next ==
    \/ \E f \in Files :
         CreateDocument(f) \/ AddChunks(f) \/ ProcessFails(f) \/ DeleteDocument(f)
    \/ \E c \in Calls : Arrive(c) \/ Answer(c)

Spec == Init /\ [][Next]_vars

-----------------------------------------------------------------------------
(* Properties                                                               *)

TypeOK ==
    /\ step \in [Files -> {"none", "insert", "processed", "failed"}]
    /\ total \in [Files -> 0 .. MaxChunks]
    /\ userDocument \in [Files -> {"none", "active", "inactive"}]
    /\ chunks \in [Files -> 0 .. MaxChunks]
    /\ call \in [Calls -> Call]

\* document_vectors replies with the chunks of what was processed before the
\* model asked, as far as its limit goes.
VectorsFound ==
    \A c \in Calls : At(c, "done") /\ ~ call[c].erred =>
        LET q == call[c] IN
        q.tool = "document_vectors" /\ q.f \in q.ready =>
          q.got[q.f] = Min({q.limit, total[q.f]})

\* similarity_search replies with as many chunks as were asked for, if as many
\* were stored before.
SearchFound ==
    \A c \in Calls : At(c, "done") /\ ~ call[c].erred =>
        LET q == call[c] IN
        q.tool = "similarity_search" =>
          Cardinality(ChunksOf(Files, q.got)) >=
            Min({q.limit, Cardinality(ChunksOf(q.ready, total))})

\* What was processed before the model asked is in the reply, as far as its limit
\* goes, whatever was processed, failed or deleted meanwhile: for processDocument
\* answers only when addDocuments has (dochub.service.ts 143-147, 480-519,
\* 592-609).
FoundIfProcessed == VectorsFound /\ SearchFound

\* The chunks document_vectors replies with carry the name of their document,
\* which is looked up an await later, and are from an 'Unknown document' only if
\* it has been deleted: the row of a document comes before its chunks, and stays
\* when they fail (dochub.service.ts 101-165, document-vectors.tool.ts 45-47).
NamedIfKept ==
    \A c \in Calls : At(c, "done") /\ call[c].tool = "document_vectors" =>
        LET q == call[c] IN
        q.got[q.f] > 0 => q.f \in q.listed \/ userDocument[q.f] = "inactive"
=============================================================================
