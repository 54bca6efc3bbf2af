---------------------------- MODULE KnowledgeBase ----------------------------
(***************************************************************************)
(* The documents of one business and the workers that make them            *)
(* searchable.  A worker locks the oldest pending documents, skipping      *)
(* those another worker holds, cuts the text of each into overlapping      *)
(* chunks, and commits the whole batch at the end; meanwhile the owner     *)
(* uploads and deletes.                                                    *)
(***************************************************************************)
EXTENDS Naturals, Sequences, FiniteSets

CONSTANTS
    Indexers,  \* processes that run process_pending_documents
    Owners,    \* the owner's requests to delete that may overlap
    DocBatch,  \* _BATCH_SIZE of the worker
    MaxDocs,   \* bound of the model: uploads
    Lengths,   \* bound of the model: how many words a document may have
    ChunkSize, \* chunk_size, in words
    Overlap,   \* overlap, smaller than ChunkSize
    MaxAborts  \* bound of the model: batches lost for no fault of a document

VARIABLES
    doc,       \* the rows of knowledge_documents, by created_at
    chunks,    \* the rows of knowledge_chunks of each document
    outcome,   \* what each worker has made of the documents it holds
    broken,    \* workers whose transaction the database has aborted
    deleting,  \* the document each request to delete has found, 0 for none
    aborts     \* history: batches lost for no fault of a document

vars == <<doc, chunks, outcome, broken, deleting, aborts>>

Ids == 1 .. MaxDocs

\* Text the database will not store holds a NUL character.
Files == {"text", "unstorable"}

Spans == [from : Nat, to : Nat]

\* The windows advance; the rest are bounds of the model.
SoundConstants ==
    /\ ChunkSize \in Nat /\ Overlap \in Nat /\ Overlap < ChunkSize
    /\ Lengths \subseteq Nat /\ MaxDocs \in Nat /\ MaxAborts \in Nat

Docs == [file : Files, words : Lengths, count : Nat,
         st : {"pending", "completed", "failed", "deleted"}]

Results == {"completed", "failed", "aborted"}

\* Of a document a worker does not hold, "free".
Outcomes == Results \cup {"free", "waiting"}

TypeOK ==
    /\ doc \in Seq(Docs) /\ Len(doc) <= MaxDocs
    /\ chunks \in [Ids -> Seq(Spans)]
    /\ outcome \in [Indexers -> [Ids -> Outcomes]]
    /\ broken \subseteq Indexers
    /\ deleting \in [Owners -> 0 .. MaxDocs]
    /\ aborts \in 0 .. MaxAborts

Init ==
    /\ doc = <<>>
    /\ chunks = [d \in Ids |-> <<>>]
    /\ outcome = [w \in Indexers |-> [d \in Ids |-> "free"]]
    /\ broken = {}
    /\ deleting = [o \in Owners |-> 0]
    /\ aborts = 0

-----------------------------------------------------------------------------
\* upload_document refuses empty files; the file is stored before the row.
Upload(file, words) ==
    /\ Len(doc) < MaxDocs
    /\ doc' = Append(doc, [file |-> file, words |-> words, count |-> 0, st |-> "pending"])
    /\ UNCHANGED <<chunks, outcome, broken, deleting, aborts>>

HeldBy(w) == {d \in Ids : outcome[w][d] # "free"}

Held == UNION {HeldBy(w) : w \in Indexers}

StartDelete(o, d) ==
    /\ deleting[o] = 0 /\ doc[d].st # "deleted"
    /\ deleting' = [deleting EXCEPT ![o] = d]
    /\ UNCHANGED <<doc, chunks, outcome, broken, aborts>>

\* delete_document waits for the worker that holds the row; what that worker
\* has added in the meantime goes with the row (ON DELETE CASCADE).
CommitDelete(o) ==
    /\ deleting[o] \in Ids \ Held
    /\ doc' = [doc EXCEPT ![deleting[o]].st = "deleted"]
    /\ chunks' = [chunks EXCEPT ![deleting[o]] = <<>>]
    /\ deleting' = [deleting EXCEPT ![o] = 0]
    /\ UNCHANGED <<outcome, broken, aborts>>

-----------------------------------------------------------------------------
\* Mutant: documents that another worker holds are not skipped.
AllPending == {d \in DOMAIN doc : doc[d].st = "pending"}

Pending == {d \in DOMAIN doc : doc[d].st = "pending" /\ d \notin Held}

\* The first of them, up to the limit.
Oldest == {d \in Pending : Cardinality({e \in Pending : e < d}) < DocBatch}

Lock(w) ==
    /\ HeldBy(w) = {} /\ Oldest # {}
    /\ outcome' = [outcome EXCEPT ![w] =
                      [d \in Ids |-> IF d \in Oldest THEN "waiting" ELSE "free"]]
    /\ UNCHANGED <<doc, chunks, broken, deleting, aborts>>

\* chunk_text: there is a window i if it is the first one or if the one before
\* it has not reached the last of n words.
Another(i, n) == i = 0 \/ (i - 1) * (ChunkSize - Overlap) + ChunkSize < n

\* The windows as half-open intervals of words, in order.
Windows(n) ==
    LET m == Cardinality({i \in 0 .. n : Another(i, n)}) IN
    [k \in 1 .. m |->
        LET from == (k - 1) * (ChunkSize - Overlap) IN
        [from |-> from, to |-> IF from + ChunkSize < n THEN from + ChunkSize ELSE n]]

\* What a worker holds and has still to process.
Todo(w) == {d \in Ids : outcome[w][d] = "waiting"}

\* _process_document for the next document: its file may be missing or hold no
\* text.  After an error of the database every further statement of the
\* transaction fails as well.
Process(w, result) ==
    /\ \E d \in Todo(w) :
       /\ \A e \in Todo(w) : d <= e
       /\ result = "completed" => doc[d].file = "text" /\ w \notin broken
       /\ result = "aborted"   => doc[d].file = "unstorable" /\ w \notin broken
       /\ broken' = IF result = "aborted" THEN broken \cup {w} ELSE broken
       /\ outcome' = [outcome EXCEPT ![w][d] = result]
    /\ UNCHANGED <<doc, chunks, deleting, aborts>>

Release(w) ==
    /\ outcome' = [outcome EXCEPT ![w] = [d \in Ids |-> "free"]]
    /\ broken' = broken \ {w}

\* Mutant: a document without a file or text stays in the queue.
RetriedIfFailed(w, d) == IF outcome[w][d] = "failed" THEN "pending" ELSE outcome[w][d]

Recorded(w, d) == outcome[w][d]

Completes(w, d) == outcome[w][d] = "completed"

Indexed(w, d) ==
    IF d \notin HeldBy(w) THEN doc[d]
    ELSE [doc[d] EXCEPT !.st = Recorded(w, d),
                        !.count = IF Completes(w, d) THEN Len(Windows(doc[d].words)) ELSE @]

Commit(w) ==
    /\ HeldBy(w) # {} /\ Todo(w) = {} /\ w \notin broken
    /\ doc' = [d \in DOMAIN doc |-> Indexed(w, d)]
    /\ chunks' = [d \in Ids |-> IF Completes(w, d) THEN chunks[d] \o Windows(doc[d].words)
                                                   ELSE chunks[d]]
    /\ Release(w)
    /\ UNCHANGED <<deleting, aborts>>

\* The commit of an aborted transaction fails and the batch is pending again.
Abort(w) ==
    /\ w \in broken /\ Todo(w) = {}
    /\ Release(w)
    /\ UNCHANGED <<doc, chunks, deleting, aborts>>

\* The worker is killed, or its commit fails.
Crash(w) ==
    /\ HeldBy(w) # {} /\ aborts < MaxAborts
    /\ aborts' = aborts + 1
    /\ Release(w)
    /\ UNCHANGED <<doc, chunks, deleting>>

Next ==
    \/ \E file \in Files, words \in Lengths : Upload(file, words)
    \/ \E o \in Owners, d \in 1 .. Len(doc) : StartDelete(o, d)
    \/ \E o \in Owners : CommitDelete(o)
    \/ \E w \in Indexers : Lock(w)
    \/ \E w \in Indexers, result \in Results : Process(w, result)
    \/ \E w \in Indexers : Commit(w)
    \/ \E w \in Indexers : Abort(w)
    \/ \E w \in Indexers : Crash(w)

Spec == Init /\ [][Next]_vars

\* The worker runs in a loop and its process is restarted.
Fairness == \A w \in Indexers :
    /\ WF_vars(Lock(w)) /\ WF_vars(Commit(w)) /\ WF_vars(Abort(w))
    /\ WF_vars(\E result \in Results : Process(w, result))

-----------------------------------------------------------------------------
Words(d) == UNION {chunks[d][i].from .. chunks[d][i].to - 1 : i \in DOMAIN chunks[d]}

\* A completed document is searchable from its first word to its last, by
\* exactly the chunks it reports; any other has none.  Two workers, a deletion
\* and a lost batch do not change that (process_pending_documents,
\* ingest_document, chunk_text, delete_document).
IndexedWhole ==
    \A d \in Ids :
        IF d \in DOMAIN doc /\ doc[d].st = "completed"
        THEN Words(d) = 0 .. doc[d].words - 1 /\ Len(chunks[d]) = doc[d].count
        ELSE chunks[d] = <<>>

Waits(d) == d \in DOMAIN doc /\ doc[d].st = "pending"

Unstorable(d) == Waits(d) /\ doc[d].file = "unstorable"

\* A document does not stay pending unless one the database will not store
\* stays in the queue with it (process_pending_documents).
SettledUnlessBlocked ==
    \A d \in Ids : Waits(d) ~> (~Waits(d) \/ \E e \in Ids : Unstorable(e))

=============================================================================
