------------------------------ MODULE Workers ------------------------------
(***************************************************************************)
(* The background workers side by side: the trial monitor, the dispatch of *)
(* notifications, the embedding of documents, and with them the counters   *)
(* whose windows Redis ends.  Each has variables of its own.               *)
(***************************************************************************)
EXTENDS AgentTrial

CONSTANTS
    Users, OnTelegram, Senders, BatchSize, MaxNotes, MaxCrashes,
    Indexers, Owners, DocBatch, MaxDocs, Lengths, ChunkSize, Overlap, MaxAborts,
    Visitors, Callers, IpLimit, DayLimit, GenLimit

VARIABLES
    note, reachable, batch, held, newly, told, lost, crashes,
    doc, chunks, outcome, broken, deleting, aborts,
    count, expiring, caller, orphaned

N == INSTANCE Notifications
K == INSTANCE KnowledgeBase
L == INSTANCE RateLimits

TypesOK == TypeOK /\ N!TypeOK /\ K!TypeOK /\ L!TypeOK

ToldOnceUnlessLost == N!ToldOnceUnlessLost
ReachableIsTold == N!ReachableIsTold
IndexedWhole == K!IndexedWhole
SettledUnlessBlocked == K!SettledUnlessBlocked
LimitsEnd == L!LimitsEnd

=============================================================================
