------------------------ MODULE SnapshotTransactions ------------------------
(***************************************************************************)
(* MongoDB's multi-document transactions, as the services use them through *)
(* mongoose's session.withTransaction and startTransaction.                *)
(*                                                                         *)
(* A transaction reads a snapshot taken when it begins, and its writes are *)
(* seen by nobody until it commits.  A commit that writes a document which *)
(* another transaction committed after the snapshot is refused with a      *)
(* WriteConflict.  It is enough to remember, for every open transaction,   *)
(* which documents have been written behind its back.  A unique-index key  *)
(* is a document too: the two inserts of one key write the same document.  *)
(***************************************************************************)
CONSTANTS Txns,   \* the identities of transactions
          Docs    \* the documents (and unique keys) of the database

VARIABLES open,   \* the transactions that have begun and not ended
          missed  \* missed[t]: the documents committed since t's snapshot

TxnTypeOK == /\ open \in SUBSET Txns
             /\ missed \in [Txns -> SUBSET Docs]

TxnInit == /\ open = {}
           /\ missed = [t \in Txns |-> {}]

\* The documents of W become visible: every other open transaction misses them.
Publish(t, W) ==
    missed' = [o \in Txns |-> IF o \in open \ {t} THEN missed[o] \cup W ELSE {}]

TxnBegin(t) == /\ t \notin open
               /\ open' = open \cup {t}
               /\ UNCHANGED missed

TxnCommit(t, W) == /\ t \in open
                   /\ W \cap missed[t] = {}
                   /\ open' = open \ {t}
                   /\ Publish(t, W)

\* Abort, by the client, by the server, or because the client disappeared.
TxnAbort(t) == /\ open' = open \ {t}
               /\ missed' = [missed EXCEPT ![t] = {}]

\* One atomic update outside of any transaction of this model.
PlainWrite(W) ==
    /\ UNCHANGED open
    /\ missed' = [o \in Txns |-> IF o \in open THEN missed[o] \cup W ELSE missed[o]]
=============================================================================
