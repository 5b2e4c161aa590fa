----------------------------- MODULE PageLedger -----------------------------
(***************************************************************************)
(* What the free list promises its callers, with sets in place of sorted   *)
(* vectors and with no lookup cache (include/boltdb/page/freelist.hpp,     *)
(* 15-17 and the comments of the public operations): a page is used, free  *)
(* or held by exactly one transaction, and every operation moves whole     *)
(* sets of pages between those three.                                      *)
(***************************************************************************)
EXTENDS Naturals

CONSTANTS Page,    \* page ids the file has
          TxnId    \* transaction ids

VARIABLES free,    \* pages that can be allocated
          held,    \* held[t]: pages transaction t freed, not yet reusable
          saved    \* pages the last written freelist page lists

ledgerVars == <<free, held, saved>>

HeldBy(T) == UNION {held[t] : t \in T}

LedgerInit ==
  /\ free = {}
  /\ held = [t \in TxnId |-> {}]
  /\ saved = {}

\* A contiguous block leaves the ledger: its pages are used from now on.
Take ==
  /\ \E first, last \in Page :
       /\ first .. last \subseteq free
       /\ free' = free \ (first .. last)
  /\ UNCHANGED <<held, saved>>

\* Transaction t hands back pages nobody tracks.
Retire(t) ==
  /\ \E P \in SUBSET Page :
       /\ P \cap (free \cup HeldBy(TxnId)) = {}
       /\ held' = [held EXCEPT ![t] = @ \cup P]
  /\ UNCHANGED <<free, saved>>

\* The pages of t and of every older transaction become free.
Reclaim(t) ==
  LET older == {u \in TxnId : u <= t}
  IN  /\ free' = free \cup HeldBy(older)
      /\ held' = [u \in TxnId |-> IF u \in older THEN {} ELSE held[u]]
      /\ UNCHANGED saved

\* Transaction t never happened: its pages are used again.
Forget(t) ==
  /\ held' = [held EXCEPT ![t] = {}]
  /\ UNCHANGED <<free, saved>>

\* Everything that is not used is saved, for a restart to find.
Save ==
  /\ saved' = free \cup HeldBy(TxnId)
  /\ UNCHANGED <<free, held>>

\* The free pages are read again; what is held stays held.
Reread ==
  /\ free' = saved \ HeldBy(TxnId)
  /\ UNCHANGED <<held, saved>>

\* After a crash no transaction is left to hold a page.
Reopen ==
  /\ free' = saved
  /\ held' = [t \in TxnId |-> {}]
  /\ UNCHANGED saved

LedgerNext ==
  \/ Take
  \/ \E t \in TxnId : Retire(t) \/ Reclaim(t) \/ Forget(t)
  \/ Save
  \/ Reread
  \/ Reopen

LedgerSpec == LedgerInit /\ [][LedgerNext]_ledgerVars
=============================================================================
