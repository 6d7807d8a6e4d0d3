----------------------------- MODULE SealedLedger -----------------------------
(***************************************************************************)
(* What a sealed migration release promises, without saying how: a release *)
(* is sealed against one position of the GitOps main branch, its migration *)
(* is published at most once and never beside another migration of the     *)
(* same position, and it is attested only after it was published, whoever  *)
(* published it.                                                           *)
(***************************************************************************)
EXTENDS Naturals

CONSTANTS Releases      \* the sealed release identifiers

VARIABLES base,         \* base[r]: sealed position of r, 0 while unsealed
          status        \* status[r]: how far r has come

ledgerVars == <<base, status>>

LedgerInit ==
  /\ base = [r \in Releases |-> 0]
  /\ status = [r \in Releases |-> "unsealed"]

\* r, and r alone, takes one step from one status to the next.
Moves(r, from, to) ==
  /\ status'[r] = to
  /\ status[r] = from
  /\ status' = [status EXCEPT ![r] = to]

\* A release manifest is sealed against a position of GitOps main.
Seal(r) ==
  /\ Moves(r, "unsealed", "sealed")
  /\ base'[r] \in Nat \ {0}
  /\ base' = [base EXCEPT ![r] = base'[r]]

\* The migration child of r appears on main: once, and alone on its base.
Publish(r) ==
  /\ Moves(r, "sealed", "published")
  /\ \A q \in Releases \ {r} :
       base[q] = base[r] => status[q] \notin {"published", "attested"}
  /\ UNCHANGED base

\* Result evidence of r is uploaded.
Attest(r) ==
  /\ Moves(r, "published", "attested")
  /\ UNCHANGED base

\* Some release takes one of the three steps.
LedgerNext ==
  \E r \in Releases :
    /\ status'[r] # status[r]
    /\ Seal(r) \/ Publish(r) \/ Attest(r)

LedgerSpec == LedgerInit /\ [][LedgerNext]_ledgerVars
===============================================================================
