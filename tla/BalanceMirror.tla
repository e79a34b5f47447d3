--------------------------- MODULE BalanceMirror ---------------------------
(***************************************************************************)
(* What the custody ledger promises while nothing goes wrong: a replica of *)
(* the custodied balances that starts at the tip and then only moves       *)
(* forward through states the chain had.  Once live is lost the replica    *)
(* promises nothing.                                                       *)
(***************************************************************************)
EXTENDS Chain

VARIABLES
  live,   \* the promise holds
  at,     \* the log position whose balances the replica shows
  view    \* the replica

mirrorVars == <<chainVars, live, at, view>>

View(n) == [a \in Custody |-> BalancesAfter(n)[a]]

MirrorInit ==
  /\ ChainInit
  /\ live = FALSE
  /\ at = 0
  /\ view = [a \in Custody |-> 0]

Grow == ChainNext /\ UNCHANGED <<live, at, view>>

Begin ==
  /\ live' = TRUE
  /\ at' = EndOf(Tip)
  /\ view' = View(at')
  /\ UNCHANGED chainVars

Follow ==
  /\ live
  /\ live' = TRUE
  /\ at' \in at .. EndOf(Tip)
  /\ view' = View(at')
  /\ UNCHANGED chainVars

\* Not live: at and view may take any value.
Lost == live' = FALSE /\ UNCHANGED chainVars

MirrorNext == Grow \/ Begin \/ Follow \/ Lost

MirrorSpec == MirrorInit /\ [][MirrorNext]_mirrorVars
=============================================================================
