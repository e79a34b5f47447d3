-------------------------- MODULE MCBalanceView --------------------------
(***************************************************************************)
(* Small instances of BalanceView.  A tick is a second of the deployment:  *)
(* the page waits 2000 ms, the node makes a block every 3 s.               *)
(***************************************************************************)
EXTENDS BalanceView

MCWallets == {"alice", "bob"}
MCRefresh == 2000 \div 1000
MCBlockTime == 3
=============================================================================
