------------------------------ MODULE MCWallet ------------------------------
(* TLC instance of Wallet: one of two workspaces moves, a new one or one     *)
(* whose wallet drifted under an earlier version.  They share no row, so the *)
(* initial state picks the one that moves.                                   *)
EXTENDS Wallet

CONSTANT MaxMoves

VARIABLES workspace, oldWallet, oldReservation, oldLedger

Old == INSTANCE WalletDrift WITH
    wallet <- oldWallet, reservation <- oldReservation, ledger <- oldLedger

MCInit == WalletInit /\ Old!LegacyInit /\ workspace \in {"new", "old"}
MCNext ==
    /\ \/ workspace = "new" /\ WalletNext /\ UNCHANGED <<oldWallet, oldReservation, oldLedger>>
       \/ workspace = "old" /\ Old!WalletNext /\ UNCHANGED walletVars
    /\ UNCHANGED workspace
MCSpec == MCInit /\ [][MCNext]_<<walletVars, oldWallet, oldReservation, oldLedger, workspace>>

(* The order of the ledger multiplies the states: explore histories with at  *)
(* most MaxMoves rows that belong to no job, besides the WELCOME row.         *)
Moves(rows) == {i \in DOMAIN rows : rows[i].job = NoJob /\ rows[i].type # "WELCOME"}
FewMoves == Cardinality(Moves(ledger)) <= MaxMoves /\ Cardinality(Moves(oldLedger)) <= MaxMoves

(* Two jobs in the new workspace; in the old one the third is the first that *)
(* today's calls reserve for.                                                *)
TwoNewJobs == reservation[3] = NoRow

(* WalletDrift's property, of the old workspace.                             *)
OnlyRepairChangesDrift == Old!OnlyRepairChangesDrift
=============================================================================
