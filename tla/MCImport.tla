------------------------------- MODULE MCImport -------------------------------
(* An instance of the importer for TLC.                                       *)
EXTENDS ImportFence
CONSTANTS j1, j2
MCTables == {"quota_reservations", "api_tokens", "account_suppressions", "deliveries"}
=============================================================================
