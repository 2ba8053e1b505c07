----------------------------- MODULE MCMigration -----------------------------
(* Three permission codes and five chains or commands alone: enough for a seed    *)
(* that is killed, a removal that is killed, and a removal and a seed after them.  *)
EXTENDS Migration

MCCodes == <<"USER_READ", "USER_CREATE", "ROLE_READ">>
=============================================================================
