----------------------------- MODULE MCSyncPush -----------------------------
EXTENDS SyncPush

(* A day of the till: a shift, a sale in it, its close.                    *)
MCKind == <<"open", "sale", "close">>
MCRefs == <<{}, {1}, {1}>>
=============================================================================
