--------------------------- MODULE MCUploadQuota ---------------------------
(* UploadQuota for TLC: two users, two slots, a limit of two bytes.        *)
EXTENDS UploadQuota, TLC
=============================================================================
