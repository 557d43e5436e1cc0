------------------------------ MODULE UploadsMC ------------------------------
(* The instance of Uploads that TLC checks.                                  *)
EXTENDS Uploads

CONSTANTS u1, u2, ogg, mp3
=============================================================================
