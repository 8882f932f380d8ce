--------------------------- MODULE MCAsyncUpload ---------------------------
(* Uploads in the main thread and in a thread, with every error. *)
EXTENDS AsyncUpload

MCModes == [concurrency : {0, 1}, exits : BOOLEAN, lies : BOOLEAN]
=============================================================================
