----------------------------- MODULE MCAsyncTask -----------------------------
(* AsyncTask over small delays: the first doubles past the cap on delays.   *)
EXTENDS AsyncTask
=============================================================================
